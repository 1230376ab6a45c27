----------------------------- MODULE MCAuthFile -----------------------------
(* Instances of AuthFile. *)
EXTENDS AuthFile, TLC

File(disabled, reason, note) ==
  [exists |-> TRUE, type |-> "qoder", disabled |-> disabled,
   reason |-> reason, note |-> note, token |-> 0]

(* An account in rotation, and one that an older plugin parked. *)
InRotation == File(FALSE, "none", "credits")
LeftOver == File(TRUE, "exhausted", "exhausted")
OlderLeftOver == File(TRUE, "none", "exhausted")
DeadSession == File(TRUE, "none", "dead")
LegacyFile == [File(TRUE, "manual", "credits") EXCEPT !.type = "legacy"]

FoundUsual == {InRotation, LeftOver, OlderLeftOver}
FoundAny == FoundUsual \cup {DeadSession, LegacyFile, Missing}
=============================================================================
