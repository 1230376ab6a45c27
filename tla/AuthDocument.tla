---------------------------- MODULE AuthDocument ----------------------------
(***************************************************************************)
(* One credential file: what each operation of the plugin makes of it, and *)
(* the promise of the operations that hold the account's lock, that each   *)
(* takes effect at once on the file as it stands (Spec).                   *)
(*                                                                         *)
(* Of the document the fields the plugin decides from are kept.  note is   *)
(* its credit segment (creditSegmentFromNote), "unknown" when it has none; *)
(* token is the version of the token pair.  Every disabled_reason that is  *)
(* neither absent nor an exhaustion behaves like "manual".                 *)
(***************************************************************************)
EXTENDS Naturals

CONSTANTS
  Credits   \* what a credits query can answer: within {"credits","exhausted"}

ASSUME CreditsAssumption == Credits \subseteq {"credits", "exhausted"}

VARIABLE doc    \* the file

Notes == {"unknown", "credits", "exhausted", "dead", "migrated"}

Documents ==
  [exists : BOOLEAN, type : {"qoder", "legacy"}, disabled : BOOLEAN,
   reason : {"none", "manual", "exhausted"}, note : Notes, token : Nat]

Missing ==
  [exists |-> FALSE, type |-> "qoder", disabled |-> FALSE, reason |-> "none",
   note |-> "unknown", token |-> 0]

(* buildAuthFileJSON: a new document, which inherits nothing. *)
Rebuilt(token, disabled, note) ==
  [exists |-> TRUE, type |-> "qoder", disabled |-> disabled,
   reason |-> "none", note |-> note, token |-> token]

(* The writes that inherit nothing: a rename, the adoption of a legacy     *)
(* file, a refreshed token pair and a login.                               *)
Renamed(d) == Rebuilt(d.token, d.disabled, d.note)
Adopted(d) == Rebuilt(d.token, d.disabled, "migrated")
Refreshed(d, token) == Rebuilt(token, d.disabled, d.note)
LoggedIn(token) == Rebuilt(token, FALSE, "unknown")

(* The same document once more, for the host to register it again. *)
Reregistered(d) == [d EXCEPT !.type = "qoder"]

(* displayNoteWithPrev: a failed query keeps the segment on disk. *)
NoteOf(credits, prev) == IF credits = "unknown" THEN prev ELSE credits

(* The operator's switch: the document inherits from the one on disk. *)
SetDisabled(d, next, prev) ==
  [d EXCEPT !.type = "qoder", !.disabled = next, !.note = prev,
            !.reason = IF next THEN "manual" ELSE "none"]

(* patchLifecyclePhysical with the flag as it is on disk. *)
Noted(d, credits) == [d EXCEPT !.note = NoteOf(credits, d.note)]

(* Mutated: the recorded intent of the disable is not looked at. *)
LegacyByNote(d) == d.disabled /\ d.note = "exhausted"

(* A disable that this plugin once made for lack of credits. *)
LegacyExhausted(d) ==
  /\ d.disabled
  /\ d.note # "dead"
  /\ \/ d.reason = "exhausted"
     \/ d.reason = "none" /\ d.note = "exhausted"

(* reenableAuthChanged: the flag and the reason go. *)
Reenabled(d, credits) ==
  [d EXCEPT !.disabled = FALSE, !.reason = "none", !.note = credits]

Init == doc \in Documents

Set(next) == doc.exists /\ doc' = SetDisabled(doc, next, doc.note)

Note(credits) == doc.exists /\ doc' = Noted(doc, credits)

Reenable(credits) ==
  /\ doc.exists
  /\ LegacyExhausted(doc)
  /\ doc' = Reenabled(doc, credits)

Remove == doc.exists /\ doc' = Missing

Next ==
  \/ \E next \in BOOLEAN : Set(next)
  \/ \E credits \in Credits \cup {"unknown"} : Note(credits)
  \/ \E credits \in Credits : Reenable(credits)
  \/ Remove

Spec == Init /\ [][Next]_doc
=============================================================================
