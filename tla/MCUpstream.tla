----------------------------- MODULE MCUpstream -----------------------------
(***************************************************************************)
(* Three parts of the way of a request, each on a small instance: the       *)
(* cooldown table, what a refusal comes to, and what calls upstream share.  *)
(* They have no variable in common, so a behaviour moves one of them and    *)
(* leaves the others where they began.                                      *)
(***************************************************************************)
EXTENDS Cooldown, RefusalPolicy, UpstreamCalls, TLC

VARIABLE part

Symmetry ==
  Permutations(Models) \cup Permutations(Files) \cup Permutations(CallSlots)

PartInit ==
  /\ part \in {"cooldown", "policy", "calls"}
  /\ Init /\ PolicyInit /\ CallsInit
  /\ part # "policy" => path = "execute" /\ carrier = "http"
  /\ part # "calls" => \A f \in Files : account[f] = [uid |-> NoUid, region |-> "cn"]

PartNext ==
  /\ UNCHANGED part
  /\ \/ part = "cooldown" /\ Next /\ UNCHANGED <<policyVars, callVars>>
     \/ part = "policy" /\ PolicyNext /\ UNCHANGED <<vars, callVars>>
     \/ part = "calls" /\ CallsNext /\ UNCHANGED <<vars, policyVars>>

PartSpec == PartInit /\ [][PartNext]_<<part, vars, policyVars, callVars>>
=============================================================================
