----------------------------- MODULE MCAccount -----------------------------
(***************************************************************************)
(* Three parts of what is held of an account, each on a small instance:    *)
(* its file under the account's lock; the names the file moves between;    *)
(* and what the cache keeps of upstream's answers.                         *)
(* They have no variable in common, so a behaviour moves one of them and   *)
(* leaves the others where they began.                                     *)
(***************************************************************************)
EXTENDS MCAuthFile, AuthNames, AccountCache

VARIABLE part

Symmetry ==
  Permutations(Callers) \cup Permutations(Accounts) \cup Permutations(Movers)

PartInit ==
  /\ part \in {"document", "names", "cache"}
  /\ AuthInit /\ NamesInit /\ CacheInit
  /\ part # "document" => doc = InRotation
  /\ part # "names" => Present(dir) = {"own"} /\ ~setTo

PartNext ==
  /\ UNCHANGED part
  /\ \/ part = "document" /\ AuthNext /\ UNCHANGED <<namesVars, cacheVars>>
     \/ part = "names" /\ NamesNext /\ UNCHANGED <<vars, cacheVars>>
     \/ part = "cache" /\ CacheNext /\ UNCHANGED <<vars, namesVars>>

PartSpec == PartInit /\ [][PartNext]_<<part, vars, namesVars, cacheVars>>
=============================================================================
