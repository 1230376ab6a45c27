---------------------------- MODULE UpstreamGate ----------------------------
(***************************************************************************)
(* What concurrency.go promises: per credential, at most Cap requests are  *)
(* inside the gate at any time; a credential never waits for another; and  *)
(* a request enters and leaves at most once.  Executor.tla, with its       *)
(* counting semaphore and its release closures, implements this.           *)
(***************************************************************************)
EXTENDS Naturals, FiniteSets

CONSTANTS
  Auths,      \* credential ids, the gate keys
  Requests,   \* executor requests
  Cap         \* upstreamMaxConcurrentPerAuth

VARIABLES
  holders,    \* holders[a]: the requests inside a's gate
  left        \* the requests that came out, or gave up waiting

gateVars == <<holders, left>>

Outside == {r \in Requests \ left : \A a \in Auths : r \notin holders[a]}

Init ==
  /\ holders = [a \in Auths |-> {}]
  /\ left = {}

Enter(a, r) ==
  /\ r \in Outside
  /\ Cardinality(holders[a]) < Cap
  /\ holders' = [holders EXCEPT ![a] = @ \cup {r}]
  /\ UNCHANGED left

Leave(a, r) ==
  /\ r \in holders[a]
  /\ holders' = [holders EXCEPT ![a] = @ \ {r}]
  /\ left' = left \cup {r}

GiveUp(r) ==
  /\ r \in Outside
  /\ left' = left \cup {r}
  /\ UNCHANGED holders

Next ==
  \E r \in Requests : GiveUp(r) \/ \E a \in Auths : Enter(a, r) \/ Leave(a, r)

Spec == Init /\ [][Next]_gateVars

=============================================================================
