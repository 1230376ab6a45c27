--------------------------- MODULE ExecutorProofs ---------------------------
(***************************************************************************)
(* Theorems about executor requests, for any number of requests and        *)
(* credentials, any cap, any number of attempts and any clock.             *)
(***************************************************************************)
EXTENDS Executor, CooldownTableProofs

-----------------------------------------------------------------------------
(* How a step of one request moves it past the gate. *)

Before == {"idle", "waiting"}
After == {"close", "done"}

Stays(r) ==
  /\ slots' = slots
  /\ \/ req[r].pc \in Before /\ req'[r].pc \in Before
     \/ /\ req[r].pc \in Inside /\ req'[r].pc \in Inside
        /\ req'[r].auth = req[r].auth
     \/ req[r].pc \in After /\ req'[r].pc \in After

Enters(r) ==
  /\ req[r].pc \in Before /\ req'[r].pc \in Inside
  /\ req[r].auth \in Auths /\ req'[r].auth = req[r].auth
  /\ slots[req[r].auth] < Cap
  /\ slots' = [slots EXCEPT ![req[r].auth] = @ + 1]

GivesUp(r) ==
  /\ req[r].pc \in Before /\ req'[r].pc \in After
  /\ slots' = slots

Leaves(r) ==
  /\ req[r].pc \in Inside /\ req'[r].pc \in After
  /\ req[r].auth \in Auths
  /\ slots' = [slots EXCEPT ![req[r].auth] = @ - 1]

Moves(r) == Stays(r) \/ Enters(r) \/ GivesUp(r) \/ Leaves(r)

(* What every step of a request leaves alone, and the type it keeps. *)
Steps(r) ==
  /\ req'[r] \in RequestStates
  /\ req' = [req EXCEPT ![r] = req'[r]]
  /\ req'[r].pc \notin {"idle", "done"} => req'[r].auth \in Auths
  /\ now' = now /\ billingRead' = billingRead

(* A request that has ended is a request.                                  *)
LEMMA FinishedType ==
  ASSUME NEW q \in RequestStates, NEW result \in Results
  PROVE  /\ Finished(q, result) \in RequestStates
         /\ Finished(q, result).pc = "done"
         /\ Finished(q, result).out = q.out
<1>1. q.out \in SUBSET Nat
  BY DEF RequestStates
<1>. QED
  BY <1>1 DEF Finished, Bare, RequestStates, PCs, Results, ModelNames, AllOutcomes

(* The freeze a guard returns is one of the table.                         *)
LEMMA RefusalType ==
  ASSUME NEW t \in Tables, NEW a \in Auths, NEW m \in ModelNames,
         NEW at \in Nat
  PROVE  \/ Refusal(t, a, m, at) = None
         \/ /\ Refusal(t, a, m, at) \in Entries
            /\ Refusal(t, a, m, at).reason \in QuotaReasons
<1>1. <<a, Shared>> \in Keys /\ <<a, m>> \in Keys
  BY DEF Keys, ModelNames
<1>2. \A k \in Keys : t[k] \in Entries \cup {None}
  BY DEF Tables
<1>3. \A k \in Keys : Frozen(t, k, at) => t[k] \in Entries /\ t[k].reason \in QuotaReasons
  BY <1>2 DEF Frozen, Live
<1>. QED
  BY <1>1, <1>3 DEF Refusal
-----------------------------------------------------------------------------
(* Each step of a request keeps the types and is one of the moves.         *)

LEMMA ArriveSteps ==
  ASSUME TypeOK, NEW r \in Requests, Arrive(r)
  PROVE  Steps(r) /\ Moves(r) /\ cooldownTable' \in Tables
<1>1. req[r] \in RequestStates /\ req[r].pc = "idle"
  BY DEF TypeOK, Arrive
<1>2. PICK a \in Auths, m \in ModelNames, p \in Paths :
        /\ cooldownTable' = PruneGuard(cooldownTable, a, m, now)
        /\ req' = [req EXCEPT ![r] =
                     IF Refusal(cooldownTable, a, m, now) = None
                       THEN NewRequest(a, m, p)
                       ELSE Finished(@, "refused")]
  BY DEF Arrive
<1>3. NewRequest(a, m, p) \in RequestStates
  BY ExecutorAssumption DEF NewRequest, RequestStates, PCs, Results,
     AllOutcomes, TypeOK
<1>4. /\ Finished(req[r], "refused") \in RequestStates
      /\ Finished(req[r], "refused").pc = "done"
  BY <1>1, FinishedType DEF Results
<1>5. cooldownTable' \in Tables
  BY <1>2, DeletionTables DEF TypeOK
<1>6. /\ req'[r] \in {NewRequest(a, m, p), Finished(req[r], "refused")}
      /\ req' = [req EXCEPT ![r] = req'[r]]
  BY <1>2 DEF TypeOK
<1>. QED
  BY <1>1, <1>3, <1>4, <1>5, <1>6
     DEF Arrive, NewRequest, Steps, Moves, Stays, GivesUp, Before, After, Inside, PCs

(* Steps that leave the table alone. *)
LEMMA QuietSteps ==
  ASSUME TypeOK, NEW r \in Requests,
         \/ Enter(r) \/ GateTimeout(r) \/ Send(r) \/ Backoff(r)
         \/ EmitError(r) \/ ReleaseSlot(r) \/ StreamClose(r) \/ Return(r)
         \/ Upstream(r)
  PROVE  Steps(r) /\ Moves(r) /\ cooldownTable' \in Tables
<1>. DEFINE q == req[r]
<1>1. /\ q \in RequestStates
      /\ q.pc \notin {"idle", "done"} => q.auth \in Auths
      /\ cooldownTable \in Tables
      /\ slots \in [Auths -> 0 .. Cap]
      /\ req \in [Requests -> RequestStates]
  BY DEF TypeOK
<1>2. /\ q.attempt \in Nat /\ q.out \in SUBSET Nat /\ q.auth \in Auths \cup {None}
      /\ q.result \in Results
  BY <1>1 DEF RequestStates
<1>3. \A result \in Results : /\ Finished(q, result) \in RequestStates
                              /\ Finished(q, result).pc = "done"
  BY <1>1, FinishedType
<1>. USE DEF Steps, Moves, Before, After, Inside, PCs, cooldownVars
<1>4. CASE Enter(r)
  BY <1>1, <1>4 DEF Enter, Acquire, Enters, RequestStates
<1>5. CASE GateTimeout(r)
  BY <1>1, <1>3, <1>5 DEF GateTimeout, GivesUp, Results
<1>6. CASE Send(r)
  BY <1>1, <1>2, <1>6 DEF Send, Stays, RequestStates
<1>7. CASE Backoff(r)
  BY <1>1, <1>2, <1>7 DEF Backoff, Stays, RequestStates
<1>8. CASE EmitError(r)
  BY <1>1, <1>2, <1>8 DEF EmitError, Stays, RequestStates, Results
<1>9. CASE ReleaseSlot(r)
  BY <1>1, <1>2, <1>9 DEF ReleaseSlot, Release, Leaves, RequestStates
<1>10. CASE StreamClose(r)
  <2>1. IF q.result = "none" THEN "ok" \in Results ELSE q.result \in Results
    BY <1>2 DEF Results
  <2>. QED
    BY <1>1, <1>3, <1>10, <2>1 DEF StreamClose, Stays
<1>11. CASE Return(r)
  BY <1>1, <1>3, <1>11 DEF Return, Release, Leaves, Results
<1>12. CASE EmitChunk(r)
  BY <1>1, <1>2, <1>12 DEF EmitChunk, Stays, RequestStates
<1>13. CASE Answer(r)
  <2>1. PICK outcome \in Outcomes, hint \in Hints :
          req' = [req EXCEPT ![r] =
            [@ EXCEPT !.outcome = outcome, !.hint = hint,
                      !.pc = CASE outcome \in {"ok", "fault"} -> "answer"
                               [] outcome = "soft" /\ MayRetry(r) -> "backoff"
                               [] OTHER -> "record"]]
    BY <1>13 DEF Answer
  <2>2. outcome \in AllOutcomes /\ hint \in Nat
    BY ExecutorAssumption
  <2>3. /\ req'[r].pc \in {"answer", "backoff", "record"}
        /\ req'[r] \in RequestStates /\ req'[r].auth = q.auth
        /\ req' = [req EXCEPT ![r] = req'[r]]
    BY <1>1, <2>1, <2>2 DEF RequestStates
  <2>. QED
    BY <1>1, <2>3, <1>13 DEF Answer, Stays
<1>. QED
  BY <1>4, <1>5, <1>6, <1>7, <1>8, <1>9, <1>10, <1>11, <1>12, <1>13 DEF Upstream

(* Steps that write the table. *)
LEMMA TableSteps ==
  ASSUME TypeOK, NEW r \in Requests,
         Recheck(r) \/ AttemptGuard(r) \/ Record(r) \/ Hint(r)
  PROVE  Steps(r) /\ Moves(r) /\ cooldownTable' \in Tables
<1>. DEFINE q == req[r]
<1>1. /\ q \in RequestStates
      /\ q.pc \notin {"idle", "done"} => q.auth \in Auths
      /\ cooldownTable \in Tables /\ now \in Nat
      /\ slots \in [Auths -> 0 .. Cap]
      /\ req \in [Requests -> RequestStates]
  BY DEF TypeOK
<1>2. /\ q.attempt \in Nat /\ q.out \in SUBSET Nat /\ q.hint \in Nat
      /\ q.model \in ModelNames /\ q.outcome \in AllOutcomes
      /\ q.auth \in Auths \cup {None} /\ q.result \in Results
  BY <1>1 DEF RequestStates
<1>3. ASSUME q.auth \in Auths
      PROVE  /\ PruneGuard(cooldownTable, q.auth, q.model, now) \in Tables
             /\ \/ RefusalOf(r) = None
                \/ /\ RefusalOf(r) \in Entries
                   /\ RefusalOf(r).reason \in QuotaReasons
  BY <1>1, <1>2, <1>3, DeletionTables, RefusalType DEF RefusalOf
<1>4. CASE Recheck(r)
  <2>1. q.pc = "recheck" /\ q.auth \in Auths
    BY <1>1, <1>4 DEF Recheck
  <2>2. cooldownTable' \in Tables
    BY <1>3, <1>4, <2>1 DEF Recheck, Guarded
  <2>3. /\ Finished(q, "refused") \in RequestStates
        /\ Finished(q, "refused").pc = "done"
    BY <1>1, FinishedType DEF Results
  <2>4. [q EXCEPT !.pc = "attempt", !.attempt = 1, !.clearedAt = now] \in RequestStates
    BY <1>1 DEF RequestStates, PCs
  <2>5. CASE RefusalOf(r) = None
    BY <1>1, <1>4, <2>1, <2>2, <2>4, <2>5
       DEF Recheck, Steps, Moves, Stays, Inside, PCs, RequestStates
  <2>6. CASE RefusalOf(r) # None
    BY <1>1, <1>4, <2>1, <2>2, <2>3, <2>6
       DEF Recheck, Release, Steps, Moves, Leaves, After, Inside, PCs
  <2>. QED
    BY <2>5, <2>6
<1>5. CASE AttemptGuard(r)
  <2>1. q.pc = "attempt" /\ q.auth \in Auths
    BY <1>1, <1>5 DEF AttemptGuard
  <2>2. cooldownTable' \in Tables
    BY <1>3, <1>5, <2>1 DEF AttemptGuard, Guarded
  <2>3. /\ req'[r].pc \in {"ready", "record", "answer"}
        /\ req'[r] \in RequestStates /\ req'[r].auth = q.auth
        /\ req' = [req EXCEPT ![r] = req'[r]]
    <3>1. CASE RefusalOf(r) = None
      BY <1>1, <1>5, <3>1 DEF AttemptGuard, RequestStates, PCs
    <3>2. CASE RefusalOf(r) # None
      <4>1. /\ RefusalOf(r).reason \in AllOutcomes
            /\ RefusalOf(r).hint \in Nat
        BY <1>3, <2>1, <3>2 DEF AllOutcomes, Entries
      <4>2. CASE q.path = "sync"
        BY <1>1, <1>5, <3>2, <4>1, <4>2 DEF AttemptGuard, RequestStates, PCs
      <4>3. CASE q.path # "sync"
        BY <1>1, <1>5, <3>2, <4>3 DEF AttemptGuard, RequestStates, PCs, AllOutcomes
      <4>. QED
        BY <4>2, <4>3
    <3>. QED
      BY <3>1, <3>2
  <2>4. UNCHANGED <<now, billingRead, slots>>
    BY <1>5 DEF AttemptGuard
  <2>. QED
    BY <1>1, <2>1, <2>2, <2>3, <2>4 DEF Steps, Moves, Stays, Inside, PCs
<1>6. CASE Record(r)
  <2>1. q.pc = "record" /\ q.auth \in Auths
    BY <1>1, <1>6 DEF Record
  <2>2. ASSUME q.outcome \in QuotaReasons
        PROVE  cooldownTable' \in Tables
    <3>1. cooldownTable' = RecordQuotaObservation(cooldownTable, q.auth,
                             q.model, q.outcome, q.hint, now)
      BY <1>6, <2>2 DEF Record, QuotaReasons, ModelQuotaReasons
    <3>. QED
      BY <1>1, <1>2, <2>1, <2>2, <3>1, QuotaTable
  <2>3. ASSUME q.outcome \notin QuotaReasons
        PROVE  cooldownTable' \in Tables
    <3>1. \E reason \in {"rate_limit", "upstream_error"} :
            cooldownTable' \in MarkModelCooldown(cooldownTable, q.auth,
                                                 q.model, reason, now)
      BY <1>6, <2>3 DEF Record
    <3>. QED
      BY <1>1, <1>2, <2>1, <3>1, MarkTable
  <2>4. cooldownTable' \in Tables
    BY <2>2, <2>3
  <2>5. /\ req' = [req EXCEPT ![r].pc =
                     IF q.outcome = "soft" THEN "hint" ELSE "answer"]
        /\ UNCHANGED <<now, billingRead, slots>>
    BY <1>6 DEF Record
  <2>. QED
    BY <1>1, <2>1, <2>4, <2>5
       DEF Steps, Moves, Stays, Inside, PCs, RequestStates
<1>7. CASE Hint(r)
  <2>1. q.pc = "hint" /\ q.auth \in Auths
    BY <1>1, <1>7 DEF Hint
  <2>2. cooldownTable' \in Tables
    BY <1>1, <1>2, <1>7, <2>1, HintTable DEF Hint
  <2>3. /\ req' = [req EXCEPT ![r].pc = "answer"]
        /\ UNCHANGED <<now, billingRead, slots>>
    BY <1>7 DEF Hint
  <2>. QED
    BY <1>1, <2>1, <2>2, <2>3
       DEF Steps, Moves, Stays, Inside, PCs, RequestStates
<1>. QED
  BY <1>4, <1>5, <1>6, <1>7

-----------------------------------------------------------------------------
(* The environment: Cooldown's own operators are those of this module.     *)

LEMMA SameKeys ==
  CD!Keys = Keys /\ CD!ModelNames = ModelNames
BY DEF CD!Keys, Keys, CD!ModelNames, ModelNames

(* What goes on beside the requests keeps the types. *)
LEMMA EnvironmentTypes ==
  ASSUME TypeOK, Environment
  PROVE  /\ cooldownTable' \in Tables /\ now' \in Nat
         /\ billingRead' \in [Auths -> Nat \cup {None}]
<1>1. cooldownTable \in Tables /\ now \in Nat /\ Shared \in ModelNames
      /\ billingRead \in [Auths -> Nat \cup {None}]
  BY DEF TypeOK, ModelNames
<1>2. CASE CD!Tick
  BY <1>1, <1>2 DEF CD!Tick
<1>3. ASSUME NEW a \in Auths, CD!BillingStart(a)
      PROVE  /\ cooldownTable' \in Tables /\ now' \in Nat
             /\ billingRead' \in [Auths -> Nat \cup {None}]
  BY <1>1, <1>3 DEF CD!BillingStart
<1>4. ASSUME NEW a \in Auths, CD!BillingPositive(a)
      PROVE  /\ cooldownTable' \in Tables /\ now' \in Nat
             /\ billingRead' \in [Auths -> Nat \cup {None}]
  <2>1. billingRead[a] \in Nat
    BY <1>1, <1>4 DEF CD!BillingPositive
  <2>2. cooldownTable' = ObservePositiveCredits(cooldownTable, a, billingRead[a])
    BY <1>4 DEF CD!BillingPositive, CD!ObservePositiveCredits,
                ObservePositiveCredits
  <2>. QED
    BY <1>1, <1>4, <2>1, <2>2, DeletionTables DEF CD!BillingPositive
<1>5. ASSUME NEW a \in Auths, CD!BillingOther(a)
      PROVE  /\ cooldownTable' \in Tables /\ now' \in Nat
             /\ billingRead' \in [Auths -> Nat \cup {None}]
  BY <1>1, <1>5 DEF CD!BillingOther
<1>6. ASSUME NEW a \in Auths, CD!ListModels(a)
      PROVE  /\ cooldownTable' \in Tables /\ now' \in Nat
             /\ billingRead' \in [Auths -> Nat \cup {None}]
  <2>1. PICK at \in CD!Readings :
          cooldownTable' = CD!PruneAccount(cooldownTable, a, at)
    BY <1>6 DEF CD!ListModels
  <2>2. CD!PruneAccount(cooldownTable, a, at) = PruneAccount(cooldownTable, a, at)
    BY SameKeys DEF CD!PruneAccount, PruneAccount, CD!Live, Live
  <2>3. at \in Nat
    BY <1>1, <2>1 DEF CD!Readings
  <2>. QED
    BY <1>1, <1>6, <2>1, <2>2, <2>3, DeletionTables DEF CD!ListModels
<1>7. ASSUME NEW a \in Auths, NEW m \in ModelNames, CD!Clear(a, m)
      PROVE  /\ cooldownTable' \in Tables /\ now' \in Nat
             /\ billingRead' \in [Auths -> Nat \cup {None}]
  <2>1. cooldownTable' = ClearModelCooldown(cooldownTable, a, m)
    BY <1>7, SameKeys DEF CD!Clear, CD!ClearModelCooldown, ClearModelCooldown
  <2>2. 0 \in Nat
    OBVIOUS
  <2>. QED
    BY <1>1, <1>7, <2>1, <2>2, DeletionTables DEF CD!Clear
<1>. QED
  BY <1>2, <1>3, <1>4, <1>5, <1>6, <1>7 DEF Environment

-----------------------------------------------------------------------------
(* Every step of the specification. *)

RequestStep(r) == Arrive(r) \/ Plugin(r) \/ Upstream(r)

LEMMA RequestSteps ==
  ASSUME TypeOK, NEW r \in Requests, RequestStep(r)
  PROVE  Steps(r) /\ Moves(r) /\ cooldownTable' \in Tables
BY ArriveSteps, QuietSteps, TableSteps DEF RequestStep, Plugin

(* The types are kept: slots stay within the cap because every taker looks *)
(* and every leaver holds one (SlotsConserved).                            *)
LEMMA HoldersFinite ==
  ASSUME NEW a \in Auths
  PROVE  IsFiniteSet(Holders(a))
BY ExecutorAssumption, FS_Subset DEF Holders

LEMMA TypeStep ==
  ASSUME TypeOK, SlotsConserved, [Next]_vars
  PROVE  TypeOK'
<1>1. /\ slots \in [Auths -> 0 .. Cap] /\ req \in [Requests -> RequestStates]
      /\ Cap \in Nat
      /\ \A s \in Requests : req[s].pc \notin {"idle", "done"} => req[s].auth \in Auths
  BY ExecutorAssumption DEF TypeOK
<1>2. ASSUME NEW r \in Requests, RequestStep(r)
      PROVE  TypeOK'
  <2>1. Steps(r) /\ Moves(r) /\ cooldownTable' \in Tables
    BY <1>2, RequestSteps
  <2>2. req' \in [Requests -> RequestStates]
    BY <1>1, <2>1 DEF Steps
  <2>3. \A s \in Requests : req'[s].pc \notin {"idle", "done"} => req'[s].auth \in Auths
    BY <1>1, <2>1 DEF Steps
  <2>4. slots' \in [Auths -> 0 .. Cap]
    <3>1. CASE Stays(r) \/ GivesUp(r)
      BY <1>1, <3>1 DEF Stays, GivesUp
    <3>2. CASE Enters(r)
      BY <1>1, <3>2 DEF Enters
    <3>3. CASE Leaves(r)
      <4>. DEFINE a == req[r].auth
      <4>1. r \in Holders(a) /\ a \in Auths
        BY <3>3 DEF Leaves, Holders
      <4>2. slots[a] # 0
        BY <4>1, HoldersFinite, FS_EmptySet DEF SlotsConserved
      <4>. QED
        BY <1>1, <3>3, <4>1, <4>2 DEF Leaves
    <3>. QED
      BY <2>1, <3>1, <3>2, <3>3 DEF Moves
  <2>. QED
    BY <2>1, <2>2, <2>3, <2>4 DEF Steps, TypeOK
<1>3. CASE Environment
  BY <1>1, <1>3, EnvironmentTypes DEF Environment, TypeOK
<1>4. CASE UNCHANGED vars
  BY <1>4 DEF vars, TypeOK
<1>. QED
  BY <1>2, <1>3, <1>4 DEF Next, RequestStep

(* The holders of a credential's slots change with the request that moves. *)
LEMMA HoldersStep ==
  ASSUME TypeOK, NEW r \in Requests, Steps(r), Moves(r), NEW a \in Auths
  PROVE  \/ slots'[a] = slots[a] /\ Holders(a)' = Holders(a)
         \/ /\ slots'[a] = slots[a] + 1 /\ slots[a] < Cap
            /\ r \notin Holders(a) /\ Holders(a)' = Holders(a) \cup {r}
            /\ req[r].pc \in Before
         \/ /\ slots'[a] = slots[a] - 1
            /\ r \in Holders(a) /\ Holders(a)' = Holders(a) \ {r}
            /\ req'[r].pc \in After
<1>1. /\ slots \in [Auths -> 0 .. Cap] /\ req \in [Requests -> RequestStates]
      /\ \A s \in Requests \ {r} : req'[s] = req[s]
  BY DEF TypeOK, Steps
<1>2. \A s \in Requests \ {r} : s \in Holders(a)' <=> s \in Holders(a)
  BY <1>1 DEF Holders
<1>3. /\ r \in Holders(a)' <=> req'[r].auth = a /\ req'[r].pc \in Inside
      /\ r \in Holders(a) <=> req[r].auth = a /\ req[r].pc \in Inside
      /\ Holders(a) \subseteq Requests /\ Holders(a)' \subseteq Requests
  BY DEF Holders
<1>4. Before \cap Inside = {} /\ After \cap Inside = {}
  BY DEF Before, After, Inside
<1>5. CASE Stays(r)
  BY <1>2, <1>3, <1>4, <1>5 DEF Stays
<1>6. CASE GivesUp(r)
  BY <1>2, <1>3, <1>4, <1>6 DEF GivesUp
<1>7. CASE Enters(r)
  BY <1>1, <1>2, <1>3, <1>4, <1>7 DEF Enters
<1>8. CASE Leaves(r)
  <2>1. r \notin Holders(a)'
    BY <1>3, <1>4, <1>8 DEF Leaves
  <2>2. CASE req[r].auth = a
    <3>1. r \in Holders(a)
      BY <1>3, <1>8, <2>2 DEF Leaves
    <3>2. Holders(a)' = Holders(a) \ {r}
      BY <1>2, <1>3, <2>1
    <3>3. slots'[a] = slots[a] - 1
      BY <1>1, <1>8, <2>2 DEF Leaves
    <3>. QED
      BY <1>8, <3>1, <3>2, <3>3 DEF Leaves
  <2>3. CASE req[r].auth # a
    <3>1. Holders(a)' = Holders(a)
      BY <1>2, <1>3, <2>1, <2>3
    <3>2. slots'[a] = slots[a]
      BY <1>1, <1>8, <2>3 DEF Leaves
    <3>. QED
      BY <3>1, <3>2
  <2>. QED
    BY <2>2, <2>3
<1>. QED
  BY <1>5, <1>6, <1>7, <1>8 DEF Moves

LEMMA SlotsStep ==
  ASSUME TypeOK, SlotsConserved, [Next]_vars
  PROVE  SlotsConserved'
<1>1. ASSUME NEW r \in Requests, RequestStep(r), NEW a \in Auths
      PROVE  slots'[a] = Cardinality(Holders(a)')
  <2>1. slots[a] = Cardinality(Holders(a)) /\ IsFiniteSet(Holders(a))
    BY HoldersFinite DEF SlotsConserved
  <2>2. CASE slots'[a] = slots[a] /\ Holders(a)' = Holders(a)
    BY <2>1, <2>2
  <2>3. CASE /\ slots'[a] = slots[a] + 1
             /\ r \notin Holders(a) /\ Holders(a)' = Holders(a) \cup {r}
    BY <2>1, <2>3, FS_AddElement
  <2>4. CASE /\ slots'[a] = slots[a] - 1
             /\ r \in Holders(a) /\ Holders(a)' = Holders(a) \ {r}
    BY <2>1, <2>4, FS_RemoveElement
  <2>. QED
    BY <1>1, <2>2, <2>3, <2>4, RequestSteps, HoldersStep
<1>2. CASE UNCHANGED <<slots, req>>
  BY <1>2 DEF SlotsConserved, Holders
<1>. QED
  BY <1>1, <1>2 DEF Next, RequestStep, Environment, vars, SlotsConserved

(* The strengthening: the types and the accounting of the slots need each  *)
(* other, since a slot given back must have been taken.                    *)
IInv == TypeOK /\ SlotsConserved

LEMMA InitIInv == Init => IInv
<1> SUFFICES ASSUME Init
             PROVE  IInv
  OBVIOUS
<1>1. /\ cooldownTable = EmptyTable /\ now = 0
      /\ billingRead = [a \in Auths |-> None]
  BY SameKeys DEF Init, CD!Init, CD!EmptyTable, EmptyTable
<1>2. IdleRequest \in RequestStates
  BY DEF IdleRequest, Bare, RequestStates, PCs, Results, ModelNames, AllOutcomes
<1>3. Cap \in Nat
  BY ExecutorAssumption
<1>4. TypeOK
  BY <1>1, <1>2, <1>3
     DEF Init, TypeOK, EmptyTable, Tables, IdleRequest, Bare
<1>5. \A a \in Auths : Holders(a) = {}
  BY DEF Init, Holders, IdleRequest, Bare, Inside
<1>. QED
  BY <1>4, <1>5, FS_EmptySet DEF IInv, Init, SlotsConserved

LEMMA InvariantHolds == Spec => []IInv
<1>1. IInv /\ [Next]_vars => IInv'
  BY TypeStep, SlotsStep DEF IInv
<1>. QED
  BY <1>1, InitIInv, PTL DEF Spec

(* The table, the clock, the billing reads, the semaphores and the         *)
(* requests keep their types; the cap is never exceeded.                   *)
THEOREM Typing == Spec => []TypeOK
<1>1. IInv => TypeOK
  BY DEF IInv
<1>. QED
  BY <1>1, InvariantHolds, PTL

(* Every slot taken is owed back by exactly one request still running      *)
(* (concurrency.go, pumpUpstreamStream).                                   *)
THEOREM SlotsKept == Spec => []SlotsConserved
<1>1. IInv => SlotsConserved
  BY DEF IInv
<1>. QED
  BY <1>1, InvariantHolds, PTL

-----------------------------------------------------------------------------
(* The semaphore implements UpstreamGate. *)

GateHolders == [a \in Auths |-> Holders(a)]
GateLeft == {r \in Requests : req[r].pc \in {"close", "done"}}

LEMMA SameCardinality == \A S : Gate!Cardinality(S) = Cardinality(S)
<1> SUFFICES ASSUME NEW S
             PROVE  Gate!Cardinality(S) = Cardinality(S)
  OBVIOUS
<1>. QED
  BY DEF Gate!Cardinality, Cardinality

LEMMA GateStep ==
  ASSUME IInv, NEW r \in Requests, RequestStep(r)
  PROVE  Gate!Next \/ UNCHANGED <<GateHolders, GateLeft>>
<1>1. Steps(r) /\ Moves(r) /\ TypeOK /\ SlotsConserved
  BY RequestSteps DEF IInv
<1>2. \A a \in Auths :
        \/ slots'[a] = slots[a] /\ Holders(a)' = Holders(a)
        \/ /\ slots'[a] = slots[a] + 1 /\ slots[a] < Cap
           /\ r \notin Holders(a) /\ Holders(a)' = Holders(a) \cup {r}
           /\ req[r].pc \in Before
        \/ /\ slots'[a] = slots[a] - 1
           /\ r \in Holders(a) /\ Holders(a)' = Holders(a) \ {r}
           /\ req'[r].pc \in After
  BY <1>1, HoldersStep
<1>3. /\ slots \in [Auths -> 0 .. Cap]
      /\ \A s \in Requests \ {r} : req'[s] = req[s]
      /\ \A a \in Auths : slots[a] = Cardinality(Holders(a))
  BY <1>1 DEF TypeOK, Steps, SlotsConserved
<1>4. CASE Stays(r)
  <2>1. \A a \in Auths : Holders(a)' = Holders(a)
    BY <1>2, <1>3, <1>4 DEF Stays
  <2>2. GateLeft' = GateLeft
    BY <1>3, <1>4 DEF Stays, GateLeft, Before, After, Inside, PCs
  <2>. QED
    BY <2>1, <2>2 DEF GateHolders
<1>5. CASE GivesUp(r)
  <2>1. \A a \in Auths : Holders(a)' = Holders(a) /\ r \notin Holders(a)
    BY <1>2, <1>3, <1>5 DEF GivesUp, Holders, Before, Inside
  <2>2. GateLeft' = GateLeft \cup {r} /\ r \notin GateLeft
    BY <1>3, <1>5 DEF GivesUp, GateLeft, Before, After
  <2>3. Gate!GiveUp(r)
    BY <2>1, <2>2 DEF Gate!GiveUp, Gate!Outside, GateLeft
  <2>. QED
    BY <2>3 DEF Gate!Next
<1>6. CASE Enters(r)
  <2>0. PICK a \in Auths : a = req[r].auth
    BY <1>6 DEF Enters
  <2>1. slots'[a] = slots[a] + 1 /\ slots[a] < Cap
    BY <1>3, <1>6, <2>0 DEF Enters
  <2>2. Holders(a)' = Holders(a) \cup {r}
    BY <1>2, <1>3, <2>1
  <2>3. \A b \in Auths \ {a} : Holders(b)' = Holders(b)
    BY <1>2, <1>3, <1>6, <2>0 DEF Enters
  <2>4. GateLeft' = GateLeft /\ r \notin GateLeft
    BY <1>3, <1>6 DEF Enters, GateLeft, Before, Inside, PCs
  <2>5. \A b \in Auths : r \notin Holders(b)
    BY <1>6 DEF Enters, Holders, Before, Inside
  <2>6. GateHolders' = [GateHolders EXCEPT ![a] = @ \cup {r}]
    BY <2>0, <2>2, <2>3 DEF GateHolders
  <2>7. Gate!Enter(a, r)
    BY <1>3, <2>0, <2>1, <2>4, <2>5, <2>6, SameCardinality
       DEF Gate!Enter, Gate!Outside, GateHolders, GateLeft
  <2>. QED
    BY <2>0, <2>7 DEF Gate!Next
<1>7. CASE Leaves(r)
  <2>0. PICK a \in Auths : a = req[r].auth
    BY <1>7 DEF Leaves
  <2>1. slots'[a] = slots[a] - 1 /\ r \in Holders(a)
    BY <1>3, <1>7, <2>0 DEF Leaves, Holders
  <2>2. Holders(a)' = Holders(a) \ {r}
    BY <1>2, <1>3, <2>1
  <2>3. \A b \in Auths \ {a} : Holders(b)' = Holders(b)
    BY <1>2, <1>3, <1>7, <2>0 DEF Leaves
  <2>4. GateLeft' = GateLeft \cup {r}
    BY <1>3, <1>7 DEF Leaves, GateLeft, After
  <2>5. GateHolders' = [GateHolders EXCEPT ![a] = @ \ {r}]
    BY <2>0, <2>2, <2>3 DEF GateHolders
  <2>6. Gate!Leave(a, r)
    BY <2>0, <2>1, <2>4, <2>5 DEF Gate!Leave, GateHolders, GateLeft
  <2>. QED
    BY <2>0, <2>6 DEF Gate!Next
<1>. QED
  BY <1>1, <1>4, <1>5, <1>6, <1>7 DEF Moves

(* The counting semaphore, its timer and its release closures implement    *)
(* the gate: at most Cap requests of a credential inside, none waiting for *)
(* another credential, each in and out at most once (concurrency.go).      *)
THEOREM GateImplemented == Spec => GateSpec
<1>1. Init => Gate!Init
  BY DEF Init, Gate!Init, Holders, IdleRequest, Bare, Inside
<1>2. IInv /\ [Next]_vars => [Gate!Next]_(Gate!gateVars)
  <2> SUFFICES ASSUME IInv, [Next]_vars
               PROVE  Gate!Next \/ UNCHANGED <<GateHolders, GateLeft>>
    BY DEF Gate!gateVars, GateHolders, GateLeft
  <2>1. CASE UNCHANGED req
    BY <2>1 DEF GateHolders, GateLeft, Holders
  <2>2. ASSUME NEW r \in Requests, RequestStep(r)
        PROVE  Gate!Next \/ UNCHANGED <<GateHolders, GateLeft>>
    BY <2>2, GateStep
  <2>. QED
    BY <2>1, <2>2 DEF Next, RequestStep, Environment, vars
<1>. QED
  BY <1>1, <1>2, InvariantHolds, PTL DEF Spec, GateSpec, Gate!Spec

-----------------------------------------------------------------------------
(* The retries of a request. *)

(* What the client has got is of the attempt under way; before the first   *)
(* attempt and between two it is nothing.                                  *)
OneSource(q) ==
  /\ \E n \in Nat : q.out \subseteq {n}
  /\ q.pc # "done" => q.out \subseteq {q.attempt}
  /\ q.pc \in {"idle", "waiting", "recheck", "backoff"} => q.out = {}

OneSourceInv == \A r \in Requests : OneSource(req[r])

(* A step of a request keeps it so: a retry follows only an attempt of     *)
(* which nothing has been emitted.                                         *)
LEMMA OneSourceStep ==
  ASSUME TypeOK, NEW r \in Requests, OneSource(req[r]), RequestStep(r)
  PROVE  OneSource(req'[r])
<1>. DEFINE q == req[r]
<1>1. /\ req \in [Requests -> RequestStates] /\ q \in RequestStates
      /\ q.attempt \in Nat /\ q.out \in SUBSET Nat
  BY DEF TypeOK, RequestStates
<1>2. \A result : /\ Finished(q, result).out = q.out
                  /\ Finished(q, result).pc = "done"
  BY DEF Finished, Bare
<1>3. CASE Arrive(r)
  <2>1. q.pc = "idle"
    BY <1>3 DEF Arrive
  <2>2. \E a, m, p : req'[r] \in {NewRequest(a, m, p), Finished(q, "refused")}
    BY <1>1, <1>3 DEF Arrive
  <2>. QED
    BY <1>1, <1>2, <2>1, <2>2 DEF OneSource, NewRequest
<1>4. CASE Recheck(r)
  BY <1>1, <1>2, <1>4 DEF Recheck, OneSource, RequestStates
<1>5. CASE AttemptGuard(r)
  <2>1. /\ req'[r].out = q.out /\ req'[r].attempt = q.attempt
        /\ req'[r].pc \in {"ready", "record", "answer"} /\ q.pc = "attempt"
    BY <1>1, <1>5 DEF AttemptGuard, RequestStates
  <2>. QED
    BY <2>1 DEF OneSource
<1>6. CASE EmitChunk(r)
  BY <1>1, <1>6 DEF EmitChunk, OneSource, RequestStates
<1>7. CASE Answer(r)
  <2>1. /\ req'[r].out = q.out /\ req'[r].attempt = q.attempt
        /\ req'[r].pc \in {"answer", "backoff", "record"} /\ q.pc = "upstream"
        /\ req'[r].pc = "backoff" => MayRetry(r)
    BY <1>1, <1>7 DEF Answer, RequestStates
  <2>. QED
    BY <2>1 DEF OneSource, MayRetry
<1>8. CASE Backoff(r)
  BY <1>1, <1>8 DEF Backoff, OneSource, RequestStates
<1>9. CASE \/ Enter(r) \/ Send(r) \/ Record(r) \/ Hint(r) \/ EmitError(r)
           \/ ReleaseSlot(r)
  <2>1. /\ req'[r].out = q.out /\ req'[r].attempt = q.attempt
        /\ q.pc \notin {"done", "idle"}
        /\ req'[r].pc \in {"idle", "waiting", "recheck", "backoff"}
             => q.pc = "waiting"
    BY <1>1, <1>9
       DEF Enter, Send, Record, Hint, EmitError, ReleaseSlot, RequestStates
  <2>. QED
    BY <2>1 DEF OneSource
<1>10. CASE GateTimeout(r) \/ StreamClose(r) \/ Return(r)
  BY <1>1, <1>2, <1>10 DEF GateTimeout, StreamClose, Return, OneSource
<1>. QED
  BY <1>3, <1>4, <1>5, <1>6, <1>7, <1>8, <1>9, <1>10
     DEF RequestStep, Plugin, Upstream

(* No client is sent chunks of two attempts, on any path, whatever is      *)
(* retried (pumpUpstreamAttempt).                                          *)
THEOREM OneAttempt == Spec => []OneAttemptSeen
<1>1. Init => OneSourceInv
  BY DEF Init, OneSourceInv, OneSource, IdleRequest, Bare
<1>2. IInv /\ OneSourceInv /\ [Next]_vars => OneSourceInv'
  <2> SUFFICES ASSUME IInv, OneSourceInv, [Next]_vars, NEW s \in Requests
               PROVE  OneSource(req'[s])
    BY DEF OneSourceInv
  <2>1. TypeOK /\ OneSource(req[s])
    BY DEF IInv, OneSourceInv
  <2>2. CASE req'[s] = req[s]
    BY <2>1, <2>2
  <2>3. ASSUME NEW r \in Requests, RequestStep(r)
        PROVE  OneSource(req'[s])
    <3>1. s # r => req'[s] = req[s]
      BY <2>1, <2>3, RequestSteps DEF Steps, TypeOK
    <3>. QED
      BY <2>1, <2>2, <2>3, <3>1, OneSourceStep
  <2>. QED
    BY <2>2, <2>3 DEF Next, RequestStep, Environment, vars
<1>3. OneSourceInv => OneAttemptSeen
  <2> SUFFICES ASSUME NEW r \in Requests, OneSource(req[r])
               PROVE  Cardinality(req[r].out) <= 1
    BY DEF OneSourceInv, OneAttemptSeen
  <2>1. PICK n \in Nat : req[r].out \subseteq {n}
    BY DEF OneSource
  <2>2. CASE req[r].out = {}
    BY <2>2, FS_EmptySet
  <2>3. CASE req[r].out = {n}
    <3>1. Cardinality({n}) = 1
      BY FS_Singleton, Zenon
    <3>. QED
      BY <2>3, <3>1
  <2>. QED
    BY <2>1, <2>2, <2>3
<1>. QED
  BY <1>1, <1>2, <1>3, InvariantHolds, PTL DEF Spec

-----------------------------------------------------------------------------
(* Freezes and the guard. *)

(* From table t to table u: what is frozen in u at instant at was frozen   *)
(* in t by the same entry, or the entry was made at that instant.          *)
Origin(t, u, at) ==
  \A k \in Keys : Frozen(u, k, at) =>
    \/ Frozen(t, k, at) /\ u[k] = t[k]
    \/ u[k].updatedAt = at

(* Deletions freeze nothing ...                                            *)
LEMMA DeletionOrigins ==
  ASSUME NEW t \in Tables, NEW a \in Auths, NEW m \in ModelNames, NEW at \in Nat,
         NEW at0 \in Nat
  PROVE  /\ Origin(t, ClearModelCooldown(t, a, m), at)
         /\ Origin(t, ObservePositiveCredits(t, a, at0), at)
         /\ Origin(t, PruneAccount(t, a, at), at)
         /\ Origin(t, PruneGuard(t, a, m, at), at)
<1>1. ASSUME NEW u, \A k \in Keys : u[k] \in {t[k], None}
      PROVE  Origin(t, u, at)
  BY <1>1 DEF Origin, Frozen, Live
<1>2. \A k \in Keys : ClearModelCooldown(t, a, m)[k] \in {t[k], None}
  BY DEF ClearModelCooldown
<1>3. \A k \in Keys : ObservePositiveCredits(t, a, at0)[k] \in {t[k], None}
  BY DEF ObservePositiveCredits, Tables
<1>4. \A k \in Keys : PruneAccount(t, a, at)[k] \in {t[k], None}
  BY DEF PruneAccount
<1>5. \A k \in Keys : PruneGuard(t, a, m, at)[k] \in {t[k], None}
  BY DEF PruneGuard
<1>. QED
  BY <1>1, <1>2, <1>3, <1>4, <1>5

(* What a failure and a quota refusal write: the entries that were there,  *)
(* nothing, and their own.                                                 *)
LEMMA MarkValues ==
  ASSUME NEW t \in Tables, NEW a \in Auths, NEW m \in ModelNames,
         NEW reason \in {"rate_limit", "upstream_error"}, NEW at \in Nat,
         NEW u \in MarkModelCooldown(t, a, m, reason, at), NEW k \in Keys
  PROVE  u[k] \in {t[k], None, FailureEntry(reason, at)}
<1>. DEFINE e == FailureEntry(reason, at)
            s == Sweep(t, at)
<1>1. s \in Tables /\ \A j \in Keys : s[j] \in {t[j], None}
  BY SweepTable
<1>2. <<a, m>> \in Keys
  BY DEF Keys
<1>3. \/ u \in {t, s}
      \/ u = [s EXCEPT ![<<a, m>>] = e]
      \/ \E v \in Keys : u = [s EXCEPT ![v] = None, ![<<a, m>>] = e]
  BY MarkShape DEF Oldest, Present
<1>. HIDE DEF s, e
<1>4. u[k] \in {t[k], None, e}
  BY <1>1, <1>2, <1>3 DEF Tables
<1>. QED
  BY <1>4 DEF e

LEMMA QuotaValues ==
  ASSUME NEW t \in Tables, NEW a \in Auths, NEW m \in ModelNames,
         NEW reason \in QuotaReasons, NEW hint \in Nat, NEW at \in Nat, NEW k \in Keys
  PROVE  RecordQuotaObservation(t, a, m, reason, hint, at)[k]
           \in {t[k], None, QuotaEntry(reason, hint, at)}
<1>. DEFINE e == QuotaEntry(reason, hint, at)
            s == Sweep(t, at)
            u == RecordQuotaObservation(t, a, m, reason, hint, at)
<1>1. s \in Tables /\ \A j \in Keys : s[j] \in {t[j], None}
  BY SweepTable
<1>2. QuotaKey(a, m, reason) \in Keys
  BY DEF QuotaKey, Keys, ModelNames
<1>3. u \in {t, s, [s EXCEPT ![QuotaKey(a, m, reason)] = e]}
  BY DEF RecordQuotaObservation
<1>. HIDE DEF u, s, e
<1>4. u[k] \in {t[k], None, e}
  BY <1>1, <1>2, <1>3 DEF Tables
<1>. QED
  BY <1>4 DEF u, e

(* ... nor do failures and hints, ...                                      *)
LEMMA MarkOrigin ==
  ASSUME NEW t \in Tables, NEW a \in Auths, NEW m \in ModelNames,
         NEW reason \in {"rate_limit", "upstream_error"}, NEW at \in Nat,
         NEW u \in MarkModelCooldown(t, a, m, reason, at)
  PROVE  Origin(t, u, at)
<1>1. FailureEntry(reason, at).reason \notin QuotaReasons
  BY DEF FailureEntry, QuotaReasons, ModelQuotaReasons
<1>2. \A k \in Keys : u[k] \in {t[k], None, FailureEntry(reason, at)}
  BY MarkValues
<1>. QED
  BY <1>1, <1>2 DEF Origin, Frozen, Live

LEMMA HintOrigin ==
  ASSUME NEW t \in Tables, NEW a \in Auths, NEW m \in ModelNames,
         NEW hint \in Nat, NEW at \in Nat
  PROVE  Origin(t, RecordCooldownHint(t, a, m, hint, at), at)
<1>. DEFINE k == <<a, m>>
            u == RecordCooldownHint(t, a, m, hint, at)
<1>1. k \in Keys
  BY DEF Keys
<1>2. CASE u = t
  BY <1>2 DEF Origin
<1>3. CASE /\ hint > at /\ t[k] # None /\ t[k].reason = "rate_limit"
           /\ u = [t EXCEPT ![k].until = hint, ![k].hint = hint]
  <2>1. t[k] \in Entries
    BY <1>1, <1>3 DEF Tables
  <2>2. u[k].reason = "rate_limit"
    BY <1>1, <1>3, <2>1 DEF Tables, Entries
  <2>3. \A j \in Keys \ {k} : u[j] = t[j]
    BY <1>1, <1>3 DEF Tables
  <2>4. "rate_limit" \notin QuotaReasons
    BY DEF QuotaReasons, ModelQuotaReasons
  <2>. HIDE DEF u
  <2>. QED
    BY <2>2, <2>3, <2>4 DEF Origin, Frozen, Live, u
<1>. QED
  BY <1>2, <1>3 DEF RecordCooldownHint

(* ... and a quota refusal freezes from the instant it is recorded.        *)
LEMMA QuotaOrigin ==
  ASSUME NEW t \in Tables, NEW a \in Auths, NEW m \in ModelNames,
         NEW reason \in QuotaReasons, NEW hint \in Nat, NEW at \in Nat
  PROVE  Origin(t, RecordQuotaObservation(t, a, m, reason, hint, at), at)
<1>. DEFINE u == RecordQuotaObservation(t, a, m, reason, hint, at)
<1>1. QuotaEntry(reason, hint, at).updatedAt = at
  BY DEF QuotaEntry
<1>2. \A k \in Keys : u[k] \in {t[k], None, QuotaEntry(reason, hint, at)}
  BY QuotaValues
<1>. HIDE DEF u
<1>3. Origin(t, u, at)
  BY <1>1, <1>2 DEF Origin, Frozen, Live
<1>. QED
  BY <1>3 DEF u

(* What a step of a request makes of the table. *)
LEMMA StepOrigin ==
  ASSUME TypeOK, NEW r \in Requests, RequestStep(r)
  PROVE  Origin(cooldownTable, cooldownTable', now)
<1>. DEFINE q == req[r]
<1>1. /\ q \in RequestStates /\ cooldownTable \in Tables /\ now \in Nat
      /\ q.pc \notin {"idle", "done"} => q.auth \in Auths
      /\ q.hint \in Nat /\ q.model \in ModelNames
  BY DEF TypeOK, RequestStates
<1>2. CASE Arrive(r)
  BY <1>1, <1>2, DeletionOrigins DEF Arrive
<1>3. CASE Recheck(r) \/ AttemptGuard(r)
  <2>1. q.auth \in Auths
    BY <1>1, <1>3 DEF Recheck, AttemptGuard
  <2>2. cooldownTable' = PruneGuard(cooldownTable, q.auth, q.model, now)
    BY <1>3 DEF Recheck, AttemptGuard, Guarded
  <2>. QED
    BY <1>1, <2>1, <2>2, DeletionOrigins
<1>4. CASE Record(r)
  <2>1. q.auth \in Auths
    BY <1>1, <1>4 DEF Record
  <2>2. \/ /\ q.outcome \in QuotaReasons
           /\ cooldownTable' = RecordQuotaObservation(cooldownTable,
                                 q.auth, q.model, q.outcome, q.hint, now)
        \/ \E reason \in {"rate_limit", "upstream_error"} :
             cooldownTable' \in MarkModelCooldown(cooldownTable, q.auth,
                                                  q.model, reason, now)
    BY <1>4 DEF Record
  <2>. QED
    BY <1>1, <2>1, <2>2, MarkOrigin, QuotaOrigin
<1>5. CASE Hint(r)
  BY <1>1, <1>5, HintOrigin DEF Hint
<1>6. CASE UNCHANGED cooldownTable
  BY <1>6 DEF Origin
<1>. QED
  BY <1>2, <1>3, <1>4, <1>5, <1>6
     DEF RequestStep, Plugin, Upstream, Enter, GateTimeout, Send, Backoff,
         EmitError, ReleaseSlot, StreamClose, Return, EmitChunk, Answer,
         cooldownVars

(* What goes on beside the requests freezes nothing. *)
LEMMA EnvironmentOrigin ==
  ASSUME TypeOK, Environment
  PROVE  \A k \in Keys : Frozen(cooldownTable', k, now') =>
           Frozen(cooldownTable, k, now) /\ cooldownTable'[k] = cooldownTable[k]
<1>1. cooldownTable \in Tables /\ now \in Nat /\ Shared \in ModelNames
  BY DEF TypeOK, ModelNames
<1>2. CASE CD!Tick
  <2>1. now' = now + 1 /\ cooldownTable' = cooldownTable
    BY <1>2 DEF CD!Tick
  <2>2. \A k \in Keys : cooldownTable[k] \in Entries \cup {None}
    BY <1>1 DEF Tables
  <2>3. \A k \in Keys : Frozen(cooldownTable, k, now + 1) =>
                          Frozen(cooldownTable, k, now)
    BY <1>1, <2>2 DEF Frozen, Live, Entries
  <2>. QED
    BY <2>1, <2>3
<1>3. CASE /\ now' = now
           /\ \A k \in Keys : cooldownTable'[k] \in {cooldownTable[k], None}
  BY <1>3 DEF Frozen, Live
<1>4. ASSUME NEW a \in Auths, CD!BillingStart(a) \/ CD!BillingOther(a)
      PROVE  now' = now /\ cooldownTable' = cooldownTable
  BY <1>4 DEF CD!BillingStart, CD!BillingOther
<1>5. ASSUME NEW a \in Auths, CD!BillingPositive(a)
      PROVE  /\ now' = now
             /\ \A k \in Keys : cooldownTable'[k] \in {cooldownTable[k], None}
  BY <1>1, <1>5 DEF CD!BillingPositive, CD!ObservePositiveCredits, Tables
<1>6. ASSUME NEW a \in Auths, CD!ListModels(a)
      PROVE  /\ now' = now
             /\ \A k \in Keys : cooldownTable'[k] \in {cooldownTable[k], None}
  BY <1>6, SameKeys DEF CD!ListModels, CD!PruneAccount
<1>7. ASSUME NEW a \in Auths, NEW m \in ModelNames, CD!Clear(a, m)
      PROVE  /\ now' = now
             /\ \A k \in Keys : cooldownTable'[k] \in {cooldownTable[k], None}
  BY <1>7, SameKeys DEF CD!Clear, CD!ClearModelCooldown
<1>. QED
  BY <1>2, <1>3, <1>4, <1>5, <1>6, <1>7 DEF Environment

(* A request on its way upstream was let through before what is frozen now *)
(* was recorded.                                                           *)
Cleared(q) ==
  /\ q.clearedAt <= now
  /\ q.pc \in {"ready", "upstream"} =>
       \A k \in GuardKeys(q.auth, q.model) :
         Frozen(cooldownTable, k, now) =>
           q.clearedAt <= cooldownTable[k].updatedAt

ClearedInv == \A r \in Requests : Cleared(req[r])

(* Who gets to be on the way upstream in a step: whoever was, or whoever   *)
(* the guard has just let through.                                         *)
LEMMA OnTheWay ==
  ASSUME TypeOK, NEW r \in Requests, RequestStep(r)
  PROVE  /\ req'[r].clearedAt \in {req[r].clearedAt, now, 0}
         /\ req'[r].pc \in {"ready", "upstream"} =>
              /\ req[r].auth \in Auths /\ req[r].model \in ModelNames
              /\ req'[r].auth = req[r].auth /\ req'[r].model = req[r].model
              /\ \/ /\ req[r].pc \in {"ready", "upstream"}
                    /\ req'[r].clearedAt = req[r].clearedAt
                 \/ RefusalOf(r) = None /\ req'[r].clearedAt = now
<1>. DEFINE q == req[r]
<1>1. /\ req \in [Requests -> RequestStates] /\ q \in RequestStates
      /\ q.pc \notin {"idle", "done"} => q.auth \in Auths
      /\ q.model \in ModelNames
  BY DEF TypeOK, RequestStates
<1>2. \A result : /\ Finished(q, result).pc = "done"
                  /\ Finished(q, result).clearedAt = 0
  BY DEF Finished, Bare
<1>3. CASE Arrive(r)
  <2>1. \E a, m, p : req'[r] \in {NewRequest(a, m, p), Finished(q, "refused")}
    BY <1>1, <1>3 DEF Arrive
  <2>. QED
    BY <1>2, <2>1 DEF NewRequest
<1>4. CASE Recheck(r)
  BY <1>1, <1>2, <1>4 DEF Recheck, RequestStates
<1>5. CASE AttemptGuard(r)
  <2>1. q.auth \in Auths
    BY <1>1, <1>5 DEF AttemptGuard
  <2>2. CASE RefusalOf(r) = None
    BY <1>1, <1>5, <2>1, <2>2 DEF AttemptGuard, RequestStates
  <2>3. CASE RefusalOf(r) # None
    <3>1. req'[r].clearedAt = q.clearedAt /\ req'[r].pc \in {"record", "answer"}
      BY <1>1, <1>5, <2>3 DEF AttemptGuard, RequestStates
    <3>. QED
      BY <3>1
  <2>. QED
    BY <2>2, <2>3
<1>6. CASE Send(r) \/ EmitChunk(r)
  BY <1>1, <1>6 DEF Send, EmitChunk, RequestStates
<1>7. CASE Answer(r)
  <2>1. /\ req'[r].clearedAt = q.clearedAt
        /\ req'[r].pc \in {"answer", "backoff", "record"}
    BY <1>1, <1>7 DEF Answer, RequestStates
  <2>. QED
    BY <2>1
<1>8. CASE \/ Enter(r) \/ Backoff(r) \/ Record(r) \/ Hint(r) \/ EmitError(r)
           \/ ReleaseSlot(r)
  <2>1. /\ req'[r].clearedAt = q.clearedAt
        /\ req'[r].pc \notin {"ready", "upstream"}
    BY <1>1, <1>8
       DEF Enter, Backoff, Record, Hint, EmitError, ReleaseSlot, RequestStates
  <2>. QED
    BY <2>1
<1>9. CASE GateTimeout(r) \/ StreamClose(r) \/ Return(r)
  BY <1>1, <1>2, <1>9 DEF GateTimeout, StreamClose, Return
<1>. QED
  BY <1>3, <1>4, <1>5, <1>6, <1>7, <1>8, <1>9
     DEF RequestStep, Plugin, Upstream

(* A freeze that holds for a pair the guard has let through at this        *)
(* instant is of this instant, and older ones leave what was let through   *)
(* before them where it was.                                               *)
LEMMA ClearedStep ==
  ASSUME TypeOK, ClearedInv, NEW r \in Requests, RequestStep(r),
         NEW s \in Requests
  PROVE  Cleared(req[s])'
<1>1. /\ Steps(r) /\ now \in Nat
      /\ Origin(cooldownTable, cooldownTable', now)
      /\ req \in [Requests -> RequestStates]
  BY RequestSteps, StepOrigin DEF TypeOK
<1>2. now' = now
  BY <1>1 DEF Steps
<1>3. /\ req[s].clearedAt \in Nat /\ req[s].clearedAt <= now
      /\ req[s].pc \in {"ready", "upstream"} =>
           \A k \in GuardKeys(req[s].auth, req[s].model) :
             Frozen(cooldownTable, k, now) =>
               req[s].clearedAt <= cooldownTable[k].updatedAt
  BY <1>1 DEF ClearedInv, Cleared, RequestStates
<1>4. req[s].pc \in {"ready", "upstream"} =>
        GuardKeys(req[s].auth, req[s].model) \subseteq Keys
  BY <1>1 DEF TypeOK, RequestStates, GuardKeys, Keys, ModelNames
<1>5. CASE s # r
  <2>1. req'[s] = req[s]
    BY <1>1, <1>5 DEF Steps
  <2>. QED
    BY <1>1, <1>2, <1>3, <1>4, <2>1 DEF Origin, Cleared
<1>6. CASE s = r
  <2>1. req'[s].clearedAt <= now
    BY <1>1, <1>3, <1>6, OnTheWay
  <2>2. ASSUME req'[s].pc \in {"ready", "upstream"},
               NEW k \in GuardKeys(req'[s].auth, req'[s].model),
               Frozen(cooldownTable', k, now)
        PROVE  req'[s].clearedAt <= cooldownTable'[k].updatedAt
    <3>1. /\ req[s].auth \in Auths /\ req[s].model \in ModelNames
          /\ req'[s].auth = req[s].auth /\ req'[s].model = req[s].model
          /\ \/ /\ req[s].pc \in {"ready", "upstream"}
                /\ req'[s].clearedAt = req[s].clearedAt
             \/ RefusalOf(s) = None /\ req'[s].clearedAt = now
      BY <1>6, <2>2, OnTheWay
    <3>2. k \in GuardKeys(req[s].auth, req[s].model) /\ k \in Keys
      BY <2>2, <3>1 DEF GuardKeys, Keys, ModelNames
    <3>3. CASE cooldownTable'[k].updatedAt = now
      BY <2>1, <3>3
    <3>4. CASE /\ Frozen(cooldownTable, k, now)
               /\ cooldownTable'[k] = cooldownTable[k]
      <4>1. RefusalOf(s) # None
        BY <3>2, <3>4, NoneAssumption
           DEF RefusalOf, Refusal, GuardKeys, Frozen, Live
      <4>. QED
        BY <1>3, <3>1, <3>2, <3>4, <4>1
    <3>. QED
      BY <1>1, <2>2, <3>2, <3>3, <3>4 DEF Origin
  <2>. QED
    BY <1>2, <2>1, <2>2 DEF Cleared
<1>. QED
  BY <1>5, <1>6

(* Neither the wait for a slot nor a backoff carries a request past a      *)
(* freeze recorded meanwhile (dailyQuotaCooldownError).                    *)
THEOREM ClearedFirst == Spec => []ClearedBeforeFreeze
<1>1. Init => ClearedInv
  BY DEF Init, CD!Init, ClearedInv, Cleared, IdleRequest, Bare
<1>2. IInv /\ ClearedInv /\ [Next]_vars => ClearedInv'
  <2> SUFFICES ASSUME IInv, ClearedInv, [Next]_vars, NEW s \in Requests
               PROVE  Cleared(req[s])'
    BY DEF ClearedInv
  <2>1. TypeOK /\ Cleared(req[s])
    BY DEF IInv, ClearedInv
  <2>2. /\ now \in Nat /\ req[s].clearedAt \in Nat
        /\ req[s].pc \in {"ready", "upstream"} =>
             GuardKeys(req[s].auth, req[s].model) \subseteq Keys
    BY <2>1 DEF TypeOK, RequestStates, GuardKeys, Keys, ModelNames
  <2>3. CASE Environment
    <3>1. req' = req /\ now' >= now
      BY <2>2, <2>3
         DEF Environment, CD!Tick, CD!BillingStart, CD!BillingPositive,
             CD!BillingOther, CD!ListModels, CD!Clear
    <3>2. \A k \in Keys : Frozen(cooldownTable', k, now') =>
            Frozen(cooldownTable, k, now) /\ cooldownTable'[k] = cooldownTable[k]
      BY <2>1, <2>3, EnvironmentOrigin
    <3>3. now' \in Nat
      BY <2>1, <2>3, EnvironmentTypes
    <3>. QED
      BY <2>1, <2>2, <3>1, <3>2, <3>3 DEF Cleared
  <2>4. CASE UNCHANGED vars
    BY <2>1, <2>4 DEF vars, Cleared
  <2>. QED
    BY <2>1, <2>3, <2>4, ClearedStep DEF Next, RequestStep
<1>3. ClearedInv => ClearedBeforeFreeze
  BY DEF ClearedInv, Cleared, ClearedBeforeFreeze
<1>. QED
  BY <1>1, <1>2, <1>3, InvariantHolds, PTL DEF Spec
-----------------------------------------------------------------------------
(* Where freezes come from. *)

(* What is upstream, or back to be recorded, has been sent in this         *)
(* attempt; only the synchronous collector records what its guard said.    *)
Asked(q) ==
  /\ q.pc = "upstream" => q.sent = q.attempt
  /\ q.pc = "record" => q.sent = q.attempt \/ q.path = "sync"

AskedInv == \A r \in Requests : Asked(req[r])

LEMMA AskedStep ==
  ASSUME TypeOK, NEW r \in Requests, Asked(req[r]), RequestStep(r)
  PROVE  Asked(req'[r])
<1>. DEFINE q == req[r]
<1>1. req \in [Requests -> RequestStates] /\ q \in RequestStates
  BY DEF TypeOK
<1>2. CASE Send(r) \/ EmitChunk(r)
  BY <1>1, <1>2 DEF Send, EmitChunk, Asked, RequestStates
<1>3. CASE AttemptGuard(r)
  <2>1. /\ req'[r].pc \in {"ready", "record", "answer"} /\ req'[r].path = q.path
        /\ req'[r].pc = "record" => q.path = "sync"
    <3>1. CASE RefusalOf(r) = None
      BY <1>1, <1>3, <3>1 DEF AttemptGuard, RequestStates
    <3>2. CASE RefusalOf(r) # None /\ q.path = "sync"
      BY <1>1, <1>3, <3>2 DEF AttemptGuard, RequestStates
    <3>3. CASE RefusalOf(r) # None /\ q.path # "sync"
      BY <1>1, <1>3, <3>3 DEF AttemptGuard, RequestStates
    <3>. QED
      BY <3>1, <3>2, <3>3
  <2>. QED
    BY <2>1 DEF Asked
<1>4. CASE Answer(r)
  <2>1. /\ req'[r].sent = q.sent /\ req'[r].attempt = q.attempt
        /\ q.pc = "upstream" /\ req'[r].pc \in {"answer", "backoff", "record"}
    BY <1>1, <1>4 DEF Answer, RequestStates
  <2>. QED
    BY <2>1 DEF Asked
<1>5. CASE \/ Arrive(r) \/ Enter(r) \/ GateTimeout(r) \/ Recheck(r) \/ Backoff(r)
           \/ Record(r) \/ Hint(r) \/ EmitError(r) \/ ReleaseSlot(r)
           \/ StreamClose(r) \/ Return(r)
  <2>1. \A result : Finished(q, result).pc = "done"
    BY DEF Finished, Bare
  <2>2. CASE Arrive(r)
    <3>1. \E a, m, p : req'[r] \in {NewRequest(a, m, p), Finished(q, "refused")}
      BY <1>1, <2>2 DEF Arrive
    <3>2. req'[r].pc \in {"waiting", "done"}
      BY <2>1, <3>1 DEF NewRequest
    <3>. QED
      BY <3>2 DEF Asked
  <2>3. CASE ~Arrive(r)
    <3>1. req'[r].pc \notin {"upstream", "record"}
      BY <1>1, <1>5, <2>1, <2>3
         DEF Enter, GateTimeout, Recheck, Backoff, Record, Hint, EmitError,
             ReleaseSlot, StreamClose, Return, RequestStates
    <3>. QED
      BY <3>1 DEF Asked
  <2>. QED
    BY <2>2, <2>3
<1>. QED
  BY <1>2, <1>3, <1>4, <1>5 DEF RequestStep, Plugin, Upstream

(* Only a recording makes an entry where there was none. *)
LEMMA OnlyRecordFreezes ==
  ASSUME TypeOK, [Next]_vars, NEW k \in Keys,
         cooldownTable[k] = None, cooldownTable'[k] # None
  PROVE  \E r \in Requests : Record(r)
<1>. SUFFICES ASSUME \A r \in Requests : ~Record(r) PROVE FALSE
  OBVIOUS
<1>1. cooldownTable \in Tables /\ now \in Nat /\ Shared \in ModelNames
  BY DEF TypeOK, ModelNames
<1>2. ASSUME NEW r \in Requests, RequestStep(r) PROVE cooldownTable'[k] = None
  <2>. DEFINE q == req[r]
  <2>1. CASE Arrive(r) \/ Recheck(r) \/ AttemptGuard(r)
    <3>1. \E a, m : cooldownTable' = PruneGuard(cooldownTable, a, m, now)
      BY <2>1 DEF Arrive, Recheck, AttemptGuard, Guarded
    <3>. QED
      BY <3>1 DEF PruneGuard
  <2>2. CASE Hint(r)
    <3>1. q.auth \in Auths /\ q.model \in ModelNames
      BY <2>2 DEF Hint, TypeOK, RequestStates
    <3>2. <<q.auth, q.model>> \in Keys
      BY <3>1 DEF Keys
    <3>. QED
      BY <1>1, <2>2, <3>2 DEF Hint, RecordCooldownHint, Tables
  <2>3. CASE UNCHANGED cooldownTable
    BY <2>3
  <2>. QED
    BY <1>2, <2>1, <2>2, <2>3
       DEF RequestStep, Plugin, Upstream, Enter, GateTimeout, Send, Backoff,
           EmitError, ReleaseSlot, StreamClose, Return, EmitChunk, Answer,
           cooldownVars
<1>3. CASE Environment
  <2>1. \A a \in Auths : CD!BillingPositive(a) => cooldownTable'[k] \in {cooldownTable[k], None}
    BY <1>1 DEF CD!BillingPositive, CD!ObservePositiveCredits, Tables
  <2>2. \A a \in Auths : CD!ListModels(a) => cooldownTable'[k] \in {cooldownTable[k], None}
    BY SameKeys DEF CD!ListModels, CD!PruneAccount
  <2>3. \A a \in Auths, m \in ModelNames : CD!Clear(a, m) =>
          cooldownTable'[k] \in {cooldownTable[k], None}
    BY SameKeys DEF CD!Clear, CD!ClearModelCooldown
  <2>. QED
    BY <1>3, <2>1, <2>2, <2>3 DEF Environment, CD!Tick, CD!BillingStart, CD!BillingOther
<1>. QED
  BY <1>2, <1>3 DEF Next, RequestStep, vars

(* A pair or an account is only frozen on the word of upstream, given in   *)
(* this attempt; the synchronous path may repeat what its guard read.      *)
THEOREM FreezeIsEarned == Spec => FreezeNeedsEvidence
<1>1. Init => AskedInv
  BY DEF Init, AskedInv, Asked, IdleRequest, Bare
<1>2. IInv /\ AskedInv /\ [Next]_vars => AskedInv'
  <2> SUFFICES ASSUME IInv, AskedInv, [Next]_vars, NEW s \in Requests
               PROVE  Asked(req'[s])
    BY DEF AskedInv
  <2>1. TypeOK /\ Asked(req[s])
    BY DEF IInv, AskedInv
  <2>2. CASE req'[s] = req[s]
    BY <2>1, <2>2
  <2>3. ASSUME NEW r \in Requests, RequestStep(r)
        PROVE  Asked(req'[s])
    <3>1. s # r => req'[s] = req[s]
      BY <2>1, <2>3, RequestSteps DEF Steps, TypeOK
    <3>. QED
      BY <2>1, <2>2, <2>3, <3>1, AskedStep
  <2>. QED
    BY <2>2, <2>3 DEF Next, RequestStep, Environment, vars
<1>3. IInv /\ AskedInv /\ [Next]_vars => EvidenceStep
  <2> SUFFICES ASSUME IInv, AskedInv, [Next]_vars, NEW k \in Keys,
                      cooldownTable[k] = None, cooldownTable'[k] # None
               PROVE  \E r \in Requests :
                        /\ req[r].pc = "record" /\ req'[r].pc # "record"
                        /\ req[r].sent = req[r].attempt \/ req[r].path = "sync"
    BY DEF EvidenceStep
  <2>1. PICK r \in Requests : Record(r)
    BY OnlyRecordFreezes DEF IInv
  <2>2. req \in [Requests -> RequestStates] /\ req[r] \in RequestStates
    BY DEF IInv, TypeOK
  <2>3. req[r].pc = "record" /\ req'[r].pc # "record"
    BY <2>1, <2>2 DEF Record, RequestStates
  <2>. QED
    BY <2>3 DEF AskedInv, Asked
<1>. QED
  BY <1>1, <1>2, <1>3, InvariantHolds, PTL DEF Spec, FreezeNeedsEvidence
-----------------------------------------------------------------------------
(* The requests implement Cooldown: what they do to the table is what its  *)
(* callers may.                                                            *)

(* The hints in the table and in the requests are upstream's.              *)
HintsFromUpstream(t) == \A k \in Keys : t[k] # None => t[k].hint \in Hints

HintsInv ==
  /\ HintsFromUpstream(cooldownTable)
  /\ \A r \in Requests : req[r].hint \in Hints

LEMMA HintedTables ==
  ASSUME NEW t \in Tables, HintsFromUpstream(t), NEW a \in Auths, NEW m \in ModelNames,
         NEW hint \in Hints, NEW at \in Nat
  PROVE  /\ \A reason \in {"rate_limit", "upstream_error"} :
              \A u \in MarkModelCooldown(t, a, m, reason, at) : HintsFromUpstream(u)
         /\ \A reason \in QuotaReasons :
              HintsFromUpstream(RecordQuotaObservation(t, a, m, reason, hint, at))
         /\ HintsFromUpstream(RecordCooldownHint(t, a, m, hint, at))
<1>1. hint \in Nat /\ 0 \in Hints
  BY ExecutorAssumption
<1>2. ASSUME NEW reason \in {"rate_limit", "upstream_error"},
             NEW u \in MarkModelCooldown(t, a, m, reason, at)
      PROVE  HintsFromUpstream(u)
  <2>1. FailureEntry(reason, at).hint = 0
    BY DEF FailureEntry
  <2>2. \A k \in Keys : u[k] \in {t[k], None, FailureEntry(reason, at)}
    BY MarkValues
  <2>. QED
    BY <1>1, <2>1, <2>2 DEF HintsFromUpstream
<1>3. ASSUME NEW reason \in QuotaReasons
      PROVE  HintsFromUpstream(RecordQuotaObservation(t, a, m, reason, hint, at))
  <2>1. QuotaEntry(reason, hint, at).hint = hint
    BY DEF QuotaEntry
  <2>2. \A k \in Keys : RecordQuotaObservation(t, a, m, reason, hint, at)[k]
                          \in {t[k], None, QuotaEntry(reason, hint, at)}
    BY <1>1, QuotaValues
  <2>. QED
    BY <2>1, <2>2 DEF HintsFromUpstream
<1>4. HintsFromUpstream(RecordCooldownHint(t, a, m, hint, at))
  <2>1. <<a, m>> \in Keys /\ (t[<<a, m>>] # None => t[<<a, m>>] \in Entries)
    BY DEF Keys, Tables
  <2>. QED
    BY <2>1 DEF RecordCooldownHint, HintsFromUpstream, Tables, Entries
<1>. QED
  BY <1>2, <1>3, <1>4

(* What only deletes keeps the hints. *)
LEMMA KeptHints ==
  ASSUME NEW t, NEW u, HintsFromUpstream(t), \A k \in Keys : u[k] \in {t[k], None}
  PROVE  HintsFromUpstream(u)
BY DEF HintsFromUpstream

LEMMA HintsStep ==
  ASSUME TypeOK, HintsInv, [Next]_vars PROVE HintsInv'
<1>1. cooldownTable \in Tables /\ now \in Nat /\ Shared \in ModelNames /\ 0 \in Hints
      /\ req \in [Requests -> RequestStates]
  BY ExecutorAssumption DEF TypeOK, ModelNames
<1>2. ASSUME NEW r \in Requests, RequestStep(r) PROVE HintsInv'
  <2>. DEFINE q == req[r]
  <2>1. /\ q \in RequestStates /\ q.hint \in Hints /\ q.model \in ModelNames
        /\ q.pc \notin {"idle", "done"} => q.auth \in Auths
        /\ \A result : Finished(q, result).hint = 0
    BY <1>1 DEF HintsInv, TypeOK, RequestStates, Finished, Bare
  <2>2. HintsFromUpstream(cooldownTable')
    <3>1. CASE Arrive(r) \/ Recheck(r) \/ AttemptGuard(r)
      <4>1. \E a, m : cooldownTable' = PruneGuard(cooldownTable, a, m, now)
        BY <3>1 DEF Arrive, Recheck, AttemptGuard, Guarded
      <4>2. \A k \in Keys : cooldownTable'[k] \in {cooldownTable[k], None}
        BY <4>1 DEF PruneGuard
      <4>. QED
        BY <4>2, KeptHints DEF HintsInv
    <3>2. CASE Record(r)
      <4>1. q.auth \in Auths
        BY <2>1, <3>2 DEF Record
      <4>2. \/ /\ q.outcome \in QuotaReasons
               /\ cooldownTable' = RecordQuotaObservation(cooldownTable,
                                     q.auth, q.model, q.outcome, q.hint, now)
            \/ \E reason \in {"rate_limit", "upstream_error"} :
                 cooldownTable' \in MarkModelCooldown(cooldownTable, q.auth,
                                                      q.model, reason, now)
        BY <3>2 DEF Record
      <4>. QED
        BY <1>1, <2>1, <4>1, <4>2, HintedTables DEF HintsInv
    <3>3. CASE Hint(r)
      <4>1. q.auth \in Auths
        BY <2>1, <3>3 DEF Hint
      <4>. QED
        BY <1>1, <2>1, <3>3, <4>1, HintedTables DEF Hint, HintsInv
    <3>4. CASE UNCHANGED cooldownTable
      BY <3>4 DEF HintsInv
    <3>. QED
      BY <1>2, <3>1, <3>2, <3>3, <3>4
         DEF RequestStep, Plugin, Upstream, Enter, GateTimeout, Send, Backoff,
             EmitError, ReleaseSlot, StreamClose, Return, EmitChunk, Answer,
             cooldownVars
  <2>3. req'[r].hint \in Hints
    <3>1. CASE Arrive(r)
      <4>1. \E a, m, p : req'[r] \in {NewRequest(a, m, p), Finished(q, "refused")}
        BY <1>1, <3>1 DEF Arrive
      <4>. QED
        BY <1>1, <2>1, <4>1 DEF NewRequest
    <3>2. CASE AttemptGuard(r)
      <4>1. q.auth \in Auths
        BY <2>1, <3>2 DEF AttemptGuard
      <4>2. CASE RefusalOf(r) = None
        BY <1>1, <2>1, <3>2, <4>2 DEF AttemptGuard, RequestStates
      <4>3. CASE RefusalOf(r) # None
        <5>1. <<q.auth, Shared>> \in Keys /\ <<q.auth, q.model>> \in Keys
          BY <2>1, <4>1 DEF Keys, ModelNames
        <5>2. RefusalOf(r).hint \in Hints
          BY <4>3, <5>1 DEF RefusalOf, Refusal, HintsInv, HintsFromUpstream
        <5>3. CASE q.path = "sync"
          BY <1>1, <2>1, <3>2, <4>3, <5>2, <5>3 DEF AttemptGuard, RequestStates
        <5>4. CASE q.path # "sync"
          BY <1>1, <2>1, <3>2, <4>3, <5>4 DEF AttemptGuard, RequestStates
        <5>. QED
          BY <5>3, <5>4
      <4>. QED
        BY <4>2, <4>3
    <3>3. CASE Answer(r)
      BY <1>1, <2>1, <3>3 DEF Answer, RequestStates
    <3>4. CASE GateTimeout(r) \/ Recheck(r) \/ StreamClose(r) \/ Return(r)
      BY <1>1, <2>1, <3>4 DEF GateTimeout, Recheck, StreamClose, Return, RequestStates
    <3>5. CASE \/ Enter(r) \/ Send(r) \/ EmitChunk(r) \/ Backoff(r) \/ Record(r)
               \/ Hint(r) \/ EmitError(r) \/ ReleaseSlot(r)
      <4>1. req'[r].hint = q.hint
        BY <1>1, <2>1, <3>5
           DEF Enter, Send, EmitChunk, Backoff, Record, Hint, EmitError,
               ReleaseSlot, RequestStates
      <4>. QED
        BY <2>1, <4>1
    <3>. QED
      BY <1>2, <3>1, <3>2, <3>3, <3>4, <3>5 DEF RequestStep, Plugin, Upstream
  <2>4. \A s \in Requests \ {r} : req'[s] = req[s]
    BY <1>1, <1>2, RequestSteps DEF Steps
  <2>. QED
    BY <2>2, <2>3, <2>4 DEF HintsInv
<1>3. CASE Environment
  <2>1. req' = req
    BY <1>3 DEF Environment
  <2>2. \A k \in Keys : cooldownTable'[k] \in {cooldownTable[k], None}
    <3>1. \A a \in Auths : CD!BillingPositive(a) =>
            \A k \in Keys : cooldownTable'[k] \in {cooldownTable[k], None}
      BY <1>1 DEF CD!BillingPositive, CD!ObservePositiveCredits, Tables
    <3>2. \A a \in Auths : CD!ListModels(a) =>
            \A k \in Keys : cooldownTable'[k] \in {cooldownTable[k], None}
      BY SameKeys DEF CD!ListModels, CD!PruneAccount
    <3>3. \A a \in Auths, m \in ModelNames : CD!Clear(a, m) =>
            \A k \in Keys : cooldownTable'[k] \in {cooldownTable[k], None}
      BY SameKeys DEF CD!Clear, CD!ClearModelCooldown
    <3>. QED
      BY <1>3, <3>1, <3>2, <3>3 DEF Environment, CD!Tick, CD!BillingStart, CD!BillingOther
  <2>. QED
    BY <2>1, <2>2, KeptHints DEF HintsInv
<1>4. CASE UNCHANGED vars
  BY <1>4 DEF vars, HintsInv
<1>. QED
  BY <1>2, <1>3, <1>4 DEF Next, RequestStep

(* Cooldown's operators, instantiated, are those of this module.           *)
LEMMA SameGuard ==
  \A t, a, m, at : CD!PruneGuard(t, a, m, at) = PruneGuard(t, a, m, at)
BY SameKeys
   DEF CD!PruneGuard, PruneGuard, CD!GuardKeys, GuardKeys, CD!Frozen, Frozen,
       CD!Live, Live, CD!QuotaReasons, QuotaReasons, CD!ModelQuotaReasons, ModelQuotaReasons

LEMMA SameHint ==
  \A t, a, m, hint, at :
    CD!RecordCooldownHint(t, a, m, hint, at) = RecordCooldownHint(t, a, m, hint, at)
BY DEF CD!RecordCooldownHint, RecordCooldownHint

LEMMA SameSweep ==
  /\ \A t, at : CD!Sweep(t, at) = Sweep(t, at)
  /\ \A t : CD!Full(t) <=> Full(t)
  /\ \A t : CD!Present(t) = Present(t)
  /\ CD!QuotaReasons = QuotaReasons
<1>1. \A S : CD!Cardinality(S) = Cardinality(S)
  BY DEF CD!Cardinality, Cardinality
<1>2. \A t : CD!Present(t) = Present(t)
  BY SameKeys DEF CD!Present, Present
<1>3. \A t : CD!Full(t) <=> Full(t)
  BY <1>1, <1>2 DEF CD!Full, Full
<1>. QED
  BY <1>2, <1>3, SameKeys
  DEF CD!Sweep, Sweep, CD!Live, Live, CD!QuotaReasons, QuotaReasons,
      CD!ModelQuotaReasons, ModelQuotaReasons

LEMMA SameQuota ==
  \A t, a, m, reason, hint, at :
    CD!RecordQuotaObservation(t, a, m, reason, hint, at)
      = RecordQuotaObservation(t, a, m, reason, hint, at)
<1>1. \A a, m, reason : CD!QuotaKey(a, m, reason) = QuotaKey(a, m, reason)
  BY DEF CD!QuotaKey, QuotaKey
<1>2. \A reason, hint, at : CD!QuotaEntry(reason, hint, at) = QuotaEntry(reason, hint, at)
  BY DEF CD!QuotaEntry, QuotaEntry
<1>. QED
  BY <1>1, <1>2, SameSweep DEF CD!RecordQuotaObservation, RecordQuotaObservation

LEMMA SameMark ==
  ASSUME NEW t, NEW a, NEW m, NEW reason, NEW at
  PROVE  CD!MarkModelCooldown(t, a, m, reason, at) = MarkModelCooldown(t, a, m, reason, at)
<1>1. CD!FailureEntry(reason, at) = FailureEntry(reason, at)
  BY DEF CD!FailureEntry, FailureEntry, CD!TTL, TTL
<1>2. \A s : CD!Oldest(s) = Oldest(s)
  BY SameSweep DEF CD!Oldest, Oldest
<1>. QED
  BY <1>1, <1>2, SameSweep DEF CD!MarkModelCooldown, MarkModelCooldown

(* Every step of a request is one of Cooldown's, taken at the clock.       *)
LEMMA CooldownStep ==
  ASSUME TypeOK, HintsInv, [Next]_vars PROVE [CD!Next]_(CD!vars)
<1>1. now \in CD!Readings /\ CD!ModelNames = ModelNames
      /\ CD!QuotaReasons = QuotaReasons
  BY SameKeys, SameSweep DEF TypeOK, CD!Readings
<1>2. ASSUME NEW r \in Requests, RequestStep(r) PROVE [CD!Next]_(CD!vars)
  <2>. DEFINE q == req[r]
  <2>1. /\ q.model \in ModelNames /\ q.hint \in Hints
        /\ q.pc \notin {"idle", "done"} => q.auth \in Auths
        /\ UNCHANGED <<now, billingRead>>
    BY <1>2, RequestSteps DEF HintsInv, TypeOK, RequestStates, Steps
  <2>2. CASE Arrive(r) \/ Recheck(r) \/ AttemptGuard(r)
    <3>1. PICK a \in Auths, m \in ModelNames : cooldownTable' = PruneGuard(cooldownTable, a, m, now)
      BY <2>1, <2>2 DEF Arrive, Recheck, AttemptGuard, Guarded
    <3>2. CD!Guard(a, m)
      BY <1>1, <2>1, <3>1, SameGuard DEF CD!Guard
    <3>. QED
      BY <1>1, <3>2 DEF CD!Next
  <2>3. CASE Record(r)
    <3>1. q.auth \in Auths
      BY <2>1, <2>3 DEF Record
    <3>2. CD!Failure(q.auth, q.model)
      <4>1. CASE /\ q.outcome \in QuotaReasons
                 /\ cooldownTable' = RecordQuotaObservation(cooldownTable,
                                       q.auth, q.model, q.outcome, q.hint, now)
        BY <1>1, <2>1, <4>1, SameQuota DEF CD!Failure, CD!RecordQuota
      <4>2. ASSUME NEW reason \in {"rate_limit", "upstream_error"},
                   cooldownTable' \in MarkModelCooldown(cooldownTable, q.auth,
                                                        q.model, reason, now)
            PROVE  CD!Failure(q.auth, q.model)
        BY <1>1, <2>1, <4>2, SameMark DEF CD!Failure, CD!MarkFailure
      <4>. QED
        BY <2>3, <4>1, <4>2 DEF Record
    <3>. QED
      BY <1>1, <2>1, <3>1, <3>2 DEF CD!Next
  <2>4. CASE Hint(r)
    <3>1. q.auth \in Auths
      BY <2>1, <2>4 DEF Hint
    <3>2. CD!Failure(q.auth, q.model)
      BY <1>1, <2>1, <2>4, SameHint DEF Hint, CD!Failure, CD!RecordHint
    <3>. QED
      BY <1>1, <2>1, <3>1, <3>2 DEF CD!Next
  <2>5. CASE UNCHANGED cooldownTable
    BY <2>1, <2>5 DEF CD!vars
  <2>. QED
    BY <1>2, <2>2, <2>3, <2>4, <2>5
       DEF RequestStep, Plugin, Upstream, Enter, GateTimeout, Send, Backoff,
           EmitError, ReleaseSlot, StreamClose, Return, EmitChunk, Answer,
           cooldownVars
<1>3. CASE Environment
  BY <1>1, <1>3 DEF Environment, CD!Next
<1>4. CASE UNCHANGED vars
  BY <1>4 DEF vars, CD!vars
<1>. QED
  BY <1>2, <1>3, <1>4 DEF Next, RequestStep

(* On every path and through every retry, a request does to the table what *)
(* Cooldown lets its callers do, with hints that upstream has sent.        *)
THEOREM CooldownImplemented == Spec => CooldownSpec
<1>1. Init => CD!Init /\ HintsInv
  BY ExecutorAssumption, SameKeys
     DEF Init, CD!Init, CD!EmptyTable, HintsInv, HintsFromUpstream, IdleRequest, Bare
<1>2. IInv /\ HintsInv /\ [Next]_vars => HintsInv' /\ [CD!Next]_(CD!vars)
  BY HintsStep, CooldownStep DEF IInv
<1>. QED
  BY <1>1, <1>2, InvariantHolds, PTL DEF Spec, CooldownSpec, CD!Spec

=============================================================================
