------------------------------ MODULE Executor ------------------------------
(***************************************************************************)
(* Executor requests of main.go and stream.go, from arrival to the answer: *)
(* the dispatch guard, the per-credential concurrency gate, the retry loop *)
(* and the recording of failures in the shared cooldown table.             *)
(*                                                                         *)
(* Three paths share the loop: "execute" (handleExecExecute), "sync"       *)
(* (handleExecStream without a stream id) and "async" (the pump goroutine).*)
(* A request is one record; its pc names the code it is about to run.      *)
(***************************************************************************)
EXTENDS CooldownTable

CONSTANTS
  Requests,      \* executor requests
  Paths,         \* the paths taken: a subset of {"execute", "sync", "async"}
  Outcomes,      \* what upstream may answer: a subset of AllOutcomes
  Cap,           \* upstreamMaxConcurrentPerAuth
  MaxAttempts,   \* upstreamRetryMaxAttempts
  Hints,         \* the ResetAt values upstream may send; 0 is no hint
  MaxTime        \* bound: the last instant explored

(* "soft" is isSoftRateLimit (429, queue admission); "empty" a stream      *)
(* closed before its first payload; "fault" every failure the cooldown     *)
(* table takes no notice of (transport error, 401, 5xx, a broken stream,   *)
(* a client gone); the others are the reasons of classifyQuotaReason.      *)
AllOutcomes == QuotaReasons \cup {"ok", "soft", "empty", "fault"}

ASSUME ExecutorAssumption ==
  /\ IsFiniteSet(Requests)
  /\ Paths \subseteq {"execute", "sync", "async"}
  /\ Outcomes \subseteq AllOutcomes
  /\ {Cap, MaxAttempts} \subseteq Nat \ {0}
  /\ 0 \in Hints /\ Hints \subseteq Nat   \* upstream may always give no hint
  /\ MaxTime \in Nat

VARIABLES
  cooldownTable,   \* see Cooldown
  now,
  billingRead,
  slots,           \* slots[a]: the length of a's semaphore channel
  req              \* req[r]: the state of request r

cooldownVars == <<cooldownTable, now, billingRead>>
vars == <<cooldownTable, now, billingRead, slots, req>>

CD == INSTANCE Cooldown WITH MaxSkew <- 0

PCs == {"idle", "waiting", "recheck", "attempt", "ready", "upstream",
        "backoff", "record", "hint", "answer", "release", "close", "done"}

(* The stretch over which the release closure is still owed. *)
Inside == PCs \ {"idle", "waiting", "close", "done"}

Results == {"none", "ok", "refused", "saturated", "error"}

RequestStates ==
  [pc : PCs, auth : Auths \cup {None}, model : ModelNames,
   path : {"execute", "sync", "async"},
   attempt : Nat,         \* the loop variable
   sent : Nat,            \* the last attempt that reached upstream
   clearedAt : Nat,       \* when the guard last let the request through
   out : SUBSET Nat,      \* attempts whose chunks the client has received
   outcome : AllOutcomes, \* what the attempt came to
   hint : Nat,            \* the reset evidence that came with it
   result : Results]      \* what the client has been told

NewRequest(a, m, p) ==
  [pc |-> "waiting", auth |-> a, model |-> m, path |-> p, attempt |-> 0,
   sent |-> 0, clearedAt |-> now, out |-> {}, outcome |-> "ok", hint |-> 0,
   result |-> "none"]

(* A request without locals: one that has not come in yet, or is over and  *)
(* has left what its client saw.                                           *)
Bare(pc, out, result) ==
  [pc |-> pc, auth |-> None, model |-> Shared, path |-> "execute",
   attempt |-> 0, sent |-> 0, clearedAt |-> 0, out |-> out, outcome |-> "ok",
   hint |-> 0, result |-> result]

IdleRequest == Bare("idle", {}, "none")
Finished(q, result) == Bare("done", q.out, result)

RefusalOf(r) == Refusal(cooldownTable, req[r].auth, req[r].model, now)

(* dailyQuotaCooldownError as a step: expired entries go on the way. *)
Guarded(r) ==
  cooldownTable' =
    PruneGuard(cooldownTable, req[r].auth, req[r].model, now)

Acquire(r) == slots' = [slots EXCEPT ![req[r].auth] = @ + 1]
Release(r) == slots' = [slots EXCEPT ![req[r].auth] = @ - 1]

-----------------------------------------------------------------------------
Init ==
  /\ CD!Init
  /\ slots = [a \in Auths |-> 0]
  /\ req = [r \in Requests |-> IdleRequest]

(* A request comes in and meets the guard before anything else. *)
Arrive(r) ==
  /\ req[r].pc = "idle"
  /\ \E a \in Auths, m \in ModelNames, p \in Paths :
       /\ cooldownTable' = PruneGuard(cooldownTable, a, m, now)
       /\ req' = [req EXCEPT ![r] =
                    IF Refusal(cooldownTable, a, m, now) = None
                      THEN NewRequest(a, m, p)
                      ELSE Finished(@, "refused")]
  /\ UNCHANGED <<now, billingRead, slots>>

(* Mutated: the slot is taken without looking at the cap. *)
EnterUncapped(r) ==
  /\ req[r].pc = "waiting"
  /\ Acquire(r)
  /\ req' = [req EXCEPT ![r].pc = "recheck"]
  /\ UNCHANGED cooldownVars

Enter(r) ==
  /\ req[r].pc = "waiting"
  /\ slots[req[r].auth] < Cap
  /\ Acquire(r)
  /\ req' = [req EXCEPT ![r].pc = "recheck"]
  /\ UNCHANGED cooldownVars

(* upstreamGateAcquireTimeout: the timer may also win against a free slot. *)
GateTimeout(r) ==
  /\ req[r].pc = "waiting"
  /\ req' = [req EXCEPT ![r] = Finished(@, "saturated")]
  /\ UNCHANGED <<cooldownVars, slots>>

(* The guard again, after the wait. *)
Recheck(r) ==
  /\ req[r].pc = "recheck"
  /\ Guarded(r)
  /\ IF RefusalOf(r) = None
       THEN /\ req' = [req EXCEPT ![r].pc = "attempt", ![r].attempt = 1,
                                  ![r].clearedAt = now]
            /\ UNCHANGED slots
       ELSE /\ req' = [req EXCEPT ![r] = Finished(@, "refused")]
            /\ Release(r)
  /\ UNCHANGED <<now, billingRead>>

(* Mutated: retries go out without asking the guard again. *)
AttemptUnguarded(r) ==
  /\ req[r].pc = "attempt"
  /\ req' = [req EXCEPT ![r].pc = "ready", ![r].clearedAt = now]
  /\ UNCHANGED <<cooldownVars, slots>>

(* Mutated: every path hands a refusal of its own guard to the recorder. *)
AttemptGuardRecorded(r) ==
  LET refusal == RefusalOf(r)
  IN  /\ req[r].pc = "attempt"
      /\ Guarded(r)
      /\ req' = [req EXCEPT ![r] =
           IF refusal = None
             THEN [@ EXCEPT !.pc = "ready", !.clearedAt = now]
             ELSE [@ EXCEPT !.pc = "record", !.outcome = refusal.reason]]
      /\ UNCHANGED <<now, billingRead, slots>>

(* The guard at the head of every attempt.  The synchronous collector      *)
(* returns its refusal like an upstream failure, and handleExecStream      *)
(* hands it to recordUpstreamError.                                        *)
AttemptGuard(r) ==
  LET refusal == RefusalOf(r)
  IN  /\ req[r].pc = "attempt"
      /\ Guarded(r)
      /\ req' = [req EXCEPT ![r] =
           IF refusal = None
             THEN [@ EXCEPT !.pc = "ready", !.clearedAt = now]
           ELSE IF @.path = "sync"
             THEN [@ EXCEPT !.pc = "record", !.outcome = refusal.reason,
                            !.hint = IF refusal.reason = "daily_quota"
                                       THEN 0 ELSE refusal.hint]
           ELSE [@ EXCEPT !.pc = "answer", !.outcome = "fault"]]
      /\ UNCHANGED <<now, billingRead, slots>>

(* buildChatRequest and hostHTTPDoStream. *)
Send(r) ==
  /\ req[r].pc = "ready"
  /\ req' = [req EXCEPT ![r].pc = "upstream", ![r].sent = req[r].attempt]
  /\ UNCHANGED <<cooldownVars, slots>>

(* The pump forwards a chunk; the other paths buffer the whole attempt. *)
EmitChunk(r) ==
  /\ req[r].pc = "upstream"
  /\ req[r].path = "async"
  /\ req' = [req EXCEPT ![r].out = @ \cup {req[r].attempt}]
  /\ UNCHANGED <<cooldownVars, slots>>

(* Mutated: a stream that has begun to flow may be retried. *)
MayRetryAlways(r) == req[r].attempt < MaxAttempts

(* A soft refusal may be retried while attempts remain and, in the pump,   *)
(* while the attempt has not emitted anything.                             *)
MayRetry(r) ==
  /\ req[r].attempt < MaxAttempts
  /\ req[r].attempt \notin req[r].out

(* Upstream's answer, an HTTP status or the verdict on its stream. *)
Answer(r) ==
  /\ req[r].pc = "upstream"
  /\ \E outcome \in Outcomes, hint \in Hints :
       /\ outcome \in {"ok", "empty", "fault"} => hint = 0
       /\ outcome = "empty" => req[r].out = {}
       /\ req' = [req EXCEPT ![r] =
            [@ EXCEPT !.outcome = outcome, !.hint = hint,
                      !.pc = CASE outcome \in {"ok", "fault"} -> "answer"
                               [] outcome = "soft" /\ MayRetry(r) -> "backoff"
                               [] OTHER -> "record"]]
  /\ UNCHANGED <<cooldownVars, slots>>

(* Mutated: the loop variable stands still. *)
BackoffForever(r) ==
  /\ req[r].pc = "backoff"
  /\ req' = [req EXCEPT ![r].pc = "attempt"]
  /\ UNCHANGED <<cooldownVars, slots>>

(* retrySleep: its context is never cancelled while it waits. *)
Backoff(r) ==
  /\ req[r].pc = "backoff"
  /\ req' = [req EXCEPT ![r].pc = "attempt", ![r].attempt = @ + 1]
  /\ UNCHANGED <<cooldownVars, slots>>

(* recordUpstreamFailureWithHeaders and recordUpstreamError. *)
Record(r) ==
  LET q == req[r]
  IN  /\ q.pc = "record"
      /\ \/ /\ q.outcome \in QuotaReasons
            /\ cooldownTable' = RecordQuotaObservation(cooldownTable,
                                  q.auth, q.model, q.outcome, q.hint, now)
         \/ /\ q.outcome = "soft"
            /\ cooldownTable' \in MarkModelCooldown(cooldownTable,
                                    q.auth, q.model, "rate_limit", now)
         \/ /\ q.outcome = "empty"
            /\ cooldownTable' \in MarkModelCooldown(cooldownTable,
                                    q.auth, q.model, "upstream_error", now)
      /\ req' = [req EXCEPT ![r].pc =
                   IF q.outcome = "soft" THEN "hint" ELSE "answer"]
      /\ UNCHANGED <<now, billingRead, slots>>

(* Mutated: the second lock does not look at the entry's reason again. *)
HintBlind(r) ==
  LET k == <<req[r].auth, req[r].model>>
  IN  /\ req[r].pc = "hint"
      /\ cooldownTable' =
           IF req[r].hint > now /\ cooldownTable[k] # None
             THEN [cooldownTable EXCEPT ![k].until = req[r].hint]
             ELSE cooldownTable
      /\ req' = [req EXCEPT ![r].pc = "answer"]
      /\ UNCHANGED <<now, billingRead, slots>>

(* The reset hint goes in under a second lock. *)
Hint(r) ==
  /\ req[r].pc = "hint"
  /\ cooldownTable' = RecordCooldownHint(cooldownTable, req[r].auth,
                                         req[r].model, req[r].hint, now)
  /\ req' = [req EXCEPT ![r].pc = "answer"]
  /\ UNCHANGED <<now, billingRead, slots>>

(* The deferred calls run backwards: a pump tells the client of an error,  *)
(* gives the slot back, then closes the stream; the other paths give the   *)
(* slot back before the answer is seen.                                    *)
EmitError(r) ==
  /\ req[r].pc = "answer"
  /\ req[r].path = "async"
  /\ req' = [req EXCEPT ![r].pc = "release",
                        ![r].result = IF req[r].outcome = "ok" THEN @ ELSE "error"]
  /\ UNCHANGED <<cooldownVars, slots>>

(* Mutated: the pump forgets the slot. *)
ReleaseForgotten(r) ==
  /\ req[r].pc = "release"
  /\ req' = [req EXCEPT ![r].pc = "close"]
  /\ UNCHANGED <<cooldownVars, slots>>

ReleaseSlot(r) ==
  /\ req[r].pc = "release"
  /\ Release(r)
  /\ req' = [req EXCEPT ![r].pc = "close"]
  /\ UNCHANGED cooldownVars

StreamClose(r) ==
  /\ req[r].pc = "close"
  /\ req' = [req EXCEPT ![r] =
                Finished(@, IF @.result = "none" THEN "ok" ELSE @.result)]
  /\ UNCHANGED <<cooldownVars, slots>>

Return(r) ==
  /\ req[r].pc = "answer"
  /\ req[r].path # "async"
  /\ Release(r)
  /\ req' = [req EXCEPT ![r] =
                Finished(@, IF @.outcome = "ok" THEN "ok" ELSE "error")]
  /\ UNCHANGED cooldownVars

(* The clock, the panel and the billing reads go on beside the requests. *)
Environment ==
  /\ \/ CD!Tick
     \/ \E a \in Auths :
          \/ CD!BillingStart(a) \/ CD!BillingPositive(a) \/ CD!BillingOther(a)
          \/ CD!ListModels(a)
          \/ \E m \in ModelNames : CD!Clear(a, m)
  /\ UNCHANGED <<slots, req>>

Plugin(r) ==
  \/ Enter(r) \/ GateTimeout(r) \/ Recheck(r) \/ AttemptGuard(r) \/ Send(r)
  \/ Backoff(r) \/ Record(r) \/ Hint(r)
  \/ EmitError(r) \/ ReleaseSlot(r) \/ StreamClose(r) \/ Return(r)

Upstream(r) == EmitChunk(r) \/ Answer(r)

Next ==
  \/ Environment
  \/ \E r \in Requests : Arrive(r) \/ Plugin(r) \/ Upstream(r)

Spec == Init /\ [][Next]_vars

(* The plugin's goroutines run and its timers fire; upstream owes nothing. *)
FairSpec == Spec /\ \A r \in Requests : WF_vars(Plugin(r))

-----------------------------------------------------------------------------
TypeOK ==
  /\ cooldownTable \in Tables
  /\ now \in Nat
  /\ billingRead \in [Auths -> Nat \cup {None}]
  /\ slots \in [Auths -> 0 .. Cap]
  /\ req \in [Requests -> RequestStates]
  /\ \A r \in Requests : req[r].pc \notin {"idle", "done"} => req[r].auth \in Auths

Holders(a) == {r \in Requests : req[r].auth = a /\ req[r].pc \in Inside}

(* Every slot taken is owed back by exactly one request still running, on  *)
(* every path and through every retry and early return: no leak and no     *)
(* double release (concurrency.go, pumpUpstreamStream: "the slot is        *)
(* returned on every exit path").                                          *)
SlotsConserved == \A a \in Auths : slots[a] = Cardinality(Holders(a))

(* Whatever is on its way upstream was let through before the freeze that  *)
(* now holds its pair or account began: waiting for a slot or in a backoff *)
(* never carries a request past a freeze recorded meanwhile                *)
(* (dailyQuotaCooldownError: "Never call upstream during this pair's daily *)
(* quota cooldown").                                                       *)
ClearedBeforeFreeze ==
  \A r \in Requests : req[r].pc \in {"ready", "upstream"} =>
    \A k \in GuardKeys(req[r].auth, req[r].model) :
      Frozen(cooldownTable, k, now) =>
        req[r].clearedAt <= cooldownTable[k].updatedAt

(* A client never sees chunks of two attempts spliced together.            *)
OneAttemptSeen == \A r \in Requests : Cardinality(req[r].out) <= 1

(* A freeze begins only with evidence: the request that records it had its *)
(* current attempt answered by upstream.  A refusal read from the table is *)
(* not evidence (dailyQuotaCooldownError: "Reads don't extend the finite   *)
(* TTL").  The synchronous path is the exception: it records the refusal   *)
(* of its own guard, which may have been lifted in between.                *)
EvidenceStep ==
  \A k \in Keys :
    cooldownTable[k] = None /\ cooldownTable'[k] # None =>
      \E r \in Requests :
        /\ req[r].pc = "record" /\ req'[r].pc # "record"
        /\ req[r].sent = req[r].attempt \/ req[r].path = "sync"
FreezeNeedsEvidence == [][EvidenceStep]_vars

(* If upstream ends its streams, every request is answered and its slot    *)
(* returned, whatever mix of refusals and retries it goes through.         *)
UpstreamAnswers == \A r \in Requests : WF_vars(Answer(r))
EveryRequestEnds ==
  UpstreamAnswers =>
    \A r \in Requests : req[r].pc = "waiting" ~> req[r].pc = "done"

(* The semaphore implements the abstract gate.                             *)
Gate == INSTANCE UpstreamGate WITH
  holders <- [a \in Auths |-> Holders(a)],
  left <- {r \in Requests : req[r].pc \in {"close", "done"}}
GateSpec == Gate!Spec

(* And every step of a request leaves the table as Cooldown allows.        *)
CooldownSpec == CD!Spec
=============================================================================
