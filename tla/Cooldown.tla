------------------------------ MODULE Cooldown ------------------------------
(***************************************************************************)
(* The cooldown table as a shared object: every caller of the plugin that  *)
(* reads or changes it, in any interleaving, against a moving clock.  Each *)
(* caller reads cooldownNowFn before it takes cooldownMu, so an operation  *)
(* may carry an instant up to MaxSkew behind the clock.                    *)
(***************************************************************************)
EXTENDS CooldownTable

CONSTANTS
  Hints,     \* the ResetAt values upstream may send; 0 is no hint
  MaxSkew,   \* bound: ticks between reading the clock and taking the mutex
  MaxTime    \* bound: the last instant explored

ASSUME ClockAssumption == Hints \subseteq Nat /\ MaxSkew \in Nat /\ MaxTime \in Nat

VARIABLES
  cooldownTable,   \* cooldownTable, guarded by cooldownMu
  now,             \* the wall clock
  billingRead      \* billingRead[a]: when the balance read of a in flight
                   \* began (started / creditsStarted), or None

vars == <<cooldownTable, now, billingRead>>

Readings == {at \in 0 .. now : now - at <= MaxSkew}

Init ==
  /\ cooldownTable = EmptyTable
  /\ now = 0
  /\ billingRead = [a \in Auths |-> None]

Tick ==
  /\ now < MaxTime
  /\ now' = now + 1
  /\ UNCHANGED <<cooldownTable, billingRead>>

(* recordUpstreamFailureLegacy, the failures that name one degraded model. *)
MarkFailure(a, m, reason) ==
  /\ \E at \in Readings :
       cooldownTable' \in MarkModelCooldown(cooldownTable, a, m, reason, at)
  /\ UNCHANGED <<now, billingRead>>

(* The reset hint of a soft rate limit, stored under a second lock. *)
RecordHint(a, m) ==
  /\ \E at \in Readings, hint \in Hints :
       cooldownTable' = RecordCooldownHint(cooldownTable, a, m, hint, at)
  /\ UNCHANGED <<now, billingRead>>

RecordQuota(a, m, reason) ==
  /\ \E at \in Readings, hint \in Hints :
       cooldownTable' =
         RecordQuotaObservation(cooldownTable, a, m, reason, hint, at)
  /\ UNCHANGED <<now, billingRead>>

Clear(a, m) ==
  /\ cooldownTable' = ClearModelCooldown(cooldownTable, a, m)
  /\ UNCHANGED <<now, billingRead>>

BillingStart(a) ==
  /\ billingRead[a] = None
  /\ billingRead' = [billingRead EXCEPT ![a] = now]
  /\ UNCHANGED <<cooldownTable, now>>

(* The read succeeds with a positive balance ... *)
BillingPositive(a) ==
  /\ billingRead[a] # None
  /\ cooldownTable' = ObservePositiveCredits(cooldownTable, a, billingRead[a])
  /\ billingRead' = [billingRead EXCEPT ![a] = None]
  /\ UNCHANGED now

(* ... or fails, or reports no credits: not evidence of anything. *)
BillingOther(a) ==
  /\ billingRead[a] # None
  /\ billingRead' = [billingRead EXCEPT ![a] = None]
  /\ UNCHANGED <<cooldownTable, now>>

ListModels(a) ==
  /\ \E at \in Readings : cooldownTable' = PruneAccount(cooldownTable, a, at)
  /\ UNCHANGED <<now, billingRead>>

Guard(a, m) ==
  /\ \E at \in Readings : cooldownTable' = PruneGuard(cooldownTable, a, m, at)
  /\ UNCHANGED <<now, billingRead>>

Failure(a, m) ==
  \/ \E reason \in {"rate_limit", "upstream_error"} : MarkFailure(a, m, reason)
  \/ RecordHint(a, m)
  \/ \E reason \in QuotaReasons : RecordQuota(a, m, reason)

Next ==
  \/ Tick
  \/ \E a \in Auths :
       \/ BillingStart(a) \/ BillingPositive(a) \/ BillingOther(a)
       \/ ListModels(a)
       \/ \E m \in ModelNames : Failure(a, m) \/ Clear(a, m) \/ Guard(a, m)

Spec == Init /\ [][Next]_vars

-----------------------------------------------------------------------------
TypeOK ==
  /\ cooldownTable \in Tables
  /\ now \in Nat
  /\ billingRead \in [Auths -> Nat \cup {None}]

(* The table never outgrows its cap, whatever order failures and quota     *)
(* refusals arrive in (cooldown.go: "a hostile or buggy upstream cannot    *)
(* grow it without limit").                                                *)
Bounded == Cardinality(Present(cooldownTable)) <= MaxEntries

(* Only shared-credit exhaustion occupies the account-wide key, and only   *)
(* that key (cooldown.go: "Only explicit shared-credit exhaustion may use  *)
(* an account-wide entry"): no failure of one model freezes its siblings.  *)
OnlySharedIsAccountWide ==
  \A k \in Present(cooldownTable) :
    k[2] = Shared <=> cooldownTable[k].reason = "shared_credit_exhausted"

(* A late or duplicate failure of a request in flight neither downgrades a *)
(* live quota freeze to a plain cooldown, nor replaces a daily cap, nor    *)
(* moves the end of a freeze recorded for the same reason.                 *)
NoDowngradeStep ==
  \A k \in Keys :
    (Frozen(cooldownTable, k, now) /\ cooldownTable'[k] # None) =>
       /\ cooldownTable'[k].reason \in QuotaReasons
       /\ cooldownTable[k].reason \in {"daily_quota", cooldownTable'[k].reason}
            => cooldownTable'[k] = cooldownTable[k]
NoDowngrade == [][NoDowngradeStep]_vars

(* A live quota freeze ends early only by a manual clear of its pair or    *)
(* account; for shared credits, by a positive balance read begun no        *)
(* earlier than the freeze; or in a full table, when it is the next to end *)
(* and a failing model needs the room (quotaEntryFields: recovery is       *)
(* "ttl_probe_or_manual_clear" or "positive_credits_or_probe_or_manual_    *)
(* clear"; reliability.md: "a read started before the hold cannot clear    *)
(* newer state"; the eviction of live freezes is cooldown.go's alone).     *)
RecoveryStep ==
  \A k \in Keys :
    (Frozen(cooldownTable, k, now) /\ cooldownTable'[k] = None) =>
       \/ \E m \in ModelNames :
            cooldownTable' = ClearModelCooldown(cooldownTable, k[1], m)
       \/ /\ cooldownTable[k].reason = "shared_credit_exhausted"
          /\ billingRead[k[1]] # None
          /\ billingRead[k[1]] >= cooldownTable[k].updatedAt
          /\ cooldownTable' = [cooldownTable EXCEPT ![k] = None]
       \/ LET live == Sweep(cooldownTable, now)
          IN  /\ Full(live) /\ k \in Oldest(live)
              /\ \E j \in Present(cooldownTable') :
                   cooldownTable'[j].reason \notin QuotaReasons
OnlyRecoveryLifts == [][RecoveryStep]_vars
=============================================================================
