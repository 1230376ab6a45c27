---------------------------- MODULE CooldownTable ----------------------------
(***************************************************************************)
(* The process-local cooldown table of cooldown.go, quota_observation.go   *)
(* and daily_quota.go, as operators on a table value.  Every function of   *)
(* the source that takes cooldownMu is one operator here: it maps the      *)
(* table found under the mutex, and the clock reading `at' taken before    *)
(* the mutex, to the table left behind.  Cooldown.tla makes a state        *)
(* machine of them; Executor.tla applies them from concurrent requests.    *)
(*                                                                         *)
(* The Go map is a total function on Keys whose absent keys are None.      *)
(* Instants are natural numbers; a quotaHint is its ResetAt, 0 for none.   *)
(***************************************************************************)
EXTENDS Naturals, FiniteSets

CONSTANTS
  Auths,          \* credential ids (AuthID)
  Models,         \* routed model names, all non-empty
  Shared,         \* the empty model name: the account-wide key
  None,           \* no table entry
  RateLimitTTL,   \* modelCooldownRateLimit
  UnknownTTL,     \* modelCooldownUnknown
  QuotaTTL,       \* modelCooldownDailyQuota, for every quota reason
  MaxEntries      \* modelCooldownMaxEntries

ASSUME CooldownAssumption ==
  /\ IsFiniteSet(Auths)
  /\ IsFiniteSet(Models)
  /\ Shared \notin Models
  /\ {RateLimitTTL, UnknownTTL, QuotaTTL, MaxEntries} \subseteq Nat \ {0}

ModelNames == Models \cup {Shared}
Keys == Auths \X ModelNames

ModelQuotaReasons == {"model_credit_exhausted", "model_quota"}
QuotaReasons ==
  {"daily_quota", "shared_credit_exhausted"} \cup ModelQuotaReasons
Reasons == QuotaReasons \cup {"rate_limit", "upstream_error"}

Entries == [reason : Reasons, until : Nat, updatedAt : Nat, hint : Nat]

ASSUME NoneAssumption == None \notin Entries

Tables == [Keys -> Entries \cup {None}]
EmptyTable == [k \in Keys |-> None]

Present(t) == {k \in Keys : t[k] # None}
Full(t) == Cardinality(Present(t)) >= MaxEntries

Live(t, k, at) == t[k] # None /\ t[k].until > at

(* The pair (or account) is under a live freeze of a quota reason. *)
Frozen(t, k, at) == Live(t, k, at) /\ t[k].reason \in QuotaReasons

-----------------------------------------------------------------------------
(* cooldownSweepLocked *)
Sweep(t, at) == [k \in Keys |-> IF Live(t, k, at) THEN t[k] ELSE None]

TTL(reason) ==
  CASE reason = "rate_limit"  -> RateLimitTTL
    [] reason = "daily_quota" -> QuotaTTL
    [] OTHER                  -> UnknownTTL

FailureEntry(reason, at) ==
  [reason |-> reason, until |-> at + TTL(reason), updatedAt |-> at, hint |-> 0]

(* The keys whose freeze ends first; the map order picks among ties. *)
Oldest(t) ==
  {k \in Present(t) : \A j \in Present(t) : t[k].until <= t[j].until}

(* Mutated: a late failure overwrites whatever the pair holds. *)
MarkOverFreeze(t, a, m, reason, at) ==
  LET k == <<a, m>>
      s == Sweep(t, at)
  IN  IF m = Shared THEN {t}
      ELSE IF Full(s)
        THEN {[s EXCEPT ![v] = None, ![k] = FailureEntry(reason, at)] :
                v \in Oldest(s)}
        ELSE {[s EXCEPT ![k] = FailureEntry(reason, at)]}

(* markModelCooldown, as the set of tables it may leave. *)
MarkModelCooldown(t, a, m, reason, at) ==
  LET k == <<a, m>>
      s == Sweep(t, at)
  IN  IF m = Shared THEN {t}
      ELSE IF s[k] # None /\ s[k].reason \in QuotaReasons THEN {s}
      ELSE IF Full(s)
        THEN {[s EXCEPT ![v] = None, ![k] = FailureEntry(reason, at)] :
                v \in Oldest(s)}
        ELSE {[s EXCEPT ![k] = FailureEntry(reason, at)]}

(* recordCooldownHint: only a rate-limit entry takes the explicit reset. *)
RecordCooldownHint(t, a, m, hint, at) ==
  LET k == <<a, m>>
  IN  IF hint > at /\ t[k] # None /\ t[k].reason = "rate_limit"
        THEN [t EXCEPT ![k].until = hint, ![k].hint = hint]
        ELSE t

QuotaEntry(reason, hint, at) ==
  [reason |-> reason, until |-> IF hint > at THEN hint ELSE at + QuotaTTL,
   updatedAt |-> at, hint |-> hint]

QuotaKey(a, m, reason) ==
  <<a, IF reason = "shared_credit_exhausted" THEN Shared ELSE m>>

(* recordQuotaObservation *)
RecordQuotaObservation(t, a, m, reason, hint, at) ==
  LET k == QuotaKey(a, m, reason)
      s == Sweep(t, at)
      held == s[k] # None /\ s[k].reason \in {"daily_quota", reason}
  IN  IF reason # "shared_credit_exhausted" /\ m = Shared THEN t
      ELSE IF held \/ Full(s) THEN s
      ELSE [s EXCEPT ![k] = QuotaEntry(reason, hint, at)]

(* clearModelCooldown: one pair, or the whole account for the empty model. *)
ClearModelCooldown(t, a, m) ==
  [k \in Keys |-> IF k[1] = a /\ m \in {Shared, k[2]} THEN None ELSE t[k]]

(* Mutated: a balance lifts the freeze whenever it was read. *)
ObserveAnyCredits(t, a, observedAt) ==
  LET k == <<a, Shared>>
  IN  IF t[k] # None /\ t[k].reason = "shared_credit_exhausted"
        THEN [t EXCEPT ![k] = None]
        ELSE t

(* observePositiveCreditsAt, for a billing read begun at observedAt that   *)
(* returned a positive balance.                                            *)
ObservePositiveCredits(t, a, observedAt) ==
  LET k == <<a, Shared>>
  IN  IF /\ t[k] # None
         /\ t[k].reason = "shared_credit_exhausted"
         /\ observedAt >= t[k].updatedAt
        THEN [t EXCEPT ![k] = None]
        ELSE t

-----------------------------------------------------------------------------
(* Readers.  Each drops the expired entries it meets. *)

(* coolingModelSetFor *)
PruneAccount(t, a, at) ==
  [k \in Keys |-> IF k[1] = a /\ ~Live(t, k, at) THEN None ELSE t[k]]

(* dailyQuotaCooldownError with otherQuotaCooldownError, the dispatch      *)
(* guard: the freeze that refuses the pair, the account's first, or None.  *)
GuardKeys(a, m) == {<<a, Shared>>, <<a, m>>}
Refusal(t, a, m, at) ==
  IF Frozen(t, <<a, Shared>>, at) THEN t[<<a, Shared>>]
  ELSE IF Frozen(t, <<a, m>>, at) THEN t[<<a, m>>]
  ELSE None

(* Expired entries are deleted on the way; a refusal by the account entry  *)
(* returns before the pair's own is looked at.                             *)
PruneGuard(t, a, m, at) ==
  LET seen == IF Frozen(t, <<a, Shared>>, at) THEN {<<a, Shared>>}
              ELSE GuardKeys(a, m)
  IN  [k \in Keys |-> IF k \in seen /\ ~Live(t, k, at) THEN None ELSE t[k]]
=============================================================================
