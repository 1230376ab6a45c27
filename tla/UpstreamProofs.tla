--------------------------- MODULE UpstreamProofs ---------------------------
(***************************************************************************)
(* Theorems about what happens on the way upstream and back: about the     *)
(* cooldown table, for every set of accounts and models, every TTL,        *)
(* capacity and clock skew; about the calls, for any number of files,      *)
(* accounts, goroutines, refreshes and changes of the route; and about     *)
(* what the refusals they meet mean, for bodies with any number of         *)
(* markers, every set of statuses and every budget of attempts.            *)
(***************************************************************************)
EXTENDS Cooldown, CooldownTableProofs, RefusalPolicy, UpstreamCalls

-----------------------------------------------------------------------------
(* The cooldown table.                                                     *)

(* Every operation keeps the table a table, the clock and the billing      *)
(* reads instants.                                                         *)
LEMMA TypeStep == TypeOK /\ [Next]_vars => TypeOK'
<1> SUFFICES ASSUME TypeOK, [Next]_vars
             PROVE  TypeOK'
  OBVIOUS
<1> USE DEF TypeOK
<1>r. Readings \subseteq Nat
  BY DEF Readings
<1>h. Hints \subseteq Nat
  BY ClockAssumption
<1>1. CASE Tick
  BY <1>1 DEF Tick
<1>2. ASSUME NEW a \in Auths, BillingStart(a)
      PROVE  TypeOK'
  BY <1>2 DEF BillingStart
<1>3. ASSUME NEW a \in Auths, BillingPositive(a)
      PROVE  TypeOK'
  <2>1. billingRead[a] \in Nat
    BY <1>3 DEF BillingPositive
  <2>2. Shared \in ModelNames
    BY DEF ModelNames
  <2>. QED
    BY <1>3, <2>1, <2>2, DeletionTables DEF BillingPositive
<1>4. ASSUME NEW a \in Auths, BillingOther(a)
      PROVE  TypeOK'
  BY <1>4 DEF BillingOther
<1>5. ASSUME NEW a \in Auths, ListModels(a)
      PROVE  TypeOK'
  <2>2. Shared \in ModelNames
    BY DEF ModelNames
  <2>. QED
  BY <1>5, <1>r, <2>2, DeletionTables DEF ListModels
<1>6. ASSUME NEW a \in Auths, NEW m \in ModelNames, Failure(a, m)
      PROVE  TypeOK'
  <2>1. ASSUME NEW reason \in {"rate_limit", "upstream_error"},
               MarkFailure(a, m, reason)
        PROVE  TypeOK'
    BY <2>1, <1>r, MarkTable DEF MarkFailure
  <2>2. CASE RecordHint(a, m)
    BY <2>2, <1>r, <1>h, HintTable DEF RecordHint
  <2>3. ASSUME NEW reason \in QuotaReasons, RecordQuota(a, m, reason)
        PROVE  TypeOK'
    BY <2>3, <1>r, <1>h, QuotaTable DEF RecordQuota
  <2>. QED
    BY <1>6, <2>1, <2>2, <2>3 DEF Failure
<1>7. ASSUME NEW a \in Auths, NEW m \in ModelNames, Clear(a, m)
      PROVE  TypeOK'
  <2>1. 0 \in Nat
    OBVIOUS
  <2>. QED
  BY <1>7, <2>1, DeletionTables DEF Clear
<1>8. ASSUME NEW a \in Auths, NEW m \in ModelNames, Guard(a, m)
      PROVE  TypeOK'
  BY <1>8, <1>r, DeletionTables DEF Guard
<1>9. CASE UNCHANGED vars
  BY <1>9 DEF vars
<1>. QED
  BY <1>1, <1>2, <1>3, <1>4, <1>5, <1>6, <1>7, <1>8, <1>9 DEF Next

(* The table, the clock and the billing reads keep their types.            *)
THEOREM Typing == Spec => []TypeOK
<1>1. Init => TypeOK
  BY DEF Init, TypeOK, EmptyTable, Tables
<1>. QED
  BY <1>1, TypeStep, PTL DEF Spec

-----------------------------------------------------------------------------
(* Only shared-credit exhaustion is account-wide.                          *)

(* What a step does to each key: keep, forget, re-date by a hint, or enter *)
(* a failure or a quota refusal where the reason belongs.                  *)
KeyKept(k) == cooldownTable'[k] \in {cooldownTable[k], None}
KeyHinted(k) ==
  /\ cooldownTable[k] # None
  /\ cooldownTable[k].reason = "rate_limit"
  /\ cooldownTable'[k] # None
  /\ cooldownTable'[k].reason = "rate_limit"
KeyFailed(k) ==
  /\ k[2] # Shared
  /\ ~Frozen(cooldownTable, k, now)
  /\ cooldownTable'[k] # None
  /\ cooldownTable'[k].reason \in {"rate_limit", "upstream_error"}
KeyQuota(k) ==
  /\ cooldownTable'[k] # None
  /\ cooldownTable'[k].reason \in QuotaReasons
  /\ k[2] = Shared <=> cooldownTable'[k].reason = "shared_credit_exhausted"
  /\ Frozen(cooldownTable, k, now) =>
       cooldownTable[k].reason \notin {"daily_quota", cooldownTable'[k].reason}

KeyStep(k) == KeyKept(k) \/ KeyHinted(k) \/ KeyFailed(k) \/ KeyQuota(k)

(* A failure leaves every key kept or freshly failed, and a key frozen at  *)
(* the clock is not overwritten by it even from a lagging reading.         *)
LEMMA MarkKeys ==
  ASSUME TypeOK, NEW a \in Auths, NEW m \in ModelNames,
         NEW reason \in {"rate_limit", "upstream_error"},
         MarkFailure(a, m, reason)
  PROVE  \A k \in Keys : KeyKept(k) \/ KeyFailed(k)
<1>1. PICK at \in Readings :
        cooldownTable' \in MarkModelCooldown(cooldownTable, a, m, reason, at)
  BY DEF MarkFailure
<1>2. at \in Nat /\ at <= now /\ now \in Nat
  BY DEF Readings, TypeOK
<1>3. cooldownTable \in Tables /\ cooldownTable' \in Tables
  BY <1>1, <1>2, MarkTable DEF TypeOK
<1> DEFINE s == Sweep(cooldownTable, at)
           e == FailureEntry(reason, at)
           j == <<a, m>>
<1>4. s \in Tables /\ \A k \in Keys : /\ s[k] \in {cooldownTable[k], None}
                                      /\ s[k] # None <=> Live(cooldownTable, k, at)
  BY <1>2, <1>3, SweepTable
<1>5. j \in Keys
  BY DEF Keys
<1>6. e \in Entries /\ e # None /\ e.reason = reason
  BY <1>2, FailureEntryType, NoneAssumption DEF FailureEntry
<1>7. \A k \in Keys : Frozen(cooldownTable, k, now) =>
                       s[k] # None /\ s[k].reason \in QuotaReasons
  <2> SUFFICES ASSUME NEW k \in Keys, Frozen(cooldownTable, k, now)
               PROVE  s[k] # None /\ s[k].reason \in QuotaReasons
    OBVIOUS
  <2>1. cooldownTable[k] \in Entries
    BY <1>3 DEF Frozen, Live, Tables
  <2>2. Live(cooldownTable, k, at)
    BY <1>2, <2>1 DEF Frozen, Live, Entries
  <2>. QED
    BY <2>2, <1>4 DEF Frozen
<1>8. \/ cooldownTable' = cooldownTable
      \/ cooldownTable' = s
      \/ /\ m \in Models
         /\ ~(s[j] # None /\ s[j].reason \in QuotaReasons)
         /\ \/ cooldownTable' = [s EXCEPT ![j] = e]
            \/ \E v \in Keys : cooldownTable' = [s EXCEPT ![v] = None, ![j] = e]
  BY <1>1, <1>2, <1>3, MarkShape DEF Oldest, Present
<1> SUFFICES ASSUME NEW k \in Keys
             PROVE  KeyKept(k) \/ KeyFailed(k)
  OBVIOUS
<1>9. CASE k # j
  BY <1>3, <1>4, <1>8, <1>9 DEF KeyKept, Tables
<1>10. CASE k = j /\ cooldownTable' \in {cooldownTable, s}
  BY <1>4, <1>10 DEF KeyKept
<1>11. CASE k = j /\ cooldownTable' \notin {cooldownTable, s}
  <2>1. m \in Models /\ ~Frozen(cooldownTable, j, now) /\ cooldownTable'[j] = e
    BY <1>3, <1>4, <1>5, <1>7, <1>8, <1>11 DEF Tables
  <2>. QED
    BY <2>1, <1>6, <1>11, CooldownAssumption DEF KeyFailed
<1>. QED
  BY <1>9, <1>10, <1>11

(* A quota refusal leaves every key kept or holding the refusal, where its *)
(* reason belongs and never over the same reason or a daily cap.           *)
LEMMA QuotaKeys ==
  ASSUME TypeOK, NEW a \in Auths, NEW m \in ModelNames,
         NEW reason \in QuotaReasons, RecordQuota(a, m, reason)
  PROVE  \A k \in Keys : KeyKept(k) \/ KeyQuota(k)
<1>1. PICK at \in Readings, hint \in Hints :
        cooldownTable' = RecordQuotaObservation(cooldownTable, a, m, reason, hint, at)
  BY DEF RecordQuota
<1>2. at \in Nat /\ at <= now /\ now \in Nat /\ hint \in Nat
  BY ClockAssumption DEF Readings, TypeOK
<1>3. cooldownTable \in Tables /\ cooldownTable' \in Tables
  BY <1>1, <1>2, QuotaTable DEF TypeOK
<1> DEFINE s == Sweep(cooldownTable, at)
           e == QuotaEntry(reason, hint, at)
           j == QuotaKey(a, m, reason)
<1>4. s \in Tables /\ \A k \in Keys : /\ s[k] \in {cooldownTable[k], None}
                                      /\ s[k] # None <=> Live(cooldownTable, k, at)
  BY <1>2, <1>3, SweepTable
<1>5. j \in Keys
  BY DEF QuotaKey, Keys, ModelNames
<1>6. e \in Entries /\ e # None /\ e.reason = reason
  BY <1>2, QuotaEntryType, NoneAssumption DEF QuotaEntry
<1>7. Frozen(cooldownTable, j, now) => s[j] = cooldownTable[j] /\ s[j] # None
  <2> SUFFICES ASSUME Frozen(cooldownTable, j, now)
               PROVE  s[j] = cooldownTable[j] /\ s[j] # None
    OBVIOUS
  <2>1. cooldownTable[j] \in Entries
    BY <1>3, <1>5 DEF Frozen, Live, Tables
  <2>2. Live(cooldownTable, j, at)
    BY <1>2, <2>1 DEF Frozen, Live, Entries
  <2>. QED
    BY <2>2, <1>4, <1>5
<1>8. \/ cooldownTable' \in {cooldownTable, s}
      \/ /\ reason = "shared_credit_exhausted" \/ m # Shared
         /\ ~(s[j] # None /\ s[j].reason \in {"daily_quota", reason})
         /\ cooldownTable' = [s EXCEPT ![j] = e]
  BY <1>1 DEF RecordQuotaObservation
<1>9. j[2] = Shared <=> (reason = "shared_credit_exhausted" \/ m = Shared)
  BY DEF QuotaKey
<1> SUFFICES ASSUME NEW k \in Keys
             PROVE  KeyKept(k) \/ KeyQuota(k)
  OBVIOUS
<1>10. CASE k # j \/ cooldownTable' \in {cooldownTable, s}
  BY <1>3, <1>4, <1>8, <1>10 DEF KeyKept, Tables
<1>11. CASE k = j /\ cooldownTable' \notin {cooldownTable, s}
  <2>1. cooldownTable'[j] = e
    BY <1>4, <1>5, <1>8, <1>11 DEF Tables
  <2>2. Frozen(cooldownTable, j, now) =>
          cooldownTable[j].reason \notin {"daily_quota", reason}
    BY <1>7, <1>8, <1>11
  <2>. QED
    BY <2>1, <2>2, <1>6, <1>8, <1>9, <1>11 DEF KeyQuota
<1>. QED
  BY <1>10, <1>11

(* The same for every step of the system.                                  *)
LEMMA NextKeys == TypeOK /\ [Next]_vars => \A k \in Keys : KeyStep(k)
<1> SUFFICES ASSUME TypeOK, [Next]_vars, NEW k \in Keys
             PROVE  KeyStep(k)
  OBVIOUS
<1>1. cooldownTable \in Tables
  BY DEF TypeOK
<1>2. ASSUME NEW a \in Auths, NEW m \in ModelNames, Failure(a, m)
      PROVE  KeyStep(k)
  <2>1. ASSUME NEW reason \in {"rate_limit", "upstream_error"},
               MarkFailure(a, m, reason)
        PROVE  KeyStep(k)
    BY <2>1, MarkKeys DEF KeyStep
  <2>2. CASE RecordHint(a, m)
    <3>1. PICK at \in Readings, hint \in Hints :
            cooldownTable' = RecordCooldownHint(cooldownTable, a, m, hint, at)
      BY <2>2 DEF RecordHint
    <3>2. CASE cooldownTable' = cooldownTable
      BY <3>2 DEF KeyStep, KeyKept
    <3>3. CASE /\ cooldownTable[<<a, m>>] # None
               /\ cooldownTable[<<a, m>>].reason = "rate_limit"
               /\ cooldownTable' = [cooldownTable EXCEPT ![<<a, m>>].until = hint,
                                                        ![<<a, m>>].hint = hint]
      <4>1. CASE k # <<a, m>>
        BY <1>1, <3>3, <4>1 DEF KeyStep, KeyKept, Tables
      <4>2. CASE k = <<a, m>>
        <5>1. cooldownTable[k] \in Entries
          BY <1>1, <3>3, <4>2 DEF Tables
        <5>2. cooldownTable'[k] = [cooldownTable[k] EXCEPT !.until = hint, !.hint = hint]
          BY <1>1, <3>3, <4>2 DEF Tables
        <5>3. cooldownTable'[k] \in Entries /\ cooldownTable'[k].reason = "rate_limit"
          BY <5>1, <5>2, <3>1, <3>3, <4>2, ClockAssumption DEF Entries
        <5>. QED
          BY <5>3, <3>3, <4>2, NoneAssumption DEF KeyStep, KeyHinted
      <4>. QED
        BY <4>1, <4>2
    <3>. QED
      BY <3>1, <3>2, <3>3 DEF RecordCooldownHint
  <2>3. ASSUME NEW reason \in QuotaReasons, RecordQuota(a, m, reason)
        PROVE  KeyStep(k)
    BY <2>3, QuotaKeys DEF KeyStep
  <2>. QED
    BY <1>2, <2>1, <2>2, <2>3 DEF Failure
<1>3. ASSUME NEW a \in Auths, BillingPositive(a)
      PROVE  KeyStep(k)
  BY <1>1, <1>3 DEF BillingPositive, ObservePositiveCredits, KeyStep, KeyKept, Tables
<1>4. ASSUME NEW a \in Auths, ListModels(a)
      PROVE  KeyStep(k)
  BY <1>4 DEF ListModels, PruneAccount, KeyStep, KeyKept
<1>5. ASSUME NEW a \in Auths, NEW m \in ModelNames, Clear(a, m)
      PROVE  KeyStep(k)
  BY <1>5 DEF Clear, ClearModelCooldown, KeyStep, KeyKept
<1>6. ASSUME NEW a \in Auths, NEW m \in ModelNames, Guard(a, m)
      PROVE  KeyStep(k)
  BY <1>6 DEF Guard, PruneGuard, KeyStep, KeyKept
<1>7. CASE UNCHANGED cooldownTable
  BY <1>7 DEF KeyStep, KeyKept
<1>. QED
  BY <1>2, <1>3, <1>4, <1>5, <1>6, <1>7
  DEF Next, vars, Tick, BillingStart, BillingOther

(* Only shared-credit exhaustion, and nothing else, sits at the account-   *)
(* wide key, for any number of accounts and models.                        *)
THEOREM AccountWide == Spec => []OnlySharedIsAccountWide
<1>1. Init => OnlySharedIsAccountWide
  BY DEF Init, OnlySharedIsAccountWide, Present, EmptyTable
<1>2. TypeOK /\ OnlySharedIsAccountWide /\ [Next]_vars => OnlySharedIsAccountWide'
  BY NextKeys DEF OnlySharedIsAccountWide, Present, KeyStep, KeyKept,
     KeyHinted, KeyFailed, KeyQuota, QuotaReasons, ModelQuotaReasons
<1>. QED
  BY <1>1, <1>2, Typing, PTL DEF Spec

(* A live quota freeze is never weakened, replaced by its own reason, or   *)
(* re-dated by requests still in flight, at any clock skew.                *)
THEOREM FreezesStand == Spec => NoDowngrade
<1>1. TypeOK /\ [Next]_vars => NoDowngradeStep
  <2> SUFFICES ASSUME TypeOK, [Next]_vars, NEW k \in Keys,
                      Frozen(cooldownTable, k, now), cooldownTable'[k] # None
               PROVE  /\ cooldownTable'[k].reason \in QuotaReasons
                      /\ cooldownTable[k].reason \in
                            {"daily_quota", cooldownTable'[k].reason}
                           => cooldownTable'[k] = cooldownTable[k]
    BY DEF NoDowngradeStep
  <2>. QED
    BY NextKeys DEF KeyStep, KeyKept, KeyHinted, KeyFailed, KeyQuota, Frozen,
       QuotaReasons, ModelQuotaReasons
<1>. QED
  BY <1>1, Typing, PTL DEF Spec, NoDowngrade

-----------------------------------------------------------------------------
(* What ends a freeze early.                                               *)

(* A freeze that is live at the clock is live at every reading of it, so   *)
(* no reader and no sweep takes it for expired.                            *)
LEMMA FrozenIsLive ==
  ASSUME TypeOK, NEW k \in Keys, Frozen(cooldownTable, k, now), NEW at \in Readings
  PROVE  /\ cooldownTable[k] # None /\ cooldownTable[k] \in Entries
         /\ Live(cooldownTable, k, at)
         /\ Sweep(cooldownTable, at)[k] = cooldownTable[k]
<1>1. cooldownTable[k] # None /\ cooldownTable[k] \in Entries
  BY DEF Frozen, Live, TypeOK, Tables
<1>2. at \in Nat /\ at <= now /\ now \in Nat
  BY DEF Readings, TypeOK
<1>3. Live(cooldownTable, k, at)
  BY <1>1, <1>2 DEF Frozen, Live, Entries
<1>. QED
  BY <1>1, <1>3 DEF Sweep

(* When the next entry to end, as a lagging reading sees the table, is     *)
(* live at the clock, all of what the reading sees is.                     *)
LEMMA EvictedFrozen ==
  ASSUME TypeOK, NEW k \in Keys, Frozen(cooldownTable, k, now), NEW at \in Readings,
         k \in Oldest(Sweep(cooldownTable, at))
  PROVE  Sweep(cooldownTable, now) = Sweep(cooldownTable, at)
<1>1. /\ cooldownTable \in Tables /\ cooldownTable[k] \in Entries
      /\ cooldownTable[k].until > now
      /\ Sweep(cooldownTable, at)[k] = cooldownTable[k]
      /\ at \in Nat /\ at <= now /\ now \in Nat
  BY FrozenIsLive DEF TypeOK, Frozen, Live, Readings
<1>2. ASSUME NEW j \in Keys PROVE Live(cooldownTable, j, now) <=> Live(cooldownTable, j, at)
  <2>1. CASE cooldownTable[j] = None
    BY <2>1 DEF Live
  <2>2. CASE cooldownTable[j] # None
    <3>1. cooldownTable[j] \in Entries
      BY <1>1, <2>2 DEF Tables
    <3>2. Live(cooldownTable, j, at) => cooldownTable[k].until <= cooldownTable[j].until
      <4>1. ASSUME Live(cooldownTable, j, at)
            PROVE  j \in Present(Sweep(cooldownTable, at))
                   /\ Sweep(cooldownTable, at)[j] = cooldownTable[j]
        BY <2>2, <4>1 DEF Present, Sweep
      <4>. QED
        BY <1>1, <4>1 DEF Oldest
    <3>. QED
      BY <1>1, <3>1, <3>2 DEF Live, Entries
  <2>. QED
    BY <2>1, <2>2
<1>. QED
  BY <1>2 DEF Sweep

(* A failure that makes a frozen key go has evicted it, from a full table. *)
LEMMA MarkEvicts ==
  ASSUME TypeOK, NEW a \in Auths, NEW m \in ModelNames,
         NEW reason \in {"rate_limit", "upstream_error"}, MarkFailure(a, m, reason),
         NEW k \in Keys, Frozen(cooldownTable, k, now), cooldownTable'[k] = None
  PROVE  LET live == Sweep(cooldownTable, now)
         IN  /\ Full(live) /\ k \in Oldest(live)
             /\ \E j \in Present(cooldownTable') :
                  cooldownTable'[j].reason \notin QuotaReasons
<1>1. PICK at \in Readings :
        cooldownTable' \in MarkModelCooldown(cooldownTable, a, m, reason, at)
  BY DEF MarkFailure
<1>. DEFINE s == Sweep(cooldownTable, at)
            e == FailureEntry(reason, at)
            j == <<a, m>>
<1>2. /\ cooldownTable \in Tables /\ at \in Nat /\ s \in Tables /\ j \in Keys
      /\ cooldownTable[k] # None /\ s[k] = cooldownTable[k]
  <2>1. cooldownTable \in Tables /\ at \in Nat /\ j \in Keys
    BY DEF TypeOK, Readings, Keys
  <2>2. cooldownTable[k] # None /\ s[k] = cooldownTable[k]
    BY FrozenIsLive
  <2>. QED
    BY <2>1, <2>2, SweepTable
<1>3. e \in Entries /\ e # None /\ e.reason \notin QuotaReasons
  BY <1>2, FailureEntryType, NoneAssumption DEF FailureEntry, QuotaReasons, ModelQuotaReasons
<1>4. \/ cooldownTable' \in {cooldownTable, s}
      \/ cooldownTable' = [s EXCEPT ![j] = e]
      \/ /\ Full(s)
         /\ \E v \in Oldest(s) : cooldownTable' = [s EXCEPT ![v] = None, ![j] = e]
  BY <1>1, <1>2, MarkShape
<1>. HIDE DEF s, e, j
<1>5. PICK v \in Oldest(s) : Full(s) /\ cooldownTable' = [s EXCEPT ![v] = None, ![j] = e]
  BY <1>2, <1>3, <1>4 DEF Tables
<1>6. v \in Keys /\ j # k /\ v = k
  BY <1>2, <1>3, <1>5 DEF Tables, Oldest, Present
<1>7. s = Sweep(cooldownTable, now)
  BY <1>5, <1>6, EvictedFrozen DEF s
<1>8. cooldownTable'[j] = e /\ j \in Present(cooldownTable')
  BY <1>2, <1>3, <1>5 DEF Tables, Present
<1>. QED
  BY <1>3, <1>5, <1>6, <1>7, <1>8

(* A live freeze ends early only by a manual clear, by a balance read      *)
(* begun since, or by eviction from a full table, as the next to end, for  *)
(* any lag between a caller's clock and the mutex.                         *)
THEOREM RecoveryNeeded == Spec => OnlyRecoveryLifts
<1>1. TypeOK /\ [Next]_vars => RecoveryStep
  <2>. SUFFICES ASSUME TypeOK, [Next]_vars, NEW k \in Keys,
                       Frozen(cooldownTable, k, now), cooldownTable'[k] = None
                PROVE  \/ \E m \in ModelNames :
                            cooldownTable' = ClearModelCooldown(cooldownTable, k[1], m)
                       \/ /\ cooldownTable[k].reason = "shared_credit_exhausted"
                          /\ billingRead[k[1]] # None
                          /\ billingRead[k[1]] >= cooldownTable[k].updatedAt
                          /\ cooldownTable' = [cooldownTable EXCEPT ![k] = None]
                       \/ LET live == Sweep(cooldownTable, now)
                          IN  /\ Full(live) /\ k \in Oldest(live)
                              /\ \E j \in Present(cooldownTable') :
                                   cooldownTable'[j].reason \notin QuotaReasons
    BY DEF RecoveryStep
  <2>1. /\ cooldownTable \in Tables /\ cooldownTable[k] # None
        /\ \A at \in Readings : Live(cooldownTable, k, at)
    BY FrozenIsLive DEF TypeOK, Frozen, Live
  <2>2. ASSUME NEW a \in Auths, NEW m \in ModelNames,
               NEW reason \in {"rate_limit", "upstream_error"}, MarkFailure(a, m, reason)
        PROVE  LET live == Sweep(cooldownTable, now)
               IN  /\ Full(live) /\ k \in Oldest(live)
                   /\ \E j \in Present(cooldownTable') :
                        cooldownTable'[j].reason \notin QuotaReasons
    BY <2>2, MarkEvicts
  <2>3. ASSUME NEW a \in Auths, NEW m \in ModelNames, RecordHint(a, m) PROVE FALSE
    <3>1. PICK at \in Readings, hint \in Hints :
            cooldownTable' = RecordCooldownHint(cooldownTable, a, m, hint, at)
      BY <2>3 DEF RecordHint
    <3>2. at \in Nat /\ hint \in Nat /\ cooldownTable' \in Tables
      BY <2>1, <3>1, ClockAssumption, HintTable DEF Readings, TypeOK
    <3>3. CASE cooldownTable' = cooldownTable
      BY <2>1, <3>3
    <3>4. CASE /\ cooldownTable[<<a, m>>] # None
               /\ cooldownTable' = [cooldownTable EXCEPT ![<<a, m>>].until = hint,
                                                        ![<<a, m>>].hint = hint]
      <4>1. CASE k # <<a, m>>
        BY <2>1, <3>4, <4>1 DEF Tables
      <4>2. CASE k = <<a, m>>
        <5>1. cooldownTable'[k] = [cooldownTable[k] EXCEPT !.until = hint, !.hint = hint]
          BY <2>1, <3>4, <4>2 DEF Tables
        <5>2. cooldownTable[k] \in Entries
          BY <2>1 DEF Tables
        <5>3. cooldownTable'[k] \in Entries
          BY <3>2, <5>1, <5>2 DEF Entries
        <5>. QED
          BY <5>3, NoneAssumption
      <4>. QED
        BY <4>1, <4>2
    <3>. QED
      BY <3>1, <3>3, <3>4 DEF RecordCooldownHint
  <2>4. ASSUME NEW a \in Auths, NEW m \in ModelNames, NEW reason \in QuotaReasons,
               RecordQuota(a, m, reason)
        PROVE  FALSE
    <3>1. PICK at \in Readings, hint \in Hints :
            cooldownTable' = RecordQuotaObservation(cooldownTable, a, m, reason, hint, at)
      BY <2>4 DEF RecordQuota
    <3>. DEFINE s == Sweep(cooldownTable, at)
                e == QuotaEntry(reason, hint, at)
                j == QuotaKey(a, m, reason)
    <3>2. /\ at \in Nat /\ hint \in Nat /\ e # None /\ s \in Tables
          /\ s[k] = cooldownTable[k]
      <4>1. at \in Nat /\ hint \in Nat
        BY ClockAssumption DEF Readings, TypeOK
      <4>2. e # None
        BY <4>1, QuotaEntryType, NoneAssumption
      <4>3. s[k] = cooldownTable[k]
        BY FrozenIsLive
      <4>. QED
        BY <2>1, <4>1, <4>2, <4>3, SweepTable
    <3>3. cooldownTable' \in {cooldownTable, s, [s EXCEPT ![j] = e]}
      BY <3>1 DEF RecordQuotaObservation
    <3>. HIDE DEF s, e, j
    <3>. QED
      BY <2>1, <3>2, <3>3 DEF Tables
  <2>5. ASSUME NEW a \in Auths, BillingPositive(a)
        PROVE  /\ cooldownTable[k].reason = "shared_credit_exhausted"
               /\ billingRead[k[1]] # None
               /\ billingRead[k[1]] >= cooldownTable[k].updatedAt
               /\ cooldownTable' = [cooldownTable EXCEPT ![k] = None]
    <3>1. k = <<a, Shared>>
      BY <2>1, <2>5 DEF BillingPositive, ObservePositiveCredits, Tables
    <3>. QED
      BY <2>1, <2>5, <3>1 DEF BillingPositive, ObservePositiveCredits
  <2>6. ASSUME NEW a \in Auths, NEW m \in ModelNames, Clear(a, m)
        PROVE  cooldownTable' = ClearModelCooldown(cooldownTable, k[1], m)
    <3>1. k[1] = a
      BY <2>1, <2>6 DEF Clear, ClearModelCooldown
    <3>. QED
      BY <2>6, <3>1 DEF Clear
  <2>7. ASSUME NEW a \in Auths, NEW m \in ModelNames, ListModels(a) \/ Guard(a, m) PROVE FALSE
    BY <2>1, <2>7 DEF ListModels, Guard, PruneAccount, PruneGuard
  <2>8. CASE UNCHANGED cooldownTable
    BY <2>1, <2>8
  <2>9. Shared \in ModelNames
    BY DEF ModelNames
  <2>. QED
    BY <2>2, <2>3, <2>4, <2>5, <2>6, <2>7, <2>8, <2>9
    DEF Next, Failure, vars, Tick, BillingStart, BillingOther
<1>. QED
  BY <1>1, Typing, PTL DEF Spec, OnlyRecoveryLifts

-----------------------------------------------------------------------------
(* The capacity bound.                                                     *)

(* Adding one element adds at most one.                                    *)
LEMMA AddBound ==
  ASSUME NEW S, IsFiniteSet(S), NEW k, NEW U, U \subseteq S \cup {k}
  PROVE  /\ IsFiniteSet(U)
         /\ Cardinality(U) \in Nat
         /\ Cardinality(S) \in Nat
         /\ Cardinality(U) <= Cardinality(S) + 1
<1>1. Cardinality(S) \in Nat
  BY FS_CardinalityType
<1>2. /\ IsFiniteSet(S \cup {k})
      /\ Cardinality(S \cup {k}) \in {Cardinality(S), Cardinality(S) + 1}
  <2>1. CASE k \in S
    <3>1. S \cup {k} = S
      BY <2>1
    <3>. QED
      BY <3>1
  <2>2. CASE k \notin S
    BY <2>2, FS_AddElement
  <2>. QED
    BY <2>1, <2>2
<1>3. /\ IsFiniteSet(U)
      /\ Cardinality(U) <= Cardinality(S \cup {k})
  BY <1>2, FS_Subset
<1>4. Cardinality(U) \in Nat
  BY <1>3, FS_CardinalityType
<1>. QED
  BY <1>1, <1>2, <1>3, <1>4

(* The entries of a table are finitely many; deleting some leaves fewer.   *)
LEMMA PresentFinite ==
  ASSUME NEW t \in Tables
  PROVE  IsFiniteSet(Present(t)) /\ Cardinality(Present(t)) \in Nat
<1>1. Present(t) \subseteq Keys
  BY DEF Present
<1>. QED
  BY <1>1, KeysFinite, FS_Subset, FS_CardinalityType

LEMMA FewerEntries ==
  ASSUME NEW t \in Tables, NEW u \in Tables, Present(u) \subseteq Present(t)
  PROVE  Cardinality(Present(u)) <= Cardinality(Present(t))
BY PresentFinite, FS_Subset

(* A table that was not full, with one key entered, is within the cap.     *)
LEMMA PutBound ==
  ASSUME NEW s \in Tables, NEW u \in Tables, NEW k \in Keys, ~Full(s),
         Present(u) \subseteq Present(s) \cup {k}
  PROVE  Cardinality(Present(u)) <= MaxEntries
<1>1. /\ Cardinality(Present(u)) \in Nat
      /\ Cardinality(Present(s)) \in Nat
      /\ Cardinality(Present(u)) <= Cardinality(Present(s)) + 1
  BY PresentFinite, AddBound
<1>2. MaxEntries \in Nat /\ Cardinality(Present(s)) < MaxEntries
  BY <1>1, CooldownAssumption DEF Full
<1>. QED
  BY <1>1, <1>2

(* Evicting one entry makes room for one.                                  *)
LEMMA SwapBound ==
  ASSUME NEW s \in Tables, NEW u \in Tables, NEW v \in Present(s), NEW k \in Keys,
         Present(u) \subseteq (Present(s) \ {v}) \cup {k}
  PROVE  Cardinality(Present(u)) <= Cardinality(Present(s))
<1> DEFINE S == Present(s)
           R == Present(s) \ {v}
<1>1. IsFiniteSet(S) /\ Cardinality(S) \in Nat
  BY PresentFinite
<1>2. IsFiniteSet(R) /\ Cardinality(R) = Cardinality(S) - 1
  BY <1>1, FS_RemoveElement
<1>3. Cardinality(Present(u)) <= Cardinality(R) + 1
  BY <1>2, AddBound
<1>4. Cardinality(Present(u)) \in Nat
  BY PresentFinite
<1>. QED
  BY <1>1, <1>2, <1>3, <1>4

(* A failure keeps the table within its cap.                               *)
LEMMA MarkBound ==
  ASSUME TypeOK, Bounded, NEW a \in Auths, NEW m \in ModelNames,
         NEW reason \in {"rate_limit", "upstream_error"},
         MarkFailure(a, m, reason)
  PROVE  Bounded'
<1>1. PICK at \in Readings :
        cooldownTable' \in MarkModelCooldown(cooldownTable, a, m, reason, at)
  BY DEF MarkFailure
<1>2. at \in Nat
  BY DEF Readings, TypeOK
<1>3. cooldownTable \in Tables /\ cooldownTable' \in Tables
  BY <1>1, <1>2, MarkTable DEF TypeOK
<1> DEFINE t == cooldownTable
           u == cooldownTable'
           s == Sweep(cooldownTable, at)
           e == FailureEntry(reason, at)
           j == <<a, m>>
<1>4. s \in Tables /\ Present(s) \subseteq Present(t)
  BY <1>2, <1>3, SweepTable DEF Present, Live
<1>5. j \in Keys
  BY DEF Keys
<1>6. /\ Cardinality(Present(t)) \in Nat /\ Cardinality(Present(s)) \in Nat
      /\ Cardinality(Present(u)) \in Nat
      /\ Cardinality(Present(s)) <= Cardinality(Present(t))
      /\ Cardinality(Present(t)) <= MaxEntries
      /\ MaxEntries \in Nat
  BY <1>3, <1>4, FewerEntries, PresentFinite, CooldownAssumption DEF Bounded
<1>7. CASE u \in {t, s}
  BY <1>6, <1>7 DEF Bounded
<1>8. CASE ~Full(s) /\ u = [s EXCEPT ![j] = e]
  <2>1. Present(u) \subseteq Present(s) \cup {j}
    BY <1>3, <1>4, <1>8 DEF Present, Tables
  <2>. QED
    BY <1>3, <1>4, <1>5, <1>8, <2>1, PutBound DEF Bounded
<1>9. ASSUME NEW v \in Oldest(s), u = [s EXCEPT ![v] = None, ![j] = e]
      PROVE  Bounded'
  <2>1. v \in Present(s)
    BY DEF Oldest
  <2>2. Present(u) \subseteq (Present(s) \ {v}) \cup {j}
    BY <1>3, <1>4, <1>9 DEF Present, Tables
  <2>3. Cardinality(Present(u)) <= Cardinality(Present(s))
    BY <1>3, <1>4, <1>5, <2>1, <2>2, SwapBound
  <2>. QED
    BY <1>6, <2>3 DEF Bounded
<1>. QED
  BY <1>1, <1>2, <1>3, <1>7, <1>8, <1>9, MarkShape

(* So does a quota refusal.                                                *)
LEMMA QuotaBound ==
  ASSUME TypeOK, Bounded, NEW a \in Auths, NEW m \in ModelNames,
         NEW reason \in QuotaReasons, RecordQuota(a, m, reason)
  PROVE  Bounded'
<1>1. PICK at \in Readings, hint \in Hints :
        cooldownTable' = RecordQuotaObservation(cooldownTable, a, m, reason, hint, at)
  BY DEF RecordQuota
<1>2. at \in Nat /\ hint \in Nat
  BY ClockAssumption DEF Readings, TypeOK
<1>3. cooldownTable \in Tables /\ cooldownTable' \in Tables
  BY <1>1, <1>2, QuotaTable DEF TypeOK
<1> DEFINE t == cooldownTable
           u == cooldownTable'
           s == Sweep(cooldownTable, at)
           j == QuotaKey(a, m, reason)
<1>4. s \in Tables /\ Present(s) \subseteq Present(t)
  BY <1>2, <1>3, SweepTable DEF Present, Live
<1>5. j \in Keys
  BY DEF QuotaKey, Keys, ModelNames
<1>6. /\ Cardinality(Present(t)) \in Nat /\ Cardinality(Present(s)) \in Nat
      /\ Cardinality(Present(s)) <= Cardinality(Present(t))
      /\ Cardinality(Present(t)) <= MaxEntries
      /\ MaxEntries \in Nat
  BY <1>3, <1>4, FewerEntries, PresentFinite, CooldownAssumption DEF Bounded
<1>7. CASE u \in {t, s}
  BY <1>6, <1>7 DEF Bounded
<1>8. CASE ~Full(s) /\ u = [s EXCEPT ![j] = QuotaEntry(reason, hint, at)]
  <2>1. Present(u) \subseteq Present(s) \cup {j}
    BY <1>3, <1>4, <1>8 DEF Present, Tables
  <2>. QED
    BY <1>3, <1>4, <1>5, <1>8, <2>1, PutBound DEF Bounded
<1>. QED
  BY <1>1, <1>7, <1>8 DEF RecordQuotaObservation

(* The table never holds more than MaxEntries entries, however many        *)
(* accounts, models and failures there are.                                *)
THEOREM TableBounded == Spec => []Bounded
<1>1. Init => Bounded
  <2> SUFFICES ASSUME Init
               PROVE  Bounded
    OBVIOUS
  <2>1. Present(cooldownTable) = {}
    BY DEF Init, Present, EmptyTable
  <2>. QED
    BY <2>1, FS_EmptySet, CooldownAssumption DEF Bounded
<1>2. TypeOK /\ TypeOK' /\ Bounded /\ [Next]_vars => Bounded'
  <2> SUFFICES ASSUME TypeOK, TypeOK', Bounded, [Next]_vars
               PROVE  Bounded'
    OBVIOUS
  <2>1. CASE Present(cooldownTable') \subseteq Present(cooldownTable)
    BY <2>1, FewerEntries, PresentFinite, CooldownAssumption DEF Bounded, TypeOK
  <2>2. ASSUME NEW a \in Auths, NEW m \in ModelNames, Failure(a, m)
        PROVE  Bounded'
    <3>1. CASE RecordHint(a, m)
      <4>1. Present(cooldownTable') \subseteq Present(cooldownTable)
        BY <3>1 DEF RecordHint, RecordCooldownHint, Present, TypeOK, Tables
      <4>. QED
        BY <2>1, <4>1
    <3>. QED
      BY <2>2, <3>1, MarkBound, QuotaBound DEF Failure
  <2>3. ASSUME NEW a \in Auths, BillingPositive(a)
        PROVE  Bounded'
    <3>1. Present(cooldownTable') \subseteq Present(cooldownTable)
      BY <2>3 DEF BillingPositive, ObservePositiveCredits, Present, TypeOK, Tables
    <3>. QED
      BY <2>1, <3>1
  <2>4. ASSUME NEW a \in Auths, ListModels(a)
        PROVE  Bounded'
    <3>1. Present(cooldownTable') \subseteq Present(cooldownTable)
      BY <2>4 DEF ListModels, PruneAccount, Present
    <3>. QED
      BY <2>1, <3>1
  <2>5. ASSUME NEW a \in Auths, NEW m \in ModelNames, Clear(a, m) \/ Guard(a, m)
        PROVE  Bounded'
    <3>1. Present(cooldownTable') \subseteq Present(cooldownTable)
      BY <2>5 DEF Clear, ClearModelCooldown, Guard, PruneGuard, Present
    <3>. QED
      BY <2>1, <3>1
  <2>6. CASE UNCHANGED cooldownTable
    BY <2>1, <2>6 DEF Present
  <2>. QED
    BY <2>2, <2>3, <2>4, <2>5, <2>6
    DEF Next, vars, Tick, BillingStart, BillingOther
<1>. QED
  BY <1>1, <1>2, Typing, PTL DEF Spec

-----------------------------------------------------------------------------
(* The calls.                                                              *)

Phases == {"idle", "jar", "handshake", "answering", "cookies", "session",
           "building", "ready", "waiting"}
Sendings == {"handshake", "request"} \X {"proxy", "host", "direct"}
Tokens == Files \X Nat

CallStates == [phase : Phases, token : Tokens \cup {Missing},
               cookies : Files \cup {Missing}, signed : Tokens \cup {Missing},
               sent : Seq(Sendings)]

CallsTyped ==
  /\ account \in [Files -> [uid : Uids \cup {NoUid}, region : Regions]]
  /\ token \in [Files -> Nat]
  /\ jar \in [JarKeys -> [bootstrapped : BOOLEAN, cookies : Files \cup {Missing}]]
  /\ call \in [CallSlots -> CallStates]
  /\ handshakes \in [JarKeys -> Nat]

(* No purpose of sending occurs twice, or at all. *)
Once(s) == \A i, j \in DOMAIN s : s[i][1] = s[j][1] => i = j
Never(s, purpose) == \A i \in DOMAIN s : s[i][1] # purpose

(* What a call may carry, and may have sent, where it stands. *)
Sound(q) ==
  /\ q.phase # "idle" => q.token \in Tokens
  /\ q.phase = "idle" => q.cookies = Missing
  /\ q.signed \in {Missing, q.token}
  /\ q.cookies # Missing => JarKey(q.cookies) = JarKey(q.token[1])
  /\ Once(q.sent)
  /\ q.phase # "waiting" => Never(q.sent, "request")
  /\ q.phase \notin {"answering", "cookies", "ready", "waiting"} =>
       Never(q.sent, "handshake")

CallsSound == \A c \in CallSlots : Sound(call[c])

(* Cookies lie in the jar of the account that fetched them. *)
JarsOwn == \A k \in JarKeys : jar[k].cookies # Missing => JarKey(jar[k].cookies) = k

(* The mark of a jar stands for the one call that may ask: before it there   *)
(* was no handshake, and after it there is none while that call is about to. *)
AsksFor(c, k) == At(c, "handshake") /\ JarKey(FileOf(c)) = k
MarkedOnce ==
  \A k \in JarKeys :
    /\ handshakes[k] <= 1
    /\ ~jar[k].bootstrapped => handshakes[k] = 0
    /\ \A c \in CallSlots : AsksFor(c, k) => jar[k].bootstrapped /\ handshakes[k] = 0
    /\ \A c, d \in CallSlots : AsksFor(c, k) /\ AsksFor(d, k) => c = d

CallsInv == CallsTyped /\ CallsSound /\ JarsOwn /\ MarkedOnce

-----------------------------------------------------------------------------
(* A key names one account. *)
LEMMA KeyOfAccount ==
  ASSUME CallsTyped, NEW f \in Files
  PROVE  JarKey(f) \in JarKeys
BY DEF CallsTyped, JarKey, JarKeys, Regions

(* Files of one key are of one account. *)
LEMMA KeyTellsAccount ==
  ASSUME CallsTyped, NEW f \in Files, NEW g \in Files, JarKey(f) = JarKey(g)
  PROVE  SameAccount(f, g)
<1>1. /\ account[f] \in [uid : Uids \cup {NoUid}, region : Regions]
      /\ account[g] \in [uid : Uids \cup {NoUid}, region : Regions]
  BY DEF CallsTyped
<1>2. account[f].uid = account[g].uid /\ account[f].region = account[g].region
  BY DEF JarKey
<1>. QED
  BY <1>1, <1>2 DEF SameAccount

(* Sending for a purpose not sent for before leaves each sent for once. *)
LEMMA SendOnce ==
  ASSUME NEW s \in Seq(Sendings), NEW e \in Sendings, Once(s), Never(s, e[1])
  PROVE  /\ Append(s, e) \in Seq(Sendings)
         /\ Once(Append(s, e))
         /\ \A p : p # e[1] /\ Never(s, p) => Never(Append(s, e), p)
<1>1. /\ Append(s, e) \in Seq(Sendings)
      /\ DOMAIN Append(s, e) = DOMAIN s \cup {Len(s) + 1}
      /\ Append(s, e)[Len(s) + 1] = e
      /\ \A i \in DOMAIN s : Append(s, e)[i] = s[i] /\ i # Len(s) + 1
  OBVIOUS
<1>. QED
  BY <1>1 DEF Once, Never

(* The route read when a request leaves is one of three ways. *)
LEMMA WayType ==
  ASSUME NEW purpose \in {"handshake", "request"}
  PROVE  <<purpose, Way>> \in Sendings
BY DEF Way, Sendings

(* A goroutine that makes no call carries nothing. *)
LEMMA IdleSound == NoCall \in CallStates /\ Sound(NoCall)
BY DEF NoCall, CallStates, Phases, Sound, Once, Never

(* A request or handshake that leaves is the first of its kind. *)
LEMMA LeavesSound ==
  ASSUME NEW c \in CallSlots, call \in [CallSlots -> CallStates],
         NEW purpose \in {"handshake", "request"}, NEW stage \in Phases,
         Leaves(c, purpose, stage),
         Sound(call[c]), call[c].phase # "idle", Never(call[c].sent, purpose),
         stage # "idle",
         stage # "waiting" => purpose = "handshake" /\ call[c].phase # "waiting",
         stage \in {"answering", "cookies", "ready", "waiting"}
  PROVE  /\ call' = [call EXCEPT ![c] = call'[c]]
         /\ call'[c] \in CallStates /\ Sound(call'[c])
<1>. DEFINE e == <<purpose, Way>>
            q == call[c]
<1>1. e \in Sendings /\ e[1] = purpose /\ q \in CallStates /\ q.sent \in Seq(Sendings)
  BY WayType DEF CallStates
<1>2. call'[c] = [q EXCEPT !.sent = Append(q.sent, e), !.phase = stage]
      /\ call' = [call EXCEPT ![c] = call'[c]]
  BY DEF Leaves
<1>3. /\ Append(q.sent, e) \in Seq(Sendings) /\ Once(Append(q.sent, e))
      /\ \A p : p # purpose /\ Never(q.sent, p) => Never(Append(q.sent, e), p)
  BY <1>1, SendOnce DEF Sound
<1>4. stage # "waiting" => Never(Append(q.sent, e), "request")
  BY <1>3 DEF Sound
<1>. HIDE DEF e
<1>5. call'[c] \in CallStates
  BY <1>1, <1>2, <1>3 DEF CallStates
<1>6. Sound(call'[c])
  BY <1>1, <1>2, <1>3, <1>4 DEF CallStates, Sound
<1>. QED
  BY <1>2, <1>5, <1>6

(* A step of one call keeps it sound, and the accounts as they are. *)
LEMMA StepSound ==
  ASSUME CallsInv, NEW c \in CallSlots, CallStep(c)
  PROVE  /\ account' = account /\ token' = token
         /\ call' = [call EXCEPT ![c] = call'[c]]
         /\ call'[c] \in CallStates /\ Sound(call'[c])
<1>. DEFINE q == call[c]
            Goal == /\ account' = account /\ token' = token
                    /\ call' = [call EXCEPT ![c] = call'[c]]
                    /\ call'[c] \in CallStates /\ Sound(call'[c])
<1>. USE DEF At
<1>. /\ q \in CallStates /\ Sound(q) /\ call \in [CallSlots -> CallStates]
     /\ token \in [Files -> Nat]
  BY DEF CallsInv, CallsTyped, CallsSound
<1>1. ASSUME NEW f \in Files, NEW stage \in {"jar", "session"}, BeginCall(c, f, stage)
      PROVE  Goal
  <2>1. PICK n \in {token[f] - 1, token[f]} \cap Nat :
          call' = [call EXCEPT ![c] = [NoCall EXCEPT !.phase = stage, !.token = <<f, n>>]]
    BY <1>1 DEF BeginCall
  <2>2. <<f, n>> \in Tokens
    BY DEF Tokens
  <2>3. call'[c] \in CallStates /\ Sound(call'[c])
    BY <2>1, <2>2, IdleSound DEF NoCall, CallStates, Phases, Sound
  <2>. QED
    BY <1>1, <2>1, <2>3 DEF BeginCall
<1>2. CASE Bootstrap(c)
  BY <1>2 DEF Bootstrap, Goes, CallStates, Phases, Sound
<1>3. CASE Handshake(c)
  <2>1. q.phase = "handshake" /\ Never(q.sent, "handshake") /\ Never(q.sent, "request")
    BY <1>3 DEF Handshake, Sound
  <2>2. CASE Leaves(c, "handshake", "answering")
    BY <1>3, <2>1, <2>2, LeavesSound DEF Handshake, Phases
  <2>3. CASE Goes(c, "cookies")
    BY <1>3, <2>1, <2>3 DEF Handshake, Goes, CallStates, Phases, Sound
  <2>. QED
    BY <1>3, <2>2, <2>3 DEF Handshake
<1>4. CASE HandshakeAnswer(c)
  BY <1>4 DEF HandshakeAnswer, Goes, CallStates, Phases, Sound
<1>5. CASE TakeCookies(c)
  <2>1. q.phase = "cookies" /\ FileOf(c) = q.token[1] /\ FileOf(c) \in Files
    BY <1>5 DEF TakeCookies, FileOf, Sound, Tokens
  <2>2. LET k == JarKey(FileOf(c))
        IN  /\ jar[k].cookies \in Files \cup {Missing}
            /\ jar[k].cookies # Missing => JarKey(jar[k].cookies) = k
    BY <2>1, KeyOfAccount DEF CallsInv, CallsTyped, JarsOwn
  <2>. HIDE DEF q
  <2>3. call'[c] = [call[c] EXCEPT !.cookies = jar[JarKey(FileOf(c))].cookies, !.phase = "ready"]
        /\ call' = [call EXCEPT ![c] = call'[c]]
        /\ account' = account /\ token' = token
    BY <1>5 DEF TakeCookies
  <2>4. call'[c] \in CallStates
    BY <2>2, <2>3 DEF CallStates, Phases, q
  <2>5. Sound(call'[c])
    BY <2>1, <2>2, <2>3 DEF CallStates, Sound, q
  <2>. QED
    BY <2>3, <2>4, <2>5
<1>6. CASE CosySession(c)
  <2>1. \/ call' = [call EXCEPT ![c].signed = q.token, ![c].phase = "ready"]
        \/ call' = [call EXCEPT ![c].phase = "building"]
    BY <1>6 DEF CosySession, Serves, Goes
  <2>2. q.phase = "session" /\ account' = account /\ token' = token
    BY <1>6 DEF CosySession
  <2>3. CASE call' = [call EXCEPT ![c].signed = q.token, ![c].phase = "ready"]
    BY <2>2, <2>3 DEF CallStates, Phases, Sound
  <2>4. CASE call' = [call EXCEPT ![c].phase = "building"]
    BY <2>2, <2>4 DEF CallStates, Phases, Sound
  <2>. QED
    BY <2>1, <2>3, <2>4
<1>7. CASE BuildSession(c)
  BY <1>7 DEF BuildSession, CallStates, Phases, Sound
<1>8. CASE BuildFails(c) \/ Conclude(c)
  BY <1>8, IdleSound DEF BuildFails, Conclude
<1>9. CASE Depart(c)
  <2>1. q.phase = "ready" /\ Never(q.sent, "request")
    BY <1>9 DEF Depart, Sound
  <2>2. CASE Leaves(c, "request", "waiting")
    BY <1>9, <2>1, <2>2, LeavesSound DEF Depart, Phases
  <2>3. CASE call' = [call EXCEPT ![c] = NoCall]
    BY <1>9, <2>3, IdleSound DEF Depart
  <2>. QED
    BY <1>9, <2>2, <2>3 DEF Depart
<1>. QED
  BY <1>1, <1>2, <1>3, <1>4, <1>5, <1>6, <1>7, <1>8, <1>9 DEF CallStep

(* What one step of a call does to the jars and the count of handshakes: it  *)
(* marks a jar, sends the handshake it had to send, lays cookies in its own  *)
(* jar, or none of these; and only a call that marks a jar comes to ask.     *)
Marks(c) ==
  LET k == JarKey(FileOf(c))
  IN  /\ ~jar[k].bootstrapped
      /\ jar' = [jar EXCEPT ![k].bootstrapped = TRUE]
      /\ handshakes' = handshakes

Sends(c) ==
  /\ At(c, "handshake") /\ call'[c].phase # "handshake"
  /\ jar' = jar
  /\ handshakes' = [handshakes EXCEPT ![JarKey(FileOf(c))] = @ + 1]

Fills(c) ==
  /\ jar' = [jar EXCEPT ![JarKey(FileOf(c))].cookies = FileOf(c)]
  /\ handshakes' = handshakes
  /\ call'[c].phase # "handshake"

Spares(c) ==
  jar' = jar /\ handshakes' = handshakes /\ call'[c].phase # "handshake"

(* A step of a call is one of the four. *)
LEMMA StepMarks ==
  ASSUME CallsInv, NEW c \in CallSlots, CallStep(c)
  PROVE  /\ \/ /\ Marks(c) /\ FileOf(c) \in Files
               /\ call' = [call EXCEPT ![c].phase = "handshake"]
            \/ Sends(c) /\ FileOf(c) \in Files
            \/ Fills(c) /\ FileOf(c) \in Files
            \/ Spares(c)
<1>. DEFINE q == call[c]
            Goal == \/ /\ Marks(c) /\ FileOf(c) \in Files
                       /\ call' = [call EXCEPT ![c].phase = "handshake"]
                    \/ Sends(c) /\ FileOf(c) \in Files
                    \/ Fills(c) /\ FileOf(c) \in Files
                    \/ Spares(c)
<1>. USE DEF At
<1>1. q \in CallStates /\ call \in [CallSlots -> CallStates]
  BY DEF CallsInv, CallsTyped
<1>2. q.phase # "idle" => FileOf(c) \in Files /\ JarKey(FileOf(c)) \in JarKeys
  <2>1. q.phase # "idle" => FileOf(c) \in Files
    BY DEF CallsInv, CallsSound, Sound, Tokens, FileOf
  <2>. QED
    BY <2>1, KeyOfAccount DEF CallsInv
<1>3. ASSUME NEW f \in Files, NEW stage \in {"jar", "session"}, BeginCall(c, f, stage)
      PROVE  Goal
  <2>1. PICK t : call' = [call EXCEPT ![c] = [NoCall EXCEPT !.phase = stage, !.token = t]]
    BY <1>3 DEF BeginCall
  <2>2. call'[c].phase = stage
    BY <1>1, <2>1 DEF NoCall
  <2>. QED
    BY <1>3, <2>2 DEF BeginCall, Spares
<1>4. CASE Bootstrap(c)
  <2>. DEFINE k == JarKey(FileOf(c))
  <2>1. jar \in [JarKeys -> [bootstrapped : BOOLEAN, cookies : Files \cup {Missing}]]
    BY DEF CallsInv, CallsTyped
  <2>2. k \in JarKeys /\ FileOf(c) \in Files
    BY <1>2, <1>4 DEF Bootstrap
  <2>3. CASE jar[k].bootstrapped
    <3>1. jar' = jar
      BY <1>4, <2>1, <2>2, <2>3 DEF Bootstrap
    <3>2. call'[c].phase = "cookies"
      BY <1>1, <1>4, <2>3 DEF Bootstrap, Goes, CallStates
    <3>. QED
      BY <1>4, <3>1, <3>2 DEF Bootstrap, Spares
  <2>4. CASE ~jar[k].bootstrapped
    BY <1>4, <2>2, <2>4 DEF Bootstrap, Goes, Marks
  <2>. QED
    BY <2>3, <2>4
<1>5. CASE Handshake(c)
  <2>1. CASE Leaves(c, "handshake", "answering")
    <3>1. call'[c].phase = "answering"
      BY <1>1, <2>1 DEF Leaves, CallStates
    <3>. QED
      BY <1>2, <1>5, <2>1, <3>1 DEF Handshake, Sends, Spares
  <2>2. CASE Goes(c, "cookies")
    <3>1. call'[c].phase = "cookies"
      BY <1>1, <2>2 DEF Goes, CallStates
    <3>. QED
      BY <1>2, <1>5, <3>1 DEF Handshake, Sends, Spares
  <2>. QED
    BY <1>5, <2>1, <2>2 DEF Handshake
<1>6. CASE HandshakeAnswer(c)
  <2>1. call'[c].phase = "cookies"
    BY <1>1, <1>6 DEF HandshakeAnswer, Goes, CallStates
  <2>. QED
    BY <1>2, <1>6, <2>1 DEF HandshakeAnswer, Fills, Spares
<1>7. CASE TakeCookies(c)
  BY <1>1, <1>7 DEF TakeCookies, Spares, CallStates
<1>8. CASE CosySession(c)
  BY <1>1, <1>8 DEF CosySession, Goes, Spares, CallStates
<1>9. CASE BuildSession(c)
  BY <1>1, <1>9 DEF BuildSession, Spares, CallStates
<1>10. CASE BuildFails(c) \/ Conclude(c)
  BY <1>1, <1>10 DEF BuildFails, Conclude, NoCall, Spares
<1>11. CASE Depart(c)
  BY <1>1, <1>11 DEF Depart, Leaves, NoCall, Spares, CallStates
<1>. QED
  BY <1>3, <1>4, <1>5, <1>6, <1>7, <1>8, <1>9, <1>10, <1>11 DEF CallStep

(* Cookies are laid in the jar of the file that fetched them. *)
LEMMA StepJars ==
  ASSUME CallsInv, NEW c \in CallSlots, CallStep(c)
  PROVE  /\ jar' \in [JarKeys -> [bootstrapped : BOOLEAN, cookies : Files \cup {Missing}]]
         /\ handshakes' \in [JarKeys -> Nat]
         /\ \A k \in JarKeys : jar'[k].cookies # Missing => JarKey(jar'[k].cookies) = k
<1>. DEFINE k0 == JarKey(FileOf(c))
<1>1. /\ jar \in [JarKeys -> [bootstrapped : BOOLEAN, cookies : Files \cup {Missing}]]
      /\ handshakes \in [JarKeys -> Nat]
      /\ \A k \in JarKeys : jar[k].cookies # Missing => JarKey(jar[k].cookies) = k
      /\ FileOf(c) \in Files => k0 \in JarKeys
  BY KeyOfAccount DEF CallsInv, CallsTyped, JarsOwn
<1>. HIDE DEF k0
<1>2. CASE FileOf(c) \in Files /\ jar' = [jar EXCEPT ![k0].bootstrapped = TRUE]
           /\ handshakes' = handshakes
  BY <1>1, <1>2
<1>3. CASE FileOf(c) \in Files /\ jar' = jar
           /\ handshakes' = [handshakes EXCEPT ![k0] = @ + 1]
  BY <1>1, <1>3
<1>4. CASE FileOf(c) \in Files /\ jar' = [jar EXCEPT ![k0].cookies = FileOf(c)]
           /\ handshakes' = handshakes
  <2>1. \A k \in JarKeys : jar'[k].cookies = IF k = k0 THEN FileOf(c) ELSE jar[k].cookies
    BY <1>1, <1>4
  <2>2. JarKey(FileOf(c)) = k0
    BY DEF k0
  <2>. QED
    BY <1>1, <1>4, <2>1, <2>2
<1>5. CASE jar' = jar /\ handshakes' = handshakes
  BY <1>1, <1>5
<1>. QED
  BY StepMarks, <1>2, <1>3, <1>4, <1>5 DEF Marks, Sends, Fills, Spares, k0

(* A jar unmarked has seen no handshake; the call that marks it is the only  *)
(* one to come to ask, and stops asking in the step that sends it.           *)
LEMMA StepMarkedOnce ==
  ASSUME CallsInv, NEW c \in CallSlots, CallStep(c)
  PROVE  MarkedOnce'
<1>. DEFINE k0 == JarKey(FileOf(c))
<1>1. /\ account' = account
      /\ call' = [call EXCEPT ![c] = call'[c]]
      /\ call \in [CallSlots -> CallStates]
  BY StepSound DEF CallsInv, CallsTyped
<1>2. /\ jar \in [JarKeys -> [bootstrapped : BOOLEAN, cookies : Files \cup {Missing}]]
      /\ handshakes \in [JarKeys -> Nat]
      /\ FileOf(c) \in Files => k0 \in JarKeys
  BY KeyOfAccount DEF CallsInv, CallsTyped
\* The other calls ask as before.
<1>3. /\ \A d \in CallSlots \ {c} : \A k : AsksFor(d, k)' <=> AsksFor(d, k)
      /\ call'[c].phase # "handshake" => \A k : ~AsksFor(c, k)'
  BY <1>1 DEF AsksFor, At, FileOf, JarKey
<1>4. CASE Marks(c) /\ FileOf(c) \in Files /\ call' = [call EXCEPT ![c].phase = "handshake"]
  <2>1. \A k : AsksFor(c, k)' <=> k = k0
    BY <1>1, <1>4 DEF AsksFor, At, FileOf, JarKey, CallStates
  <2>2. ~jar[k0].bootstrapped /\ k0 \in JarKeys
    BY <1>2, <1>4 DEF Marks
  <2>3. handshakes[k0] = 0 /\ \A d \in CallSlots : ~AsksFor(d, k0)
    BY <2>2 DEF CallsInv, MarkedOnce
  <2>4. \A k \in JarKeys : jar'[k].bootstrapped = (k = k0 \/ jar[k].bootstrapped)
    BY <1>2, <1>4, <2>2 DEF Marks
  <2>. QED
    BY <1>3, <1>4, <2>1, <2>3, <2>4 DEF CallsInv, MarkedOnce, Marks
<1>5. CASE Sends(c) /\ FileOf(c) \in Files
  <2>1. AsksFor(c, k0) /\ k0 \in JarKeys
    BY <1>2, <1>5 DEF Sends, AsksFor
  <2>2. /\ handshakes[k0] = 0 /\ jar[k0].bootstrapped
        /\ \A d \in CallSlots \ {c} : ~AsksFor(d, k0)
    BY <2>1 DEF CallsInv, MarkedOnce
  <2>3. \A k \in JarKeys : handshakes'[k] = IF k = k0 THEN 1 ELSE handshakes[k]
    BY <1>2, <1>5, <2>1, <2>2 DEF Sends
  <2>. QED
    BY <1>3, <1>5, <2>2, <2>3 DEF CallsInv, MarkedOnce, Sends
<1>6. CASE (Fills(c) /\ FileOf(c) \in Files) \/ Spares(c)
  <2>1. \A k \in JarKeys : jar'[k].bootstrapped = jar[k].bootstrapped
    BY <1>2, <1>6 DEF Fills, Spares
  <2>. QED
    BY <1>3, <1>6, <2>1 DEF CallsInv, MarkedOnce, Fills, Spares
<1>. QED
  BY StepMarks, <1>4, <1>5, <1>6

-----------------------------------------------------------------------------
(* The invariant holds at the start, is kept by every step, and so always.   *)
LEMMA CallsInitially == CallsInit => CallsInv
<1>1. ASSUME CallsInit PROVE CallsInv
  <2>1. CallsTyped
    BY <1>1, IdleSound DEF CallsInit, CallsTyped
  <2>2. CallsSound
    BY <1>1, IdleSound DEF CallsInit, CallsSound
  <2>3. JarsOwn
    BY <1>1 DEF CallsInit, JarsOwn
  <2>4. MarkedOnce
    BY <1>1 DEF CallsInit, MarkedOnce, AsksFor, At, NoCall
  <2>. QED
    BY <2>1, <2>2, <2>3, <2>4 DEF CallsInv
<1>. QED
  BY <1>1

LEMMA CallsStep == CallsInv /\ [CallsNext]_callVars => CallsInv'
<1>. SUFFICES ASSUME CallsInv, [CallsNext]_callVars PROVE CallsInv'
  OBVIOUS
<1>. USE DEF CallsInv
\* What depends on these variables only is kept when they are.
<1>1. ASSUME UNCHANGED <<account, jar, call, handshakes>>, token' \in [Files -> Nat]
      PROVE  CallsInv'
  BY <1>1 DEF CallsTyped, CallsSound, Sound, JarKey, JarsOwn, MarkedOnce, AsksFor, At, FileOf
<1>2. ASSUME NEW setting \in Settings, ConfigureProxy(setting) PROVE CallsInv'
  BY <1>1, <1>2 DEF ConfigureProxy, CallsTyped
<1>3. ASSUME NEW f \in Files, RefreshToken(f) PROVE CallsInv'
  <2>1. token' \in [Files -> Nat]
    BY <1>3 DEF RefreshToken, CallsTyped
  <2>. QED
    BY <1>1, <1>3, <2>1 DEF RefreshToken
<1>4. ASSUME NEW f \in Files, InvalidateCosySession(f) PROVE CallsInv'
  BY <1>1, <1>4 DEF InvalidateCosySession, CallsTyped
<1>5. ASSUME NEW c \in CallSlots, CallStep(c) PROVE CallsInv'
  <2>1. /\ account' = account /\ token' = token
        /\ call' = [call EXCEPT ![c] = call'[c]]
        /\ call'[c] \in CallStates /\ Sound(call'[c])
    BY <1>5, StepSound
  <2>2. CallsTyped'
    BY <1>5, <2>1, StepJars DEF CallsTyped
  <2>3. CallsSound'
    BY <2>1 DEF CallsTyped, CallsSound, Sound, JarKey
  <2>4. JarsOwn'
    BY <1>5, <2>1, StepJars DEF JarsOwn, JarKey
  <2>5. MarkedOnce'
    BY <1>5, StepMarkedOnce
  <2>. QED
    BY <2>2, <2>3, <2>4, <2>5
<1>6. CASE UNCHANGED callVars
  BY <1>1, <1>6 DEF callVars, CallsTyped
<1>. QED
  BY <1>2, <1>3, <1>4, <1>5, <1>6 DEF CallsNext

LEMMA CallsInductive == CallsSpec => []CallsInv
BY CallsInitially, CallsStep, PTL DEF CallsSpec

(* However refreshes and calls overlap, a request goes out with the session  *)
(* of its own token and with no cookies of another account.                  *)
THEOREM IdentityKept == CallsSpec => []OwnIdentity
<1>1. ASSUME CallsInv, NEW c \in CallSlots
      PROVE  /\ call[c].signed \in {Missing, call[c].token}
             /\ call[c].cookies # Missing => SameAccount(FileOf(c), call[c].cookies)
  <2>1. Sound(call[c]) /\ call[c] \in CallStates
    BY <1>1 DEF CallsInv, CallsSound, CallsTyped
  <2>2. ASSUME call[c].cookies # Missing
        PROVE  SameAccount(FileOf(c), call[c].cookies)
    <3>1. call[c].cookies \in Files /\ JarKey(call[c].cookies) = JarKey(FileOf(c))
      BY <2>1, <2>2 DEF CallStates, Sound, FileOf
    <3>2. FileOf(c) \in Files
      BY <2>1, <2>2 DEF Sound, FileOf, Tokens
    <3>. QED
      BY <1>1, <3>1, <3>2, KeyTellsAccount DEF CallsInv
  <2>. QED
    BY <2>1, <2>2 DEF Sound
<1>2. CallsInv => OwnIdentity
  BY <1>1 DEF OwnIdentity
<1>. QED
  BY <1>2, CallsInductive, PTL

(* However many calls find a jar unfilled, it has one handshake, and no      *)
(* request or handshake goes out a second time.                              *)
THEOREM NothingTwice == CallsSpec => []SentOnce
<1>1. CallsInv => SentOnce
  BY DEF CallsInv, MarkedOnce, CallsSound, Sound, Once, SentOnce
<1>. QED
  BY <1>1, CallsInductive, PTL

-----------------------------------------------------------------------------
(* What a refusal means.                                                  *)
Refused(r) == r \in Refusals /\ Status(carrier, r) >= 400

OutcomeOf(p, c, r) ==
  [recorded |-> Recorded(p, c, r), told |-> ErrorOf(Status(c, r), Body(r)).kind,
   crossed |-> Crossing(p, c, r), reread |-> Reconciles(p, c, r)]

(* What has been recorded and told follows from the refusal at hand, and    *)
(* the request has ended because it was not to be retried.                  *)
PolicyInv ==
  /\ path \in Paths /\ carrier \in Carriers
  /\ attempt \in Nat
  /\ phase \in {"sending", "refused", "ended"}
  /\ phase \in {"refused", "ended"} => Refused(refusal)
  /\ phase = "ended" =>
       /\ outcome = OutcomeOf(path, carrier, refusal)
       /\ attempt = MaxAttempts \/ ~IsRetryable(path, carrier, refusal)

LEMMA PolicyInductive == PolicySpec => []PolicyInv
<1>1. PolicyInit => PolicyInv
  BY DEF PolicyInit, PolicyInv
<1>2. PolicyInv /\ [PolicyNext]_policyVars => PolicyInv'
  <2> SUFFICES ASSUME PolicyInv, [PolicyNext]_policyVars PROVE PolicyInv'
    OBVIOUS
  <2>1. ASSUME NEW r \in Refusals, Refuse(r) PROVE PolicyInv'
    BY <2>1 DEF Refuse, PolicyInv, Refused
  <2>2. CASE Retry
    BY <2>2 DEF Retry, PolicyInv
  <2>3. CASE Fail
    BY <2>3 DEF Fail, PolicyInv, OutcomeOf, Refused
  <2>4. CASE UNCHANGED policyVars
    BY <2>4 DEF policyVars, PolicyInv, Refused
  <2>. QED
    BY <2>1, <2>2, <2>3, <2>4 DEF PolicyNext
<1>. QED
  BY <1>1, <1>2, PTL DEF PolicySpec

-----------------------------------------------------------------------------
(* The gateway's bodies do not hold the markers of the plugin's own texts. *)
LEMMA NotTyped ==
  ASSUME NEW r \in Refusals
  PROVE  "typedDaily" \notin Body(r) /\ "typedShared" \notin Body(r)
         /\ "typedModel" \notin Body(r)
BY DEF Refusals, Body, Markers

(* A body has the marker of code 110 exactly when that is its code. *)
LEMMA CodeMarked ==
  ASSUME NEW r \in Refusals
  PROVE  "code110" \in Body(r) <=> r.code = 110
BY DEF Refusals, Body, Markers

(* A queue's rendered text is classified like the queue's own body. *)
LEMMA QueueText ==
  /\ RecordUpstreamFailure(403, {"rate"}) = "rateLimit"
  /\ IsSoftRateLimit(403, {"rate"})
  /\ ~ReconcileByUID(403, {"rate"})
<1>1. ~IsDailyCountLimit(403, {"rate"}) /\ ~IsQueueAdmission(403, {"rate"})
      /\ ~IsHardCreditError(403, {"rate"})
  BY DEF IsDailyCountLimit, IsQueueAdmission, IsHardCreditError
<1>2. Wording({"rate"}) = NoReason
  BY DEF Wording, SaysShared, SaysCredit, NoReason
<1>3. ClassifyQuotaReason(403, {"rate"}) = NoReason
  BY <1>1, <1>2 DEF ClassifyQuotaReason, NoReason
<1>4. IsSoftRateLimit(403, {"rate"})
  BY <1>1 DEF IsSoftRateLimit
<1>. QED
  BY <1>1, <1>3, <1>4
  DEF RecordUpstreamFailure, RecordUpstreamFailureLegacy, ReconcileByUID

(* The kind of an error is the freeze its body calls for, if any. *)
LEMMA KindOfError ==
  ASSUME NEW status, NEW body
  PROVE  LET err == ErrorOf(status, body)
             reason == ClassifyQuotaReason(status, body)
         IN  /\ reason # NoReason => err.kind = reason /\ reason \in QuotaKinds
             /\ reason = NoReason /\ IsQueueAdmission(status, body)
                  => err.kind = "queue" /\ err.text = {"rate"}
             /\ reason = NoReason /\ ~IsQueueAdmission(status, body)
                  => err.kind = "plain" /\ err.text = body
<1>1. ClassifyQuotaReason(status, body) \in QuotaKinds \cup {NoReason}
  BY DEF ClassifyQuotaReason, Wording, QuotaKinds, NoReason
<1>. QED
  BY <1>1 DEF ErrorOf, TypedText, QuotaKinds, NoReason

(* A queued body that is not the daily cap. *)
LEMMA QueuedBody ==
  ASSUME NEW status, NEW body,
         IsQueueAdmission(status, body), ~IsDailyCountLimit(status, body)
  PROVE  /\ status = 403
         /\ ClassifyQuotaReason(status, body) = NoReason
         /\ IsSoftRateLimit(status, body)
         /\ RecordUpstreamFailure(status, body) = "rateLimit"
<1>1. status = 403 /\ ClassifyQuotaReason(status, body) = NoReason
  BY DEF IsQueueAdmission, ClassifyQuotaReason
<1>2. IsSoftRateLimit(status, body)
  BY DEF IsSoftRateLimit
<1>. QED
  BY <1>1, <1>2 DEF RecordUpstreamFailure, RecordUpstreamFailureLegacy

-----------------------------------------------------------------------------
(* Recording an error records what its body calls for. *)
LEMMA ErrorRecords ==
  ASSUME NEW status, NEW body
  PROVE  RecordUpstreamError(status, ErrorOf(status, body))
           = RecordUpstreamFailure(status, body)
<1>. DEFINE reason == ClassifyQuotaReason(status, body)
<1>1. CASE reason # NoReason
  BY <1>1, KindOfError DEF RecordUpstreamError, RecordUpstreamFailure
<1>2. CASE reason = NoReason /\ IsQueueAdmission(status, body)
  <2>1. ~IsDailyCountLimit(status, body)
    BY <1>2 DEF ClassifyQuotaReason, NoReason
  <2>2. RecordUpstreamFailure(status, body) = "rateLimit" /\ status = 403
    BY <1>2, <2>1, QueuedBody
  <2>. QED
    BY <1>2, <2>2, KindOfError, QueueText DEF RecordUpstreamError, QuotaKinds
<1>3. CASE reason = NoReason /\ ~IsQueueAdmission(status, body)
  BY <1>3, KindOfError DEF RecordUpstreamError, QuotaKinds
<1>. QED
  BY <1>1, <1>2, <1>3

(* Whatever the path and the carrier, a refusal is recorded by its own     *)
(* status and body.                                                        *)
THEOREM Lossless == PolicySpec => []RenderingLosesNothing
<1>1. PolicyInv => RenderingLosesNothing
  BY ErrorRecords DEF PolicyInv, RenderingLosesNothing, Ended, OutcomeOf, Recorded
<1>. QED
  BY <1>1, PolicyInductive, PTL

(* A business refusal is told as what it is recorded as, and no status     *)
(* crosses to the host.                                                    *)
THEOREM NoKeyBlamed == PolicySpec => []BusinessBlamesNoKey
<1>1. ASSUME PolicyInv, Ended PROVE BusinessBlamesNoKey
  <2>. DEFINE status == Status(carrier, refusal)
              body == Body(refusal)
              err == ErrorOf(status, body)
  <2>1. /\ outcome.recorded = RecordUpstreamFailure(status, body)
        /\ outcome.told = err.kind /\ outcome.crossed = Crossing(path, carrier, refusal)
    BY <1>1, ErrorRecords DEF PolicyInv, Ended, OutcomeOf, Recorded
  <2>2. err.kind # "plain" => Crossing(path, carrier, refusal) = 0
    BY <1>1 DEF Crossing, UpstreamStatusError, ErrorEnvelopeFor, PolicyInv, Paths, Carriers
  <2>3. ClassifyQuotaReason(status, body) = NoReason
          => RecordUpstreamFailure(status, body) \notin QuotaKinds
    BY DEF RecordUpstreamFailure, RecordUpstreamFailureLegacy, QuotaKinds, NoReason
  <2>4. ClassifyQuotaReason(status, body) # NoReason
          => RecordUpstreamFailure(status, body) = err.kind
    BY KindOfError DEF RecordUpstreamFailure
  <2>5. ClassifyQuotaReason(status, body) = NoReason => err.kind \notin QuotaKinds
    BY KindOfError DEF QuotaKinds
  <2>. HIDE DEF status, body, err
  <2>. QED
    BY <2>1, <2>2, <2>3, <2>4, <2>5 DEF BusinessBlamesNoKey
<1>2. PolicyInv => BusinessBlamesNoKey
  BY <1>1 DEF BusinessBlamesNoKey
<1>. QED
  BY <1>2, PolicyInductive, PTL

(* A queued request is tried to the end of its budget, and neither freezes *)
(* nor reconciles the account, whatever else its body says.                *)
LEMMA QueueIsPatient ==
  ASSUME PolicyInv, Ended, Queued
  PROVE  attempt = MaxAttempts /\ outcome.recorded = "rateLimit" /\ ~outcome.reread
<1>. DEFINE status == Status(carrier, refusal)
            body == Body(refusal)
<1>1. /\ status = 403 /\ IsSoftRateLimit(status, body)
      /\ ClassifyQuotaReason(status, body) = NoReason
      /\ RecordUpstreamFailure(status, body) = "rateLimit"
      /\ IsQueueAdmission(status, body)
  BY QueuedBody DEF Queued
<1>2. ErrorOf(status, body).text = {"rate"}
  BY <1>1, KindOfError
<1>3. Judged(path, carrier, refusal) \in {body, {"rate"}}
  BY <1>2 DEF Judged
<1>4. IsRetryable(path, carrier, refusal) /\ ~Reconciles(path, carrier, refusal)
  <2>1. ~ReconcileByUID(status, body)
    BY <1>1 DEF ReconcileByUID
  <2>. QED
    BY <1>1, <1>3, <2>1, QueueText DEF IsRetryable, Reconciles
<1>5. outcome.recorded = "rateLimit" /\ ~outcome.reread
  BY <1>1, <1>4, ErrorRecords DEF PolicyInv, Ended, OutcomeOf, Recorded
<1>. QED
  BY <1>4, <1>5 DEF PolicyInv, Ended

(* Nothing but a 403 that the gateway declares is believed to be the cap.  *)
LEMMA DailyDeclared ==
  ASSUME PolicyInv, Ended, outcome.recorded = "daily"
  PROVE  refusal.status = 403
<1>. DEFINE status == Status(carrier, refusal)
            body == Body(refusal)
<1>1. refusal \in Refusals /\ status >= 400
  BY DEF PolicyInv, Ended, Refused
<1>2. RecordUpstreamFailure(status, body) = "daily"
  BY ErrorRecords DEF PolicyInv, Ended, OutcomeOf, Recorded
<1>3. ClassifyQuotaReason(status, body) = "daily"
  BY <1>2 DEF RecordUpstreamFailure, RecordUpstreamFailureLegacy, NoReason
<1>4. IsDailyCountLimit(status, body)
  BY <1>3 DEF ClassifyQuotaReason, Wording, NoReason
<1>5. status = 403 /\ refusal.code = 110 /\ IsDailyCountLimit(403, body)
  BY <1>1, <1>4, NotTyped, CodeMarked DEF IsDailyCountLimit
<1>6. BusinessEnvelopeStatus(refusal) = 502
  BY <1>5 DEF BusinessEnvelopeStatus
<1>7. status \in {refusal.status, BusinessEnvelopeStatus(refusal)}
  BY <1>5 DEF Status, UpstreamEnvelopeStatus
<1>. QED
  BY <1>5, <1>6, <1>7

(* The queue and the daily cap, both 403, are told apart.                  *)
THEOREM ForbiddenRead == PolicySpec => []ForbiddenToldApart
<1>1. PolicyInv => ForbiddenToldApart
  BY QueueIsPatient, DailyDeclared DEF ForbiddenToldApart
<1>. QED
  BY <1>1, PolicyInductive, PTL

(* No refusal for the daily count is ever tried again. *)
THEOREM DailyOnce == PolicySpec => DailyNotRetried
<1>1. ASSUME PolicyInv, Retry
      PROVE  ~IsDailyCountLimit(Status(carrier, refusal), Body(refusal))
  <2>. DEFINE status == Status(carrier, refusal)
              body == Body(refusal)
  <2> SUFFICES ASSUME IsDailyCountLimit(status, body) PROVE FALSE
    OBVIOUS
  <2>1. ErrorOf(status, body).text = {"quota", "typedDaily"}
    BY DEF ErrorOf, ClassifyQuotaReason, TypedText, NoReason
  <2>2. IsDailyCountLimit(status, Judged(path, carrier, refusal))
    BY <2>1 DEF Judged, IsDailyCountLimit
  <2>. QED
    BY <1>1, <2>2 DEF Retry, IsRetryable, IsSoftRateLimit
<1>2. PolicyInv /\ [PolicyNext]_policyVars =>
        [Retry => ~IsDailyCountLimit(Status(carrier, refusal), Body(refusal))]_policyVars
  BY <1>1
<1>. QED
  BY <1>2, PolicyInductive, PTL DEF PolicySpec, DailyNotRetried
=============================================================================
