---------------------------- MODULE CheckinProofs ----------------------------
(***************************************************************************)
(* Theorems about the daily check-in, for any accounts, callers, days,     *)
(* delays and restarts.                                                    *)
(*                                                                         *)
(* Those about claims in doubt are under OneContract: upstream serves the  *)
(* campaign contract or the legacy one, as in the runs.  Where it changes  *)
(* from one to the other over a lost answer, the record names the contract *)
(* of before, and neither holds (README.md, section 7).                    *)
(***************************************************************************)
EXTENDS Checkin, WellFoundedInduction, TLAPS

OneContract == ~ {"campaign", "legacy"} \subseteq Contracts

Busy(w) == run[w].pc \notin {"idle", "lock"}

(* Who is past the lock holds it, and only such a run does; while the loop *)
(* waits, its runs are over.                                               *)
Holding ==
  /\ \A w \in Workers :
       /\ run[w].pc # "idle" => run[w].account \in Accounts
       /\ run[w].pc = "post" => run[w].claim # None
       /\ Busy(w) => lock[run[w].account] = w
  /\ \A a \in Accounts :
       lock[a] # None => run[lock[a]].account = a /\ Busy(lock[a])
  /\ loop.pc \in {"wait", "list"} => LoopQuiet

(* The record of a run in flight stays, and remembers what it began with.  *)
Recorded(a) ==
  /\ a \in DOMAIN records => records[a].retries <= Len(RetryDelays)
  /\ lock[a] # None =>
       /\ a \in DOMAIN records
       /\ records[a].inFlight
       /\ records[a].day = run[lock[a]].before.day
       /\ records[a].retries = run[lock[a]].before.retries
       /\ records[a].confirmOnly = run[lock[a]].before.confirmOnly

(* What was spent today is in today's record.                              *)
Budgeted(a) ==
  charged[a] > 0 =>
    /\ a \in DOMAIN records
    /\ records[a].day = Day(now)
    /\ charged[a] <= records[a].retries

(* A cancelled account has no schedule, and a run in flight will leave none. *)
Cancelled(a) ==
  stopped[a] /\ a \in DOMAIN records =>
    /\ records[a].next = 0
    /\ lock[a] # None => records[a].revoked

CheckinInv ==
  /\ TypeOK /\ Holding /\ ParkedLeftAlone
  /\ \A a \in Accounts : Recorded(a) /\ Budgeted(a) /\ Cancelled(a)

-----------------------------------------------------------------------------
(* Records, runs and claims name only what the contract served has.        *)
Served(campaign, legacy) ==
  /\ campaign # None => "campaign" \in Contracts
  /\ legacy => "legacy" \in Contracts

Honest(r) ==
  /\ Served(r.before.campaign, r.before.legacy)
  /\ Served(r.result.campaign, r.result.legacy)
  /\ Served(Campaign(r.claim), r.claim = Daily)

OnlyServed ==
  /\ \A a \in DOMAIN records : Served(records[a].campaign, records[a].legacy)
  /\ \A w \in Workers : Honest(run[w])
  /\ \A a \in Accounts : Served(Campaign(doubt[a]), doubt[a] = Daily)

(* Where a claim in doubt is remembered: in the record, or by the run that *)
(* is under way, which has posted it or took it from the record; and it is *)
(* known by name if it has one.                                            *)
Doubtful(a) ==
  LET w == lock[a]
      Names(claim) == doubt[a] \in Campaigns => claim = doubt[a]
  IN doubt[a] # None =>
       IF w = None
         THEN a \in DOMAIN records /\ records[a].confirmOnly /\ Names(records[a].campaign)
       ELSE
         /\ run[w].pc \in {"read", "verify", "result", "finish"}
         /\ run[w].pc = "read" =>
              run[w].before.confirmOnly /\ Names(run[w].before.campaign)
         /\ run[w].pc = "verify" =>
              /\ run[w].answer # "refused"
              /\ run[w].claim \in {doubt[a], None} /\ Names(run[w].claim)
              /\ run[w].answer = "check" => Names(run[w].before.campaign)
         /\ run[w].pc \in {"result", "finish"} =>
              /\ run[w].result.confirmOnly /\ ~run[w].result.confirmed
              /\ Names(IF run[w].result.campaign = None THEN run[w].before.campaign
                                                       ELSE run[w].result.campaign)

DoubtInv == OnlyServed /\ \A a \in Accounts : Doubtful(a)

-----------------------------------------------------------------------------
(* Days and hours. *)
LEMMA DayNat == ASSUME NEW t \in Nat PROVE Day(t) \in Nat
<1>1. DayLength \in Nat \ {0}
  BY CheckinAssumption
<1>. QED
  BY <1>1 DEF Day

(* The least of a set of naturals. *)
LEMMA Least ==
  ASSUME NEW S \in SUBSET Nat, S # {}
  PROVE  \E h \in S : \A k \in S : h <= k
<1>1. IsWellFoundedOn(OpToRel(<, Nat), Nat)
  BY NatLessThanWellFounded
<1>2. PICK h \in S : \A k \in S : ~ (<<k, h>> \in OpToRel(<, Nat))
  BY <1>1, WFMin, Zenon
<1>3. ASSUME NEW k \in S PROVE h <= k
  <2>1. k \in Nat /\ h \in Nat
    OBVIOUS
  <2>2. k < h => <<k, h>> \in OpToRel(<, Nat)
    BY <2>1, Zenon DEF OpToRel
  <2>3. ~ (k < h)
    BY <1>2, <2>2, Zenon
  <2>. QED
    BY <2>1, <2>3
<1>. QED
  BY <1>2, <1>3

(* Within a day there is an hour to come. *)
LEMMA NextHourNat == ASSUME NEW t \in Nat PROVE NextHour(t) \in Nat
<1>. DEFINE upcoming == {h \in t + 1 .. t + DayLength : h % DayLength \in Hours}
            q == t \div DayLength
            r == t % DayLength
<1>1. DayLength \in Nat \ {0} /\ Hours \subseteq 0..DayLength - 1 /\ Hours # {}
  BY CheckinAssumption
<1>2. PICK h \in Hours : TRUE
  BY <1>1
<1>3. q \in Nat /\ r \in 0..DayLength - 1 /\ t = q * DayLength + r
  BY <1>1
<1>4. ASSUME NEW n \in Nat PROVE (n * DayLength + h) % DayLength = h
  BY <1>1, <1>2
<1>5. upcoming # {}
  <2>. HIDE DEF q, r
  <2>. DEFINE here == q * DayLength + h
              there == (q + 1) * DayLength + h
  <2>1. here \in Nat /\ there \in Nat /\ there = here + DayLength
        /\ here % DayLength = h /\ there % DayLength = h
    BY <1>1, <1>2, <1>3, <1>4
  <2>2. t = (here - h) + r
    BY <1>1, <1>2, <1>3
  <2>. HIDE DEF here, there
  <2>3. here \in t + 1 .. t + DayLength \/ there \in t + 1 .. t + DayLength
    BY <1>1, <1>2, <1>3, <2>1, <2>2
  <2>. QED
    BY <1>2, <2>1, <2>3
<1>6. upcoming \subseteq Nat
  OBVIOUS
<1>. HIDE DEF upcoming
<1>7. \E h2 \in upcoming : \A k \in upcoming : h2 <= k
  BY <1>5, <1>6, Least
<1>8. (CHOOSE h2 \in upcoming : \A k \in upcoming : h2 <= k) \in upcoming
  BY <1>7
<1>. QED
  BY <1>6, <1>8 DEF NextHour, upcoming

-----------------------------------------------------------------------------
(* Types of what the operators return. *)
LEMMA FreshTyped == ASSUME NEW day \in Nat PROVE FreshRecord(day) \in Records
BY DEF FreshRecord, Records

LEMMA ResultsTyped ==
  /\ Result("none") \in Results /\ Result("disabled") \in Results
  /\ \A retryable, confirmOnly \in BOOLEAN : Failed(retryable, confirmOnly) \in Results
  /\ \A campaign \in Campaigns \cup {None}, legacy, status \in BOOLEAN :
       Confirmed(campaign, legacy, status) \in Results
BY DEF Result, Failed, Confirmed, Results

LEMMA IdleTyped == IdleRun \in Runs
<1>1. FreshRecord(0) \in Records /\ Result("none") \in Results
  BY FreshTyped, ResultsTyped
<1>. QED
  BY <1>1 DEF IdleRun, Runs, PostAnswers

LEMMA StartTyped ==
  ASSUME NEW a \in Accounts, NEW source \in {"manual", "auto", "retry"},
         NEW listErr \in BOOLEAN
  PROVE  /\ StartRun(a, source, listErr) \in Runs
         /\ StartRun(a, source, listErr).pc = "lock"
         /\ StartRun(a, source, listErr).account = a
         /\ StartRun(a, source, listErr).source = source
BY IdleTyped DEF StartRun, Runs, IdleRun

LEMMA LoopIdleTyped ==
  ASSUME NEW t \in Nat
  PROVE  LoopIdle(t) \in [pc : {"wait", "list", "run", "auto"}, due : SUBSET Accounts,
                          live : SUBSET Accounts, listErr : BOOLEAN, timer : Nat]
BY NextHourNat DEF LoopIdle

LEMMA CancelTyped ==
  ASSUME NEW table, \A a \in DOMAIN table : table[a] \in Records, NEW as
  PROVE  /\ DOMAIN Cancel(table, as) = DOMAIN table
         /\ \A a \in DOMAIN table :
              /\ Cancel(table, as)[a] \in Records
              /\ Cancel(table, as)[a].day = table[a].day
              /\ Cancel(table, as)[a].retries = table[a].retries
              /\ Cancel(table, as)[a].inFlight = table[a].inFlight
              /\ Cancel(table, as)[a].confirmOnly = table[a].confirmOnly
              /\ Cancel(table, as)[a].campaign = table[a].campaign
              /\ Cancel(table, as)[a].legacy = table[a].legacy
              /\ a \in as => /\ Cancel(table, as)[a].next = 0
                             /\ Cancel(table, as)[a].revoked = table[a].inFlight
              /\ a \notin as => Cancel(table, as)[a] = table[a]
BY DEF Cancel, Records

(* What reserveCheckin may go on with: the table, or the table without a    *)
(* record that is neither in flight, nor in doubt, nor charged today.       *)
LEMMA RoomMade ==
  ASSUME NEW a \in Accounts, NEW day, NEW table \in MakeRoom(records, a, day)
  PROVE  /\ a \in DOMAIN records => table = records
         /\ DOMAIN table \subseteq DOMAIN records
         /\ \A b \in DOMAIN table : table[b] = records[b]
         /\ \A b \in DOMAIN records \ DOMAIN table :
              /\ ~records[b].inFlight /\ ~records[b].confirmOnly
              /\ ~ (records[b].day = day /\ (records[b].retries > 0 \/ records[b].next # 0))
<1>1. CASE table = records
  BY <1>1
<1>2. CASE /\ a \notin DOMAIN records
           /\ \E v \in Evictable(records, day) :
                table = [k \in DOMAIN records \ {v} |-> records[k]]
  BY <1>2 DEF Evictable
<1>. QED
  BY <1>1, <1>2 DEF MakeRoom

LEMMA TodaysTyped ==
  ASSUME NEW table, \A b \in DOMAIN table : table[b] \in Records, NEW a, NEW day \in Nat
  PROVE  LET r == Todays(table, a, day)
         IN  /\ r \in Records
             /\ r.day = day
             /\ a \in DOMAIN table =>
                  /\ r.confirmOnly = table[a].confirmOnly
                  /\ r.campaign = table[a].campaign
                  /\ r.legacy = table[a].legacy
                  /\ table[a].day = day => r = table[a]
                  /\ table[a].day # day => r.retries = 0 /\ r.next = 0
             /\ a \notin DOMAIN table =>
                  /\ r.retries = 0 /\ r.next = 0 /\ ~r.confirmOnly
                  /\ r.campaign = None /\ ~r.legacy
BY FreshTyped DEF Todays, FreshRecord, Records

(* The record of a run that begins. *)
Begun(r, source) ==
  [Charge(r, source) EXCEPT !.at = now, !.inFlight = TRUE, !.revoked = FALSE]

LEMMA BegunTyped ==
  ASSUME NEW r \in Records, NEW source, now \in Nat
  PROVE  LET begun == Begun(r, source)
         IN  /\ begun \in Records
             /\ begun.day = r.day /\ begun.inFlight /\ ~begun.revoked
             /\ begun.confirmOnly = r.confirmOnly /\ begun.campaign = r.campaign
             /\ begun.legacy = r.legacy
             /\ source = "retry" => begun.retries = r.retries + 1 /\ begun.next = 0
             /\ source # "retry" => begun.retries = r.retries
<1>. DEFINE c == Charge(r, source)
            begun == [c EXCEPT !.at = now, !.inFlight = TRUE, !.revoked = FALSE]
<1>1. /\ c \in Records /\ c.day = r.day /\ c.confirmOnly = r.confirmOnly
      /\ c.campaign = r.campaign /\ c.legacy = r.legacy
      /\ source = "retry" => c.retries = r.retries + 1 /\ c.next = 0
      /\ source # "retry" => c.retries = r.retries
  <2>1. CASE source = "retry"
    <3>. DEFINE spent == r.retries + 1
    <3>1. c = [r EXCEPT !.retries = spent, !.next = 0]
      BY <2>1 DEF Charge
    <3>2. r.retries \in Nat
      BY DEF Records
    <3>3. spent \in Nat
      BY <3>2
    <3>. HIDE DEF c, spent
    <3>4. /\ c \in Records /\ c.day = r.day
          /\ c.confirmOnly = r.confirmOnly
          /\ c.campaign = r.campaign /\ c.legacy = r.legacy
          /\ c.retries = spent /\ c.next = 0
      BY <3>1, <3>3 DEF Records
    <3>. QED
      BY <2>1, <3>4 DEF spent
  <2>2. CASE source # "retry"
    BY <2>2 DEF Charge
  <2>. QED
    BY <2>1, <2>2
<1>. HIDE DEF c
<1>2. /\ begun \in Records /\ begun.inFlight /\ ~begun.revoked
      /\ begun.day = c.day /\ begun.confirmOnly = c.confirmOnly
      /\ begun.campaign = c.campaign /\ begun.legacy = c.legacy
      /\ begun.retries = c.retries /\ begun.next = c.next
  BY <1>1 DEF Records
<1>. HIDE DEF begun
<1>3. /\ begun \in Records
      /\ begun.day = r.day /\ begun.inFlight /\ ~begun.revoked
      /\ begun.confirmOnly = r.confirmOnly /\ begun.campaign = r.campaign
      /\ begun.legacy = r.legacy
      /\ source = "retry" => begun.retries = r.retries + 1 /\ begun.next = 0
      /\ source # "retry" => begun.retries = r.retries
  BY <1>1, <1>2
<1>. QED
  BY <1>3 DEF begun, c, Begun

LEMMA FinishedTyped ==
  ASSUME NEW before \in Records, NEW revoked \in BOOLEAN, NEW result \in Results,
         NEW enabled \in BOOLEAN, now \in Nat
  PROVE  LET r == Finished(before, revoked, result, enabled)
         IN  /\ r \in Records
             /\ r.day = before.day /\ r.retries = before.retries /\ ~r.inFlight
             /\ r.confirmOnly = (~result.confirmed /\ (result.confirmOnly \/ before.confirmOnly))
             /\ r.campaign = IF result.campaign # None THEN result.campaign
                                                       ELSE before.campaign
             /\ r.legacy \in {before.legacy, result.legacy}
             /\ revoked => r.next = 0
<1>1. NextRetry(before, revoked, result, enabled) \in Nat
  <2>1. RetryDelays \in Seq(Nat \ {0}) /\ before.retries \in Nat
    BY CheckinAssumption DEF Records
  <2>2. MayRearm(before, revoked, result, enabled)
          => RetryDelays[before.retries + 1] \in Nat
    BY <2>1 DEF MayRearm
  <2>. QED
    BY <2>2 DEF NextRetry
<1>2. revoked => NextRetry(before, revoked, result, enabled) = 0
  BY DEF NextRetry, MayRearm
<1>. DEFINE next == NextRetry(before, revoked, result, enabled)
            confirmed == IF result.campaign # None /\ result.campaign # before.campaign
                           THEN result.confirmed ELSE result.confirmed \/ before.confirmed
            confirmOnly == ~result.confirmed /\ (result.confirmOnly \/ before.confirmOnly)
            campaign == IF result.campaign # None THEN result.campaign ELSE before.campaign
            legacy == IF \/ result.campaign # None
                         \/ result.status
                         \/ result.confirmed
                        THEN result.legacy ELSE before.legacy
            r == [before EXCEPT !.at = now, !.state = result.state, !.inFlight = FALSE,
                    !.confirmed = confirmed, !.confirmOnly = confirmOnly,
                    !.campaign = campaign, !.legacy = legacy, !.next = next,
                    !.revoked = revoked]
<1>3. /\ {result.confirmed, result.confirmOnly, result.status, result.legacy} \subseteq BOOLEAN
      /\ result.campaign \in Campaigns \cup {None}
      /\ result.state \in {"", "none", "disabled", "other"}
      /\ {before.confirmed, before.confirmOnly, before.legacy} \subseteq BOOLEAN
      /\ before.campaign \in Campaigns \cup {None}
  BY DEF Results, Records
<1>4. /\ confirmed \in BOOLEAN /\ confirmOnly \in BOOLEAN
      /\ campaign \in Campaigns \cup {None} /\ legacy \in BOOLEAN
      /\ legacy \in {before.legacy, result.legacy}
  BY <1>3
<1>5. Finished(before, revoked, result, enabled) = r
  BY DEF Finished
<1>6. next \in Nat /\ (revoked => next = 0)
  BY <1>1, <1>2
<1>. HIDE DEF next, confirmed, confirmOnly, campaign, legacy
<1>7. /\ r \in Records
      /\ r.day = before.day /\ r.retries = before.retries /\ ~r.inFlight
      /\ r.confirmOnly = confirmOnly /\ r.campaign = campaign
      /\ r.legacy = legacy /\ r.next = next
  <2>. DEFINE half == [before EXCEPT !.at = now, !.state = result.state,
                         !.inFlight = FALSE, !.confirmed = confirmed]
  <2>1. /\ half \in Records /\ half.day = before.day
        /\ half.retries = before.retries /\ ~half.inFlight
    BY <1>3, <1>4 DEF Records
  <2>2. r = [half EXCEPT !.confirmOnly = confirmOnly, !.campaign = campaign,
               !.legacy = legacy, !.next = next, !.revoked = revoked]
    OBVIOUS
  <2>. HIDE DEF half, r
  <2>. QED
    BY <1>4, <1>6, <2>1, <2>2 DEF Records
<1>. HIDE DEF r
<1>8. /\ r \in Records
      /\ r.day = before.day /\ r.retries = before.retries /\ ~r.inFlight
      /\ r.confirmOnly = (~result.confirmed /\ (result.confirmOnly \/ before.confirmOnly))
      /\ r.campaign = IF result.campaign # None THEN result.campaign ELSE before.campaign
      /\ r.legacy \in {before.legacy, result.legacy}
      /\ revoked => r.next = 0
  BY <1>4, <1>6, <1>7 DEF confirmOnly, campaign
<1>. QED
  BY <1>5, <1>8

-----------------------------------------------------------------------------
(* The bookkeeping of one account under steps that leave its run, its      *)
(* budget and its lock alone.                                              *)
LEMMA Standing ==
  ASSUME CheckinInv, NEW a \in Accounts, lock'[a] = lock[a], now' = now,
         charged'[a] = charged[a],
         lock[a] # None => run'[lock[a]].before = run[lock[a]].before,
         a \in DOMAIN records' =>
           /\ a \in DOMAIN records
           /\ records'[a].day = records[a].day
           /\ records'[a].retries = records[a].retries
           /\ records'[a].inFlight = records[a].inFlight
           /\ records'[a].confirmOnly = records[a].confirmOnly
           /\ stopped'[a] => /\ records'[a].next = 0
                             /\ lock[a] # None => records'[a].revoked,
         a \in DOMAIN records /\ a \notin DOMAIN records' =>
           /\ ~records[a].inFlight
           /\ ~ (records[a].day = Day(now) /\ records[a].retries > 0)
  PROVE  Recorded(a)' /\ Budgeted(a)' /\ Cancelled(a)'
<1>1. Recorded(a) /\ Budgeted(a)
  BY DEF CheckinInv
<1>2. Recorded(a)'
  BY <1>1 DEF Recorded
<1>3. Budgeted(a)'
  <2>1. a \in DOMAIN records => records[a].retries \in Nat
    BY DEF CheckinInv, TypeOK, Records
  <2>2. charged[a] \in Nat /\ Day(now)' = Day(now)
    BY DEF CheckinInv, TypeOK, Day
  <2>. QED
    BY <1>1, <2>1, <2>2 DEF Budgeted
<1>4. Cancelled(a)'
  BY DEF Cancelled
<1>. QED
  BY <1>2, <1>3, <1>4

(* A run that has the lock goes on: neither its account nor what it began  *)
(* with changes, and it keeps the lock.                                    *)
GoesOn(w) ==
  /\ Busy(w)
  /\ run' = [run EXCEPT ![w] = run'[w]]
  /\ run'[w] \in Runs
  /\ run'[w].pc \notin {"idle", "lock"}
  /\ run'[w].account = run[w].account
  /\ run'[w].source = run[w].source
  /\ run'[w].before = run[w].before
  /\ run'[w].pc = "post" => run'[w].claim # None
  /\ /\ run'[w].pc \in {"observe", "post", "verify"}
     /\ run'[w].source # "manual"
     => auth[run[w].account] = "enabled"

LEMMA ConcludeGoesOn ==
  ASSUME TypeOK, NEW w \in Workers, Busy(w), NEW result \in Results, Conclude(w, result)
  PROVE  GoesOn(w) /\ run'[w].pc = "result" /\ run'[w].result = result
<1>1. run[w] \in Runs /\ run \in [Workers -> Runs]
  BY DEF TypeOK
<1>2. run'[w] = [run[w] EXCEPT !.pc = "result", !.result = result]
  BY <1>1 DEF Conclude
<1>3. run' = [run EXCEPT ![w] = run'[w]]
  BY <1>1, <1>2 DEF Conclude
<1>. HIDE DEF Conclude
<1>4. /\ run'[w] \in Runs /\ run'[w].pc = "result" /\ run'[w].result = result
      /\ run'[w].account = run[w].account /\ run'[w].source = run[w].source
      /\ run'[w].before = run[w].before
  BY <1>1, <1>2 DEF Runs
<1>. QED
  BY <1>3, <1>4 DEF GoesOn

LEMMA GoesOnInv ==
  ASSUME CheckinInv, NEW w \in Workers, GoesOn(w),
         UNCHANGED <<checkinAuto, switching, records, lock, loop, auth, now, charged, stopped>>,
         granted' \in [Accounts -> SUBSET Claims],
         doubt' \in [Accounts -> Claims \cup {None}]
  PROVE  CheckinInv'
<1>1. run \in [Workers -> Runs] /\ run[w].pc # "idle"
  BY DEF CheckinInv, TypeOK, GoesOn, Busy
<1>2. /\ run' \in [Workers -> Runs]
      /\ \A u \in Workers : u # w => run'[u] = run[u]
  BY <1>1 DEF GoesOn
<1>3. TypeOK'
  BY <1>2 DEF CheckinInv, TypeOK
<1>4. /\ \A u \in Workers : Busy(u)' <=> Busy(u)
      /\ \A u \in Workers : /\ run'[u].account = run[u].account
                            /\ run'[u].before = run[u].before
                            /\ run'[u].pc = "idle" <=> run[u].pc = "idle"
                            /\ run'[u].pc = "post" => run'[u].claim # None
  BY <1>1, <1>2 DEF GoesOn, Busy, CheckinInv, Holding
<1>5. lock \in [Accounts -> Workers \cup {None}] /\ Accounts \subseteq Workers
  BY DEF CheckinInv, TypeOK, Workers
<1>6. Holding'
  <2>1. Holding
    BY DEF CheckinInv
  <2>2. \A a \in Accounts : lock[a] # None => lock[a] \in Workers
    BY <1>5
  <2>3. LoopQuiet' <=> LoopQuiet
    BY <1>4, <1>5 DEF LoopQuiet
  <2>. QED
    BY <1>4, <2>1, <2>2, <2>3 DEF Holding
<1>7. ParkedLeftAlone'
  BY <1>2 DEF CheckinInv, ParkedLeftAlone, GoesOn
<1>8. ASSUME NEW a \in Accounts PROVE Recorded(a)' /\ Budgeted(a)' /\ Cancelled(a)'
  <2>1. lock[a] # None => run'[lock[a]].before = run[lock[a]].before
    BY <1>4, <1>5
  <2>2. Cancelled(a)
    BY DEF CheckinInv
  <2>. QED
    BY <2>1, <2>2, Standing DEF Cancelled
<1>. QED
  BY <1>3, <1>6, <1>7, <1>8 DEF CheckinInv

-----------------------------------------------------------------------------
(* The steps of a run that has the lock. *)
LEMMA ReadAuthInv ==
  ASSUME CheckinInv, NEW w \in Workers, ReadAuth(w)
  PROVE  GoesOn(w) /\ CheckinInv'
<1>1. run[w] \in Runs /\ Busy(w) /\ TypeOK /\ run \in [Workers -> Runs]
  BY DEF CheckinInv, TypeOK, ReadAuth, Busy
<1>2. run[w].before \in Records /\ run[w].before.confirmOnly \in BOOLEAN
      /\ run[w].before.campaign \in Campaigns \cup {None}
  BY <1>1 DEF Runs, Records
<1>3. GoesOn(w)
  <2>1. CASE \E retryable \in BOOLEAN :
               Conclude(w, Failed(retryable, run[w].before.confirmOnly))
    BY <1>1, <1>2, <2>1, ResultsTyped, ConcludeGoesOn
  <2>2. CASE Conclude(w, [Result("disabled") EXCEPT
                            !.confirmOnly = run[w].before.confirmOnly])
    <3>1. [Result("disabled") EXCEPT !.confirmOnly = run[w].before.confirmOnly] \in Results
      BY <1>2 DEF Result, Results
    <3>. QED
      BY <1>1, <2>2, <3>1, ConcludeGoesOn
  <2>3. CASE /\ auth[run[w].account] # "gone"
             /\ ~SkipsDisabled(w)
             /\ run' = [run EXCEPT
                  ![w].pc = IF VerifiesOnly(w) THEN "verify" ELSE "observe",
                  ![w].claim = IF VerifiesOnly(w) THEN ClaimOf(run[w].before)
                                                  ELSE None,
                  ![w].answer = "check"]
    <3>. DEFINE pc == IF VerifiesOnly(w) THEN "verify" ELSE "observe"
                claim == IF VerifiesOnly(w) THEN ClaimOf(run[w].before) ELSE None
    <3>1. pc \in {"verify", "observe"} /\ claim \in Claims \cup {None}
      BY <1>2 DEF ClaimOf, Claims
    <3>2. /\ run'[w] = [run[w] EXCEPT !.pc = pc, !.claim = claim, !.answer = "check"]
          /\ run' = [run EXCEPT ![w] = run'[w]]
      BY <1>1, <2>3
    <3>. HIDE DEF pc, claim
    <3>3. /\ run'[w] \in Runs /\ run'[w].pc = pc
          /\ run'[w].account = run[w].account /\ run'[w].source = run[w].source
          /\ run'[w].before = run[w].before
      BY <1>1, <3>1, <3>2 DEF Runs, PostAnswers
    <3>4. run[w].account \in Accounts
      BY <1>1 DEF CheckinInv, Holding, Busy
    <3>5. run[w].source # "manual" => auth[run[w].account] = "enabled"
      BY <1>1, <2>3, <3>4 DEF SkipsDisabled, TypeOK
    <3>. QED
      BY <1>1, <3>1, <3>2, <3>3, <3>5 DEF GoesOn
  <2>. QED
    BY <2>1, <2>2, <2>3 DEF ReadAuth
<1>. QED
  BY <1>1, <1>3, GoesOnInv DEF ReadAuth, TypeOK, history

(* What Open makes of a claim. *)
LEMMA OpenGoesOn ==
  ASSUME CheckinInv, NEW w \in Workers, run[w].pc = "observe", NEW claim \in Claims,
         Open(w, claim)
  PROVE  GoesOn(w)
<1>1. run[w] \in Runs /\ Busy(w) /\ TypeOK /\ run \in [Workers -> Runs]
  BY DEF CheckinInv, TypeOK, Busy
<1>2. run[w].before.campaign \in Campaigns \cup {None}
      /\ run[w].before.legacy \in BOOLEAN
  BY <1>1 DEF Runs, Records
<1>3. CASE AlreadyConfirmed(w, claim)
  BY <1>1, <1>2, <1>3, ResultsTyped, ConcludeGoesOn DEF Open
<1>4. CASE ~AlreadyConfirmed(w, claim)
  <2>1. /\ run'[w] = [run[w] EXCEPT !.pc = "post", !.claim = claim]
        /\ run' = [run EXCEPT ![w] = run'[w]]
    BY <1>1, <1>4 DEF Open
  <2>2. /\ run'[w] \in Runs /\ run'[w].pc = "post" /\ run'[w].claim = claim
        /\ run'[w].account = run[w].account /\ run'[w].source = run[w].source
        /\ run'[w].before = run[w].before
    BY <1>1, <2>1 DEF Runs
  <2>3. claim # None
    BY CheckinAssumption
  <2>4. run[w].source # "manual" => auth[run[w].account] = "enabled"
    BY DEF CheckinInv, ParkedLeftAlone
  <2>. QED
    BY <1>1, <2>1, <2>2, <2>3, <2>4 DEF GoesOn
<1>. QED
  BY <1>3, <1>4

LEMMA ObserveInv ==
  ASSUME CheckinInv, NEW w \in Workers, Observe(w)
  PROVE  GoesOn(w) /\ CheckinInv'
<1>1. run[w] \in Runs /\ Busy(w) /\ TypeOK /\ run[w].pc = "observe"
  BY DEF CheckinInv, TypeOK, Observe, Busy
<1>2. run[w].before.campaign \in Campaigns \cup {None}
      /\ run[w].before.legacy \in BOOLEAN
  BY <1>1 DEF Runs, Records
<1>3. [Result("none") EXCEPT !.status = TRUE] \in Results
  BY DEF Result, Results
<1>4. GoesOn(w)
  <2>1. CASE \E retryable \in BOOLEAN : Conclude(w, Failed(retryable, FALSE))
    BY <1>1, <2>1, ResultsTyped, ConcludeGoesOn
  <2>2. CASE SeesClaimed(w)
    BY <1>1, <2>2, ResultsTyped, ConcludeGoesOn DEF SeesClaimed
  <2>3. CASE SeesNothing(w)
    BY <1>1, <1>2, <1>3, <2>3, ResultsTyped, ConcludeGoesOn DEF SeesNothing
  <2>4. CASE \E c \in Campaigns : Open(w, c)
    BY <1>1, <2>4, OpenGoesOn DEF Claims
  <2>5. CASE SeesDaily(w)
    BY <1>1, <2>5, ResultsTyped, ConcludeGoesOn, OpenGoesOn DEF SeesDaily, Claims
  <2>. QED
    BY <2>1, <2>2, <2>3, <2>4, <2>5 DEF Observe
<1>. QED
  BY <1>1, <1>4, GoesOnInv DEF Observe, TypeOK, history

LEMMA RejectionTyped ==
  ASSUME NEW claim \in Claims, NEW retryable \in BOOLEAN
  PROVE  Rejection(claim, retryable) \in Results
BY DEF Rejection, Failed, Result, Results, Campaign, Claims

LEMMA PostInv ==
  ASSUME CheckinInv, NEW w \in Workers, Post(w)
  PROVE  GoesOn(w) /\ CheckinInv'
<1>. DEFINE a == run[w].account
            claim == run[w].claim
<1>1. run[w] \in Runs /\ Busy(w) /\ TypeOK /\ run[w].pc = "post"
      /\ run \in [Workers -> Runs]
  BY DEF CheckinInv, TypeOK, Post, Busy
<1>2. claim \in Claims /\ a \in Accounts
  BY <1>1 DEF CheckinInv, Holding, Runs
<1>3. GoesOn(w)
  <2>1. CASE claim # Daily /\ Conclude(w, Confirmed(claim, FALSE, TRUE))
    BY <1>1, <1>2, <2>1, ResultsTyped, ConcludeGoesOn DEF Claims
  <2>2. CASE \E retryable \in BOOLEAN : Conclude(w, Rejection(claim, retryable))
    BY <1>1, <1>2, <2>2, RejectionTyped, ConcludeGoesOn
  <2>3. CASE \E answer \in Unsettled(claim) :
               run' = [run EXCEPT ![w].pc = "verify", ![w].answer = answer]
    <3>1. PICK answer \in Unsettled(claim) :
             run' = [run EXCEPT ![w].pc = "verify", ![w].answer = answer]
      BY <2>3
    <3>2. answer \in PostAnswers
      BY DEF Unsettled, PostAnswers
    <3>3. /\ run'[w] = [run[w] EXCEPT !.pc = "verify", !.answer = answer]
          /\ run' = [run EXCEPT ![w] = run'[w]]
      BY <1>1, <3>1
    <3>4. /\ run'[w] \in Runs /\ run'[w].pc = "verify"
          /\ run'[w].account = run[w].account /\ run'[w].source = run[w].source
          /\ run'[w].before = run[w].before
      BY <1>1, <3>2, <3>3 DEF Runs
    <3>5. run[w].source # "manual" => auth[run[w].account] = "enabled"
      BY <1>1 DEF CheckinInv, ParkedLeftAlone
    <3>. QED
      BY <1>1, <3>3, <3>4, <3>5 DEF GoesOn
  <2>. QED
    BY <2>1, <2>2, <2>3 DEF Post
<1>4. granted' = granted \/ granted' = [granted EXCEPT ![a] = @ \cup {claim}]
  BY DEF Post
<1>5. granted' \in [Accounts -> SUBSET Claims]
  BY <1>1, <1>2, <1>4 DEF TypeOK
<1>6. /\ UNCHANGED <<checkinAuto, switching, records, lock, loop, auth, now,
                     charged, stopped>>
      /\ \/ doubt' = doubt
         \/ \E answer \in Unsettled(claim) :
              doubt' = [doubt EXCEPT ![a] = IF answer = "refused" THEN @ ELSE claim]
  BY DEF Post
<1>7. doubt' \in [Accounts -> Claims \cup {None}]
  BY <1>1, <1>2, <1>6 DEF TypeOK
<1>. QED
  BY <1>1, <1>3, <1>5, <1>6, <1>7, GoesOnInv

(* What Verify may conclude. *)
VerifyResults(w) ==
  LET answer == run[w].answer
      legacy == IF answer = "check" THEN run[w].before.legacy
                                    ELSE run[w].claim = Daily
      named == IF run[w].claim = None THEN None ELSE Campaign(run[w].claim)
  IN  {Amended(answer, [Failed(TRUE, TRUE) EXCEPT !.campaign = named,
                          !.legacy = legacy, !.status = TRUE])}
        \cup {Amended(answer,
                [Failed(retryable, TRUE) EXCEPT
                   !.campaign = IF answer = "check" THEN None ELSE named,
                   !.legacy = answer # "check" /\ legacy]) : retryable \in BOOLEAN}

LEMMA AmendedTyped ==
  ASSUME NEW answer, NEW result \in Results
  PROVE  /\ Amended(answer, result) \in Results
         /\ Amended(answer, result).campaign = result.campaign
         /\ Amended(answer, result).confirmed = result.confirmed
         /\ Amended(answer, result).legacy = result.legacy
         /\ answer # "refused" => Amended(answer, result).confirmOnly = result.confirmOnly
BY DEF Amended, Results

Named(f, campaign, legacy) == [f EXCEPT !.campaign = campaign, !.legacy = legacy]
NamedSeen(f, campaign, legacy) ==
  [f EXCEPT !.campaign = campaign, !.legacy = legacy, !.status = TRUE]

LEMMA FailedUnconfirmed ==
  ASSUME NEW retryable \in BOOLEAN, NEW confirmOnly \in BOOLEAN
  PROVE  /\ Failed(retryable, confirmOnly) \in Results
         /\ Failed(retryable, confirmOnly).confirmed = FALSE
         /\ Failed(retryable, confirmOnly).confirmOnly = confirmOnly
         /\ Failed(retryable, confirmOnly).campaign = None
         /\ ~Failed(retryable, confirmOnly).legacy
BY DEF Failed, Result, Results

LEMMA VerifyTyped ==
  ASSUME TypeOK, NEW w \in Workers, NEW result \in VerifyResults(w)
  PROVE  /\ result \in Results /\ ~result.confirmed
         /\ run[w].answer # "refused" => result.confirmOnly
         /\ result.campaign \in {None, Campaign(run[w].claim)}
         /\ run[w].answer # "check" /\ run[w].claim # None
              => result.campaign = Campaign(run[w].claim)
         /\ result.legacy => \/ run[w].answer = "check" /\ run[w].before.legacy
                             \/ run[w].claim = Daily
<1>. DEFINE answer == run[w].answer
            legacy == IF answer = "check" THEN run[w].before.legacy
                                          ELSE run[w].claim = Daily
            named == IF run[w].claim = None THEN None ELSE Campaign(run[w].claim)
            seen == NamedSeen(Failed(TRUE, TRUE), named, legacy)
            nameSeen == IF answer = "check" THEN None ELSE named
            legacySeen == answer # "check" /\ legacy
            blind(retryable) == Named(Failed(retryable, TRUE), nameSeen, legacySeen)
<1>1. run[w].before.legacy \in BOOLEAN /\ run[w].claim \in Claims \cup {None}
  BY DEF TypeOK, Runs, Records
<1>2. /\ legacy \in BOOLEAN /\ named \in Campaigns \cup {None}
      /\ nameSeen \in Campaigns \cup {None} /\ legacySeen \in BOOLEAN
      /\ named \in {None, Campaign(run[w].claim)}
      /\ nameSeen \in {None, named}
      /\ run[w].claim # None => named = Campaign(run[w].claim)
      /\ answer # "check" => nameSeen = named
      /\ legacy => \/ answer = "check" /\ run[w].before.legacy
                   \/ run[w].claim = Daily
      /\ legacySeen => run[w].claim = Daily
  BY <1>1 DEF Campaign, Claims
<1>3. result = Amended(answer, seen)
      \/ \E retryable \in BOOLEAN : result = Amended(answer, blind(retryable))
  BY DEF VerifyResults, Named, NamedSeen
<1>. HIDE DEF legacy, named, nameSeen, legacySeen
<1>4. /\ seen \in Results /\ ~seen.confirmed /\ seen.confirmOnly
      /\ seen.campaign = named /\ seen.legacy = legacy
  <2>1. /\ Failed(TRUE, TRUE) \in Results
        /\ Failed(TRUE, TRUE).confirmed = FALSE
        /\ Failed(TRUE, TRUE).confirmOnly = TRUE
    BY FailedUnconfirmed
  <2>2. /\ seen \in Results
        /\ seen.confirmed = Failed(TRUE, TRUE).confirmed
        /\ seen.confirmOnly = Failed(TRUE, TRUE).confirmOnly
        /\ seen.campaign = named
        /\ seen.legacy = legacy
    BY <1>2, <2>1 DEF seen, NamedSeen, Results
  <2>. QED
    BY <2>1, <2>2
<1>5. ASSUME NEW retryable \in BOOLEAN
      PROVE  /\ blind(retryable) \in Results /\ ~blind(retryable).confirmed
             /\ blind(retryable).confirmOnly
             /\ blind(retryable).campaign = nameSeen
             /\ blind(retryable).legacy = legacySeen
  <2>1. /\ Failed(retryable, TRUE) \in Results
        /\ Failed(retryable, TRUE).confirmed = FALSE
        /\ Failed(retryable, TRUE).confirmOnly = TRUE
    BY FailedUnconfirmed
  <2>2. /\ blind(retryable) \in Results
        /\ blind(retryable).confirmed = Failed(retryable, TRUE).confirmed
        /\ blind(retryable).confirmOnly = Failed(retryable, TRUE).confirmOnly
        /\ blind(retryable).campaign = nameSeen
        /\ blind(retryable).legacy = legacySeen
    BY <1>2, <2>1 DEF blind, Named, Results
  <2>. QED
    BY <2>1, <2>2
<1>. HIDE DEF seen, blind
<1>6. CASE result = Amended(answer, seen)
  BY <1>2, <1>4, <1>6, AmendedTyped
<1>7. ASSUME NEW retryable \in BOOLEAN, result = Amended(answer, blind(retryable))
      PROVE  /\ result \in Results /\ ~result.confirmed
             /\ answer # "refused" => result.confirmOnly
             /\ result.campaign = nameSeen /\ result.legacy = legacySeen
  BY <1>5, <1>7, AmendedTyped
<1>. QED
  BY <1>2, <1>3, <1>6, <1>7

(* Verify in the words of VerifyResults. *)
LEMMA VerifyConcludes ==
  ASSUME NEW w, Verify(w)
  PROVE  /\ run[w].pc = "verify"
         /\ UNCHANGED <<checkinAuto, switching, records, lock, loop, auth,
                        granted, now, charged, stopped>>
         /\ \/ /\ Conclude(w, Confirmed(
                       IF run[w].claim = None THEN None ELSE Campaign(run[w].claim),
                       IF run[w].answer = "check" THEN run[w].before.legacy
                                                  ELSE run[w].claim = Daily,
                       TRUE))
               /\ run[w].claim \in granted[run[w].account]
               /\ doubt' = [doubt EXCEPT ![run[w].account] =
                              IF @ = run[w].claim THEN None ELSE @]
            \/ /\ \E result \in VerifyResults(w) : Conclude(w, result)
               /\ doubt' = doubt
BY DEF Verify, VerifyResults

LEMMA VerifyInv ==
  ASSUME CheckinInv, NEW w \in Workers, Verify(w)
  PROVE  GoesOn(w) /\ CheckinInv'
<1>1. run[w] \in Runs /\ Busy(w) /\ TypeOK
  BY DEF CheckinInv, TypeOK, Verify, Busy
<1>2. run[w].account \in Accounts
  BY <1>1 DEF CheckinInv, Holding, Busy
<1>. DEFINE legacy == IF run[w].answer = "check" THEN run[w].before.legacy
                                                 ELSE run[w].claim = Daily
            named == IF run[w].claim = None THEN None ELSE Campaign(run[w].claim)
<1>3. legacy \in BOOLEAN /\ named \in Campaigns \cup {None}
  BY <1>1 DEF Runs, Records, Campaign, Claims
<1>4. CASE \E result \in VerifyResults(w) : Conclude(w, result) /\ doubt' = doubt
  <2>1. GoesOn(w)
    BY <1>1, <1>4, VerifyTyped, ConcludeGoesOn
  <2>. QED
    BY <1>1, <1>4, <2>1, GoesOnInv, VerifyConcludes DEF TypeOK
<1>5. CASE /\ Conclude(w, Confirmed(named, legacy, TRUE))
           /\ doubt' = [doubt EXCEPT ![run[w].account] =
                          IF @ = run[w].claim THEN None ELSE @]
  <2>. HIDE DEF legacy, named
  <2>1. GoesOn(w)
    BY <1>1, <1>3, <1>5, ResultsTyped, ConcludeGoesOn
  <2>2. doubt' \in [Accounts -> Claims \cup {None}]
    BY <1>1, <1>2, <1>5 DEF TypeOK
  <2>. QED
    BY <1>1, <2>1, <2>2, GoesOnInv, VerifyConcludes DEF TypeOK
<1>. QED
  BY <1>4, <1>5, VerifyConcludes

LEMMA ReadSwitchInv ==
  ASSUME CheckinInv, NEW w \in Workers, ReadSwitch(w)
  PROVE  GoesOn(w) /\ CheckinInv'
<1>1. run[w] \in Runs /\ Busy(w) /\ TypeOK /\ run \in [Workers -> Runs]
  BY DEF CheckinInv, TypeOK, ReadSwitch, Busy
<1>2. checkinAuto \in BOOLEAN
  BY <1>1 DEF TypeOK
<1>3. /\ run'[w] = [run[w] EXCEPT !.pc = "finish", !.enabled = checkinAuto]
      /\ run' = [run EXCEPT ![w] = run'[w]]
  BY <1>1 DEF ReadSwitch
<1>4. /\ run'[w] \in Runs /\ run'[w].pc = "finish"
      /\ run'[w].account = run[w].account /\ run'[w].source = run[w].source
      /\ run'[w].before = run[w].before
  BY <1>1, <1>2, <1>3 DEF Runs
<1>5. GoesOn(w)
  BY <1>1, <1>3, <1>4 DEF GoesOn
<1>. QED
  BY <1>1, <1>5, GoesOnInv DEF ReadSwitch, TypeOK, history

-----------------------------------------------------------------------------
(* Steps that leave every lock alone: what remains is the bookkeeping of   *)
(* each account.                                                           *)
Kept(a) ==
  /\ a \in DOMAIN records' =>
       /\ a \in DOMAIN records
       /\ records'[a] \in Records
       /\ records'[a].day = records[a].day
       /\ records'[a].retries = records[a].retries
       /\ records'[a].inFlight = records[a].inFlight
       /\ records'[a].confirmOnly = records[a].confirmOnly
       /\ stopped'[a] => /\ records'[a].next = 0
                         /\ lock[a] # None => records'[a].revoked
  /\ a \in DOMAIN records /\ a \notin DOMAIN records' =>
       /\ ~records[a].inFlight
       /\ ~ (records[a].day = Day(now) /\ records[a].retries > 0)

(* The runs that have no lock may start and end. *)
Waiting ==
  /\ run' \in [Workers -> Runs]
  /\ \A w \in Workers : \/ run'[w] = run[w]
                        \/ ~Busy(w) /\ run'[w] = IdleRun
                        \/ /\ ~Busy(w) /\ run'[w].pc = "lock"
                           /\ run'[w].account \in Accounts

LEMMA UnlockedInv ==
  ASSUME CheckinInv, Waiting, UNCHANGED <<lock, now, charged>>,
         {checkinAuto', switching'} \subseteq BOOLEAN,
         DOMAIN records' \subseteq DOMAIN records,
         \A a \in Accounts : Kept(a),
         loop' \in [pc : {"wait", "list", "run", "auto"}, due : SUBSET Accounts,
                    live : SUBSET Accounts, listErr : BOOLEAN, timer : Nat],
         loop'.pc \in {"wait", "list"} => LoopQuiet',
         auth' \in [Accounts -> {"enabled", "disabled", "gone"}],
         \A a \in Accounts : lock[a] # None => auth'[a] = auth[a],
         granted' \in [Accounts -> SUBSET Claims], doubt' = doubt,
         stopped' \in [Accounts -> BOOLEAN]
  PROVE  CheckinInv'
<1>1. TypeOK'
  <2>1. DOMAIN records' \subseteq Accounts
    BY DEF CheckinInv, TypeOK
  <2>2. \A a \in DOMAIN records' : records'[a] \in Records
    BY <2>1 DEF Kept
  <2>. QED
    BY <2>1, <2>2 DEF CheckinInv, TypeOK, Waiting
<1>2. /\ lock \in [Accounts -> Workers \cup {None}]
      /\ \A a \in Accounts : lock[a] # None => lock[a] \in Workers
  BY DEF CheckinInv, TypeOK
<1>3. \A w \in Workers :
        /\ Busy(w)' <=> Busy(w)
        /\ Busy(w) => run'[w] = run[w]
        /\ run'[w] = run[w] \/ run'[w].pc \in {"idle", "lock"}
        /\ run'[w] # run[w] /\ run'[w].pc # "idle" => run'[w].account \in Accounts
  BY DEF Waiting, Busy, IdleRun
<1>4. Holding'
  <2>1. Holding
    BY DEF CheckinInv
  <2>2. ASSUME NEW w \in Workers
        PROVE  /\ run'[w].pc # "idle" => run'[w].account \in Accounts
               /\ run'[w].pc = "post" => run'[w].claim # None
               /\ Busy(w)' => lock'[run'[w].account] = w
    BY <1>3, <2>1 DEF Holding
  <2>3. ASSUME NEW a \in Accounts, lock'[a] # None
        PROVE  /\ run'[lock'[a]].account = a
               /\ run'[lock'[a]].pc \notin {"idle", "lock"}
    <3>1. lock[a] \in Workers /\ Busy(lock[a]) /\ run[lock[a]].account = a
      BY <1>2, <2>1, <2>3 DEF Holding
    <3>2. run'[lock[a]] = run[lock[a]]
      BY <1>3, <3>1
    <3>. QED
      BY <3>1, <3>2 DEF Busy
  <2>. QED
    BY <2>2, <2>3 DEF Holding, Busy
<1>5. ParkedLeftAlone'
  <2>1. ASSUME NEW w \in Workers, run'[w].pc \in {"observe", "post", "verify"},
               run'[w].source # "manual"
        PROVE  auth'[run'[w].account] = "enabled"
    <3>1. Busy(w) /\ run'[w] = run[w]
      BY <1>3, <2>1 DEF Busy
    <3>2. lock[run[w].account] = w /\ run[w].account \in Accounts /\ w # None
      BY <3>1, CheckinAssumption DEF CheckinInv, Holding, Busy
    <3>. QED
      BY <2>1, <3>1, <3>2 DEF CheckinInv, ParkedLeftAlone
  <2>. QED
    BY <2>1 DEF ParkedLeftAlone
<1>6. ASSUME NEW a \in Accounts PROVE Recorded(a)' /\ Budgeted(a)' /\ Cancelled(a)'
  <2>1. lock[a] # None => run'[lock[a]].before = run[lock[a]].before
    BY <1>2, <1>3 DEF CheckinInv, Holding
  <2>2. Kept(a)
    OBVIOUS
  <2>. HIDE DEF CheckinInv
  <2>. QED
    BY <2>1, <2>2, Standing DEF Kept
<1>. QED
  BY <1>1, <1>4, <1>5, <1>6 DEF CheckinInv

(* Nothing happens to the records. *)
LEMMA SameKept ==
  ASSUME CheckinInv, UNCHANGED <<records, stopped>>, NEW a \in Accounts
  PROVE  Kept(a)
BY DEF CheckinInv, TypeOK, Cancelled, Kept

(* Schedules are cancelled. *)
LEMMA CancelKept ==
  ASSUME CheckinInv, NEW as \in SUBSET Accounts, records' = Cancel(records, as),
         \A a \in Accounts : stopped'[a] => stopped[a] \/ a \in as \/ a \notin DOMAIN records,
         NEW a \in Accounts
  PROVE  /\ DOMAIN records' = DOMAIN records
         /\ Kept(a)
<1>1. /\ \A b \in DOMAIN records : records[b] \in Records
      /\ Recorded(a) /\ Cancelled(a)
  BY DEF CheckinInv, TypeOK
<1>2. DOMAIN records' = DOMAIN records
  BY <1>1, CancelTyped
<1>3. a \in DOMAIN records =>
        /\ records'[a] \in Records
        /\ records'[a].day = records[a].day
        /\ records'[a].retries = records[a].retries
        /\ records'[a].inFlight = records[a].inFlight
        /\ records'[a].confirmOnly = records[a].confirmOnly
        /\ a \in as => records'[a].next = 0 /\ records'[a].revoked = records[a].inFlight
        /\ a \notin as => records'[a] = records[a]
  BY <1>1 DEF Cancel, Records
<1>4. a \in DOMAIN records /\ stopped'[a] =>
        /\ records'[a].next = 0
        /\ lock[a] # None => records'[a].revoked
  BY <1>1, <1>3 DEF Recorded, Cancelled
<1>. QED
  BY <1>2, <1>3, <1>4 DEF Kept

(* A waiting run is turned away. *)
LEMMA TurnedAway ==
  ASSUME CheckinInv, NEW w \in Workers, run[w].pc = "lock",
         run' = [run EXCEPT ![w] = IdleRun]
  PROVE  Waiting /\ (LoopQuiet => LoopQuiet')
<1>1. /\ run \in [Workers -> Runs] /\ IdleRun \in Runs
      /\ ~Busy(w) /\ IdleRun.pc = "idle" /\ Accounts \subseteq Workers
  BY IdleTyped DEF CheckinInv, TypeOK, Busy, IdleRun, Workers
<1>2. LoopQuiet => LoopQuiet'
  BY <1>1 DEF LoopQuiet
<1>. QED
  BY <1>1, <1>2 DEF Waiting

(* What most of these steps leave alone. *)
LEMMA WaitTyped ==
  ASSUME CheckinInv
  PROVE  /\ {checkinAuto, switching} \subseteq BOOLEAN
         /\ DOMAIN records \subseteq Accounts
         /\ loop \in [pc : {"wait", "list", "run", "auto"}, due : SUBSET Accounts,
                      live : SUBSET Accounts, listErr : BOOLEAN, timer : Nat]
         /\ auth \in [Accounts -> {"enabled", "disabled", "gone"}]
         /\ granted \in [Accounts -> SUBSET Claims]
         /\ stopped \in [Accounts -> BOOLEAN]
         /\ run \in [Workers -> Runs]
         /\ lock \in [Accounts -> Workers \cup {None}]
         /\ now \in Nat
         /\ loop.pc \in {"wait", "list"} => LoopQuiet
         /\ Accounts \subseteq Workers
BY DEF CheckinInv, TypeOK, Holding, Workers

LEMMA SameWaiting ==
  ASSUME CheckinInv, run' = run
  PROVE  Waiting /\ (LoopQuiet' <=> LoopQuiet)
BY DEF CheckinInv, TypeOK, Holding, Waiting, LoopQuiet

LEMMA ManualInv ==
  ASSUME CheckinInv, NEW c \in Callers, NEW a \in Accounts, Manual(c, a)
  PROVE  CheckinInv'
<1>1. c \in Workers /\ c \notin Accounts
  BY CheckinAssumption DEF Workers
<1>2. /\ StartRun(a, "manual", FALSE) \in Runs
      /\ StartRun(a, "manual", FALSE).pc = "lock"
      /\ StartRun(a, "manual", FALSE).account = a
  BY StartTyped
<1>3. Waiting /\ (LoopQuiet' <=> LoopQuiet)
  <2>. DEFINE started == StartRun(a, "manual", FALSE)
  <2>. HIDE DEF started
  <2>1. /\ started \in Runs /\ started.pc = "lock" /\ started.account = a
    BY <1>2 DEF started
  <2>2. run' = [run EXCEPT ![c] = started] /\ run[c].pc = "idle"
    BY DEF Manual, started
  <2>3. /\ run' \in [Workers -> Runs] /\ run'[c] = started
        /\ \A w \in Workers : w # c => run'[w] = run[w]
    BY <1>1, <2>1, <2>2, WaitTyped
  <2>4. LoopQuiet' <=> LoopQuiet
    BY <1>1, <2>3, WaitTyped DEF LoopQuiet
  <2>5. ~Busy(c)
    BY <2>2 DEF Busy
  <2>. QED
    BY <2>1, <2>3, <2>4, <2>5, WaitTyped DEF Waiting
<1>4. \A b \in Accounts : Kept(b)
  BY SameKept DEF Manual, history
<1>. QED
  BY <1>3, <1>4, WaitTyped, UnlockedInv DEF Manual, history

LEMMA TurnAwayInv ==
  ASSUME CheckinInv, NEW w \in Workers, TurnAway(w)
  PROVE  CheckinInv'
<1>. DEFINE a == run[w].account
<1>1. a \in Accounts /\ Waiting
  BY TurnedAway DEF TurnAway, CheckinInv, Holding
<1>2. /\ records' = Cancel(records, {a})
      /\ stopped' = [stopped EXCEPT ![a] = TRUE]
  BY DEF TurnAway
<1>3. /\ stopped' \in [Accounts -> BOOLEAN]
      /\ \A b \in Accounts : stopped'[b] => stopped[b] \/ b = a
  BY <1>1, <1>2, WaitTyped
<1>. HIDE DEF a
<1>4. /\ \A b \in Accounts : Kept(b)
      /\ DOMAIN records' \subseteq DOMAIN records
  BY <1>1, <1>2, <1>3, CancelKept
<1>5. loop.pc \in {"wait", "list"} => LoopQuiet'
  BY TurnedAway, WaitTyped DEF TurnAway
<1>. QED
  BY <1>1, <1>3, <1>4, <1>5, WaitTyped, UnlockedInv DEF TurnAway

LEMMA NoRoomInv ==
  ASSUME CheckinInv, NEW w \in Workers, NoRoom(w)
  PROVE  CheckinInv'
<1>1. Waiting
  BY TurnedAway DEF NoRoom
<1>2. \A b \in Accounts : Kept(b)
  BY SameKept DEF NoRoom, history
<1>3. loop.pc \in {"wait", "list"} => LoopQuiet'
  BY TurnedAway, WaitTyped DEF NoRoom
<1>. QED
  BY <1>1, <1>2, <1>3, WaitTyped, UnlockedInv DEF NoRoom, history

LEMMA ConfigSwitchInv ==
  ASSUME CheckinInv, NEW on \in BOOLEAN, ConfigSwitch(on)
  PROVE  CheckinInv'
<1>1. Waiting /\ (LoopQuiet' <=> LoopQuiet)
  BY SameWaiting DEF ConfigSwitch
<1>2. \A b \in Accounts : Kept(b)
  BY SameKept DEF ConfigSwitch, history
<1>. QED
  BY <1>1, <1>2, WaitTyped, UnlockedInv DEF ConfigSwitch, history

LEMMA PanelSwitchInv ==
  ASSUME CheckinInv, NEW on \in BOOLEAN, PanelSwitch(on)
  PROVE  CheckinInv'
<1>1. Waiting /\ (LoopQuiet' <=> LoopQuiet)
  BY SameWaiting DEF PanelSwitch
<1>2. \A b \in Accounts : Kept(b)
  BY SameKept DEF PanelSwitch, history
<1>. QED
  BY <1>1, <1>2, WaitTyped, UnlockedInv DEF PanelSwitch, history

LEMMA CancelAllKept ==
  ASSUME CheckinInv, records' = Cancel(records, DOMAIN records), NEW a \in Accounts
  PROVE  DOMAIN records' = DOMAIN records /\ Kept(a)
<1>. DEFINE as == DOMAIN records
<1>1. as \in SUBSET Accounts /\ records' = Cancel(records, as)
  BY WaitTyped
<1>2. \A b \in Accounts : stopped'[b] => stopped[b] \/ b \in as \/ b \notin DOMAIN records
  OBVIOUS
<1>. HIDE DEF as
<1>. QED
  BY <1>1, <1>2, CancelKept

LEMMA ConfigCancelInv ==
  ASSUME CheckinInv, ConfigCancel
  PROVE  CheckinInv'
<1>1. Waiting /\ (LoopQuiet' <=> LoopQuiet)
  BY SameWaiting DEF ConfigCancel
<1>2. \A b \in Accounts : Kept(b)
  BY CancelAllKept DEF ConfigCancel
<1>3. DOMAIN records' = DOMAIN records
  BY DEF ConfigCancel, Cancel
<1>4. stopped' \in [Accounts -> BOOLEAN]
  BY DEF ConfigCancel
<1>. QED
  BY <1>1, <1>2, <1>3, <1>4, WaitTyped, UnlockedInv DEF ConfigCancel

LEMMA SetAuthInv ==
  ASSUME CheckinInv, NEW a \in Accounts, NEW state \in {"enabled", "disabled", "gone"},
         SetAuth(a, state)
  PROVE  CheckinInv'
<1>1. Waiting /\ (LoopQuiet' <=> LoopQuiet)
  BY SameWaiting DEF SetAuth
<1>2. /\ auth' \in [Accounts -> {"enabled", "disabled", "gone"}]
      /\ \A b \in Accounts : lock[b] # None => auth'[b] = auth[b]
  BY WaitTyped DEF SetAuth
<1>3. CASE state = "enabled"
  <2>1. \A b \in Accounts : Kept(b)
    BY <1>3, SameKept DEF SetAuth
  <2>. QED
    BY <1>1, <1>2, <1>3, <2>1, WaitTyped, UnlockedInv DEF SetAuth
<1>4. CASE state # "enabled"
  <2>1. /\ records' = Cancel(records, {a})
        /\ stopped' = [stopped EXCEPT ![a] = TRUE]
    BY <1>4 DEF SetAuth
  <2>2. /\ stopped' \in [Accounts -> BOOLEAN]
        /\ \A b \in Accounts : stopped'[b] => stopped[b] \/ b = a
    BY <2>1, WaitTyped
  <2>3. /\ \A b \in Accounts : Kept(b)
        /\ DOMAIN records' \subseteq DOMAIN records
    BY <2>1, <2>2, CancelKept
  <2>. QED
    BY <1>1, <1>2, <2>2, <2>3, WaitTyped, UnlockedInv DEF SetAuth
<1>. QED
  BY <1>3, <1>4

LEMMA ClaimedElsewhereInv ==
  ASSUME CheckinInv, NEW a \in Accounts, NEW claim \in Claims, ClaimedElsewhere(a, claim)
  PROVE  CheckinInv'
<1>1. Waiting /\ (LoopQuiet' <=> LoopQuiet)
  BY SameWaiting DEF ClaimedElsewhere
<1>2. \A b \in Accounts : Kept(b)
  BY SameKept DEF ClaimedElsewhere, history
<1>3. granted' \in [Accounts -> SUBSET Claims]
  BY WaitTyped DEF ClaimedElsewhere
<1>. QED
  BY <1>1, <1>2, <1>3, WaitTyped, UnlockedInv DEF ClaimedElsewhere, history

(* A schedule is dropped. *)
LEMMA Dropped ==
  ASSUME NEW r \in Records, NEW s, s = r \/ s = [r EXCEPT !.next = 0]
  PROVE  /\ s \in Records
         /\ s.day = r.day /\ s.retries = r.retries /\ s.inFlight = r.inFlight
         /\ s.confirmOnly = r.confirmOnly /\ s.revoked = r.revoked
         /\ s.campaign = r.campaign /\ s.legacy = r.legacy
         /\ s.next \in {r.next, 0}
<1>1. CASE s = r
  BY <1>1
<1>2. CASE s = [r EXCEPT !.next = 0]
  BY <1>2 DEF Records
<1>. QED
  BY <1>1, <1>2

LEMMA LoopScanInv ==
  ASSUME CheckinInv, LoopScan
  PROVE  CheckinInv'
<1>1. Waiting /\ (LoopQuiet' <=> LoopQuiet) /\ LoopQuiet
  BY SameWaiting, WaitTyped DEF LoopScan
<1>2. CASE checkinAuto
  <2>1. /\ records' = [a \in DOMAIN records |->
                        IF records[a].day = Day(now)
                          THEN records[a] ELSE [records[a] EXCEPT !.next = 0]]
        /\ UNCHANGED <<checkinAuto, switching, lock, run, auth, granted, now, doubt,
                       charged, stopped>>
    BY <1>2 DEF LoopScan
  <2>2. ASSUME NEW b \in Accounts PROVE Kept(b)
    <3>1. /\ \A a \in DOMAIN records : records[a] \in Records
          /\ Cancelled(b)
      BY DEF CheckinInv, TypeOK
    <3>2. b \in DOMAIN records =>
            \/ records'[b] = records[b]
            \/ records'[b] = [records[b] EXCEPT !.next = 0]
      BY <2>1
    <3>3. b \in DOMAIN records =>
            /\ records'[b] \in Records
            /\ records'[b].day = records[b].day
            /\ records'[b].retries = records[b].retries
            /\ records'[b].inFlight = records[b].inFlight
            /\ records'[b].confirmOnly = records[b].confirmOnly
            /\ records'[b].revoked = records[b].revoked
            /\ records'[b].next \in {records[b].next, 0}
      BY <3>1, <3>2, Dropped
    <3>. QED
      BY <2>1, <3>1, <3>3 DEF Kept, Cancelled
  <2>3. \/ loop' = loop
        \/ \E due \in SUBSET Accounts : loop' = [loop EXCEPT !.pc = "list", !.due = due]
    BY <1>2, WaitTyped DEF LoopScan
  <2>4. loop' \in [pc : {"wait", "list", "run", "auto"}, due : SUBSET Accounts,
                  live : SUBSET Accounts, listErr : BOOLEAN, timer : Nat]
    BY <2>3, WaitTyped
  <2>5. DOMAIN records' = DOMAIN records
    BY <2>1
  <2>. QED
    BY <1>1, <2>1, <2>2, <2>4, <2>5, WaitTyped, UnlockedInv
<1>3. CASE ~checkinAuto
  <2>1. /\ records' = Cancel(records, DOMAIN records)
        /\ stopped' = [a \in Accounts |-> TRUE]
        /\ UNCHANGED <<checkinAuto, switching, lock, run, loop, auth, granted, now,
                       doubt, charged>>
    BY <1>3 DEF LoopScan
  <2>2. \A b \in Accounts : Kept(b)
    BY <2>1, CancelAllKept
  <2>3. DOMAIN records' = DOMAIN records
    BY <2>1 DEF Cancel
  <2>. QED
    BY <1>1, <2>1, <2>2, <2>3, WaitTyped, UnlockedInv
<1>. QED
  BY <1>2, <1>3

LEMMA LoopListInv ==
  ASSUME CheckinInv, LoopList
  PROVE  CheckinInv'
<1>1. Waiting /\ (LoopQuiet' <=> LoopQuiet) /\ LoopQuiet
  BY SameWaiting, WaitTyped DEF LoopList
<1>2. \A b \in Accounts : Kept(b)
  BY SameKept DEF LoopList, history
<1>3. \E listErr \in BOOLEAN, live \in SUBSET Accounts :
        loop' = [loop EXCEPT !.pc = "run", !.listErr = listErr, !.live = live]
  <2>1. PICK listErr \in BOOLEAN :
          loop' = [loop EXCEPT !.pc = "run", !.listErr = listErr,
                               !.live = IF listErr THEN {} ELSE Listed]
    BY DEF LoopList
  <2>. DEFINE live == IF listErr THEN {} ELSE Listed
  <2>2. live \in SUBSET Accounts
    BY DEF Listed
  <2>3. loop' = [loop EXCEPT !.pc = "run", !.listErr = listErr, !.live = live]
    BY <2>1
  <2>. HIDE DEF live
  <2>. QED
    BY <2>2, <2>3
<1>4. /\ loop' \in [pc : {"wait", "list", "run", "auto"}, due : SUBSET Accounts,
                    live : SUBSET Accounts, listErr : BOOLEAN, timer : Nat]
      /\ loop'.pc = "run"
  BY <1>3, WaitTyped
<1>. QED
  BY <1>1, <1>2, <1>4, WaitTyped, UnlockedInv DEF LoopList, history

LEMMA LoopRetryInv ==
  ASSUME CheckinInv, NEW a \in Accounts, LoopRetry(a)
  PROVE  CheckinInv'
<1>1. /\ loop' \in [pc : {"wait", "list", "run", "auto"}, due : SUBSET Accounts,
                    live : SUBSET Accounts, listErr : BOOLEAN, timer : Nat]
      /\ loop'.pc = "run" /\ loop.pc = "run"
  BY WaitTyped DEF LoopRetry
<1>2. CASE loop.listErr \/ a \in loop.live
  <2>. DEFINE started == StartRun(a, "retry", loop.listErr)
  <2>1. /\ started \in Runs /\ started.pc = "lock" /\ started.account = a
    BY WaitTyped, StartTyped
  <2>2. /\ run' = [run EXCEPT ![a] = started] /\ run[a].pc = "idle"
        /\ UNCHANGED <<checkinAuto, switching, lock, auth, granted, now, doubt,
                       charged, records, stopped>>
    BY <1>2 DEF LoopRetry, LoopQuiet
  <2>. HIDE DEF started
  <2>3. /\ run' \in [Workers -> Runs] /\ run'[a] = started /\ ~Busy(a)
        /\ \A w \in Workers : w # a => run'[w] = run[w]
    BY <2>1, <2>2, WaitTyped DEF Busy
  <2>4. Waiting
    BY <1>1, <2>1, <2>3 DEF Waiting
  <2>5. \A b \in Accounts : Kept(b)
    BY <2>2, SameKept
  <2>. QED
    BY <1>1, <2>2, <2>4, <2>5, WaitTyped, UnlockedInv
<1>3. CASE ~ (loop.listErr \/ a \in loop.live)
  <2>1. /\ records' = Cancel(records, {a})
        /\ stopped' = [stopped EXCEPT ![a] = TRUE]
        /\ UNCHANGED <<checkinAuto, switching, lock, auth, granted, now, doubt,
                       charged, run>>
    BY <1>3 DEF LoopRetry
  <2>2. /\ stopped' \in [Accounts -> BOOLEAN]
        /\ \A b \in Accounts : stopped'[b] => stopped[b] \/ b = a
    BY <2>1, WaitTyped
  <2>3. /\ \A b \in Accounts : Kept(b)
        /\ DOMAIN records' \subseteq DOMAIN records
    BY <2>1, <2>2, CancelKept
  <2>. QED
    BY <1>1, <2>1, <2>2, <2>3, SameWaiting, WaitTyped, UnlockedInv
<1>. QED
  BY <1>2, <1>3

LEMMA LoopAutoInv ==
  ASSUME CheckinInv, LoopAuto
  PROVE  CheckinInv'
<1>1. /\ loop' \in [pc : {"wait", "list", "run", "auto"}, due : SUBSET Accounts,
                    live : SUBSET Accounts, listErr : BOOLEAN, timer : Nat]
      /\ loop'.pc = "auto"
  BY WaitTyped DEF LoopAuto
<1>2. LoopQuiet
  BY WaitTyped DEF LoopAuto
<1>3. ASSUME NEW w \in Workers
      PROVE  /\ run'[w] \in Runs
             /\ \/ run'[w] = run[w]
                \/ ~Busy(w) /\ run'[w].pc = "lock" /\ run'[w].account \in Accounts
  <2>1. run'[w] = IF checkinAuto /\ w \in Listed THEN StartRun(w, "auto", FALSE) ELSE run[w]
    BY DEF LoopAuto
  <2>2. CASE checkinAuto /\ w \in Listed
    <3>1. w \in Accounts /\ ~Busy(w)
      BY <1>2, <2>2 DEF Listed, LoopQuiet, Busy
    <3>2. /\ StartRun(w, "auto", FALSE) \in Runs
          /\ StartRun(w, "auto", FALSE).pc = "lock"
          /\ StartRun(w, "auto", FALSE).account = w
      BY <3>1, StartTyped
    <3>. QED
      BY <2>1, <2>2, <3>1, <3>2
  <2>3. CASE ~ (checkinAuto /\ w \in Listed)
    BY <2>1, <2>3, WaitTyped
  <2>. QED
    BY <2>2, <2>3
<1>4. run' \in [Workers -> Runs]
  <2>1. run' = [w \in Workers |-> run'[w]]
    BY DEF LoopAuto
  <2>. QED
    BY <1>3, <2>1
<1>5. Waiting
  BY <1>3, <1>4 DEF Waiting
<1>6. \A b \in Accounts : Kept(b)
  BY SameKept DEF LoopAuto, history
<1>. QED
  BY <1>1, <1>5, <1>6, WaitTyped, UnlockedInv DEF LoopAuto, history

LEMMA LoopBackInv ==
  ASSUME CheckinInv, LoopBack
  PROVE  CheckinInv'
<1>1. Waiting /\ (LoopQuiet' <=> LoopQuiet) /\ LoopQuiet
  BY SameWaiting DEF LoopBack
<1>2. \A b \in Accounts : Kept(b)
  BY SameKept DEF LoopBack, history
<1>3. loop' \in [pc : {"wait", "list", "run", "auto"}, due : SUBSET Accounts,
                live : SUBSET Accounts, listErr : BOOLEAN, timer : Nat]
  BY WaitTyped, LoopIdleTyped DEF LoopBack
<1>. QED
  BY <1>1, <1>2, <1>3, WaitTyped, UnlockedInv DEF LoopBack, history

(* A tick: at midnight the budgets are new. *)
LEMMA TickInv ==
  ASSUME CheckinInv, Tick
  PROVE  CheckinInv'
<1>1. /\ now' \in Nat
      /\ charged' \in [Accounts -> Nat]
      /\ granted' \in [Accounts -> SUBSET Claims]
      /\ UNCHANGED <<checkinAuto, switching, records, lock, run, loop, auth,
                     doubt, stopped>>
  BY DEF Tick, CheckinInv, TypeOK
<1>2. /\ TypeOK' /\ Holding' /\ ParkedLeftAlone'
  BY <1>1 DEF CheckinInv, TypeOK, Holding, ParkedLeftAlone, Busy, LoopQuiet
<1>3. ASSUME NEW a \in Accounts PROVE Recorded(a)' /\ Budgeted(a)' /\ Cancelled(a)'
  <2>1. Recorded(a)' /\ Cancelled(a)'
    BY <1>1 DEF CheckinInv, Recorded, Cancelled
  <2>2. CASE Day(now') = Day(now)
    <3>1. charged' = charged
      BY <2>2 DEF Tick
    <3>2. Budgeted(a) /\ Day(now)' = Day(now)
      BY <2>2 DEF CheckinInv, Day
    <3>3. Budgeted(a)'
      BY <1>1, <3>1, <3>2 DEF Budgeted
    <3>. QED
      BY <2>1, <3>3
  <2>3. CASE Day(now') # Day(now)
    <3>1. charged'[a] = 0
      BY <2>3 DEF Tick
    <3>2. Budgeted(a)'
      BY <3>1 DEF Budgeted
    <3>. QED
      BY <2>1, <3>2
  <2>. QED
    BY <2>1, <2>2, <2>3
<1>. QED
  BY <1>2, <1>3 DEF CheckinInv

LEMMA StartInv ==
  /\ Init => CheckinInv
  /\ CheckinInv /\ Restart => CheckinInv'
<1>1. Accounts \subseteq Workers /\ IdleRun.pc = "idle"
  BY DEF Workers, IdleRun
<1>2. ASSUME Init PROVE CheckinInv
  <2>1. TypeOK
    <3>1. /\ DOMAIN records = {} /\ now \in Nat
          /\ loop \in [pc : {"wait", "list", "run", "auto"}, due : SUBSET Accounts,
                      live : SUBSET Accounts, listErr : BOOLEAN, timer : Nat]
          /\ run \in [Workers -> Runs]
      BY <1>2, IdleTyped, LoopIdleTyped DEF Init
    <3>2. /\ charged \in [Accounts -> Nat] /\ stopped \in [Accounts -> BOOLEAN]
          /\ granted \in [Accounts -> SUBSET Claims]
          /\ doubt \in [Accounts -> Claims \cup {None}]
          /\ lock \in [Accounts -> Workers \cup {None}]
          /\ auth \in [Accounts -> {"enabled", "disabled", "gone"}]
          /\ {checkinAuto, switching} \subseteq BOOLEAN
      BY <1>2 DEF Init
    <3>. QED
      BY <3>1, <3>2 DEF TypeOK
  <2>2. Holding /\ ParkedLeftAlone
    BY <1>1, <1>2 DEF Init, Holding, ParkedLeftAlone, Busy, LoopQuiet
  <2>. QED
    BY <1>2, <2>1, <2>2 DEF Init, CheckinInv, Recorded, Budgeted, Cancelled
<1>3. ASSUME CheckinInv, Restart PROVE CheckinInv'
  <2>1. TypeOK'
    <3>1. /\ DOMAIN records' = {} /\ UNCHANGED <<auth, granted, now>>
          /\ loop' \in [pc : {"wait", "list", "run", "auto"}, due : SUBSET Accounts,
                       live : SUBSET Accounts, listErr : BOOLEAN, timer : Nat]
          /\ run' \in [Workers -> Runs]
      BY <1>3, IdleTyped, LoopIdleTyped, WaitTyped DEF Restart
    <3>2. /\ charged' \in [Accounts -> Nat] /\ stopped' \in [Accounts -> BOOLEAN]
          /\ doubt' \in [Accounts -> Claims \cup {None}]
          /\ lock' \in [Accounts -> Workers \cup {None}]
          /\ {checkinAuto', switching'} \subseteq BOOLEAN
      BY <1>3 DEF Restart
    <3>. QED
      BY <1>3, <3>1, <3>2, WaitTyped DEF TypeOK
  <2>2. Holding' /\ ParkedLeftAlone'
    BY <1>1, <1>3 DEF Restart, Holding, ParkedLeftAlone, Busy, LoopQuiet
  <2>. QED
    BY <1>3, <2>1, <2>2 DEF Restart, CheckinInv, Recorded, Budgeted, Cancelled
<1>. QED
  BY <1>2, <1>3

-----------------------------------------------------------------------------
(* reserveCheckin.  What it may do to the other records ...  *)
Roomy(b) ==
  /\ b \in DOMAIN records' => b \in DOMAIN records /\ records'[b] = records[b]
  /\ b \in DOMAIN records /\ b \notin DOMAIN records' =>
       /\ ~records[b].inFlight /\ ~records[b].confirmOnly
       /\ ~ (records[b].day = Day(now) /\ records[b].retries > 0)

(* ... and how it begins a run. *)
Begins(w) ==
  LET a == run[w].account
      retry == run[w].source = "retry"
      known == a \in DOMAIN records
      today == known /\ records[a].day = Day(now)
      before == run'[w].before
  IN  /\ lock' = [lock EXCEPT ![a] = w]
      /\ run' = [run EXCEPT ![w] = run'[w]]
      /\ run'[w] \in Runs
      /\ run'[w].pc = "read" /\ run'[w].account = a
      /\ run'[w].source = run[w].source
      /\ run'[w].claim = run[w].claim /\ run'[w].result = run[w].result
      /\ a \in DOMAIN records' /\ records'[a] = before
      /\ before \in Records /\ before.day = Day(now)
      /\ before.inFlight /\ ~before.revoked
      /\ retry => /\ today /\ records[a].next # 0
                  /\ records[a].retries < Len(RetryDelays)
                  /\ before.next = 0
                  /\ before.retries = records[a].retries + 1
      /\ ~retry => before.retries = IF today THEN records[a].retries ELSE 0
      /\ before.confirmOnly = (known /\ records[a].confirmOnly)
      /\ before.campaign = IF known THEN records[a].campaign ELSE None
      /\ before.legacy = (known /\ records[a].legacy)
      /\ charged' = [charged EXCEPT ![a] = IF retry THEN @ + 1 ELSE @]
      /\ stopped' = [stopped EXCEPT ![a] = retry /\ @]

LEMMA ReserveBegins ==
  ASSUME CheckinInv, NEW w \in Workers, Reserve(w)
  PROVE  LET a == run[w].account
         IN  /\ a \in Accounts /\ lock[a] = None /\ run[w].pc = "lock"
             /\ UNCHANGED <<checkinAuto, switching, loop, auth, granted, now, doubt>>
             /\ \A b \in Accounts \ {a} : Roomy(b)
             /\ DOMAIN records' \subseteq DOMAIN records \cup {a}
             /\ \/ Begins(w)
                \/ /\ run' = [run EXCEPT ![w] = IdleRun]
                   /\ UNCHANGED <<lock, charged, stopped>>
                   /\ Roomy(a)
                   /\ DOMAIN records' \subseteq DOMAIN records
<1>. DEFINE a == run[w].account
            source == run[w].source
            today == Day(now)
<1>1. /\ a \in Accounts /\ lock[a] = None /\ run[w].pc = "lock"
      /\ UNCHANGED <<checkinAuto, switching, loop, auth, granted, now, doubt>>
  BY DEF Reserve, CheckinInv, Holding
<1>2. /\ today \in Nat /\ run \in [Workers -> Runs]
      /\ \A b \in DOMAIN records : records[b] \in Records
  BY DayNat DEF CheckinInv, TypeOK
<1>3. PICK table \in MakeRoom(records, a, today) :
        LET r == Todays(table, a, today)
            begun == [Charge(r, source) EXCEPT !.at = now,
                        !.inFlight = TRUE, !.revoked = FALSE]
        IN  IF Admits(r, source)
              THEN /\ records' = [k \in DOMAIN table \cup {a} |->
                                    IF k = a THEN begun ELSE table[k]]
                   /\ lock' = [lock EXCEPT ![a] = w]
                   /\ run' = [run EXCEPT ![w].pc = "read",
                                         ![w].before = begun]
                   /\ charged' = [charged EXCEPT ![a] =
                                    IF source = "retry" THEN @ + 1 ELSE @]
                   /\ stopped' = [stopped EXCEPT ![a] = source = "retry" /\ @]
              ELSE /\ records' = table
                   /\ run' = [run EXCEPT ![w] = IdleRun]
                   /\ UNCHANGED <<lock, charged, stopped>>
  BY DEF Reserve
<1>. DEFINE r == Todays(table, a, today)
            begun == Begun(r, source)
<1>. HIDE DEF today
<1>4. /\ a \in DOMAIN records => table = records
      /\ DOMAIN table \subseteq DOMAIN records
      /\ \A b \in DOMAIN table : table[b] = records[b]
      /\ \A b \in DOMAIN records \ DOMAIN table :
           /\ ~records[b].inFlight /\ ~records[b].confirmOnly
           /\ ~ (records[b].day = today /\ (records[b].retries > 0 \/ records[b].next # 0))
  BY <1>1, RoomMade
<1>5. \A b \in DOMAIN table : table[b] \in Records
  BY <1>2, <1>4
<1>6. /\ r \in Records
      /\ r.day = today
      /\ a \in DOMAIN table =>
           /\ r.confirmOnly = table[a].confirmOnly
           /\ r.campaign = table[a].campaign
           /\ r.legacy = table[a].legacy
           /\ table[a].day = today => r = table[a]
           /\ table[a].day # today => r.retries = 0 /\ r.next = 0
      /\ a \notin DOMAIN table =>
           /\ r.retries = 0 /\ r.next = 0 /\ ~r.confirmOnly
           /\ r.campaign = None /\ ~r.legacy
  BY <1>2, <1>5, TodaysTyped
<1>. HIDE DEF r
<1>7. /\ begun \in Records
      /\ begun.day = r.day /\ begun.inFlight /\ ~begun.revoked
      /\ begun.confirmOnly = r.confirmOnly /\ begun.campaign = r.campaign
      /\ begun.legacy = r.legacy
      /\ source = "retry" => begun.retries = r.retries + 1 /\ begun.next = 0
      /\ source # "retry" => begun.retries = r.retries
  <2>1. now \in Nat /\ r \in Records
    BY <1>6, WaitTyped
  <2>. QED
    BY <2>1, BegunTyped DEF begun
<1>. HIDE DEF begun
<1>8. CASE Admits(r, source)
  <2>1. /\ records' = [k \in DOMAIN table \cup {a} |-> IF k = a THEN begun ELSE table[k]]
        /\ lock' = [lock EXCEPT ![a] = w]
        /\ run' = [run EXCEPT ![w].pc = "read", ![w].before = begun]
        /\ charged' = [charged EXCEPT ![a] = IF source = "retry" THEN @ + 1 ELSE @]
        /\ stopped' = [stopped EXCEPT ![a] = source = "retry" /\ @]
    BY <1>3, <1>8 DEF begun, r, Begun
  <2>2. \A b \in Accounts \ {a} : Roomy(b)
    BY <1>4, <2>1 DEF Roomy, today
  <2>3. /\ run'[w] = [run[w] EXCEPT !.pc = "read", !.before = begun]
        /\ run' = [run EXCEPT ![w] = run'[w]]
    BY <1>2, <2>1
  <2>4. /\ run'[w] \in Runs /\ run'[w].pc = "read" /\ run'[w].before = begun
        /\ run'[w].account = a /\ run'[w].source = source
        /\ run'[w].claim = run[w].claim /\ run'[w].result = run[w].result
    <3>1. run[w] \in Runs /\ begun \in Records
      BY <1>2, <1>7
    <3>. QED
      BY <2>3, <3>1 DEF Runs
  <2>5. a \in DOMAIN records' /\ records'[a] = begun
    BY <2>1
  <2>6. source = "retry" => r.next # 0 /\ r.retries < Len(RetryDelays)
    BY <1>8 DEF Admits
  <2>7. a \in DOMAIN records <=> a \in DOMAIN table
    BY <1>4
  <2>8. source = "retry" =>
          /\ a \in DOMAIN records /\ records[a].day = today
          /\ records[a].next # 0 /\ records[a].retries < Len(RetryDelays)
          /\ begun.next = 0 /\ begun.retries = records[a].retries + 1
    BY <1>4, <1>6, <1>7, <2>6, <2>7
  <2>9. source # "retry" => begun.retries =
          IF a \in DOMAIN records /\ records[a].day = today THEN records[a].retries ELSE 0
    BY <1>4, <1>6, <1>7, <2>7
  <2>10. /\ begun.confirmOnly = (a \in DOMAIN records /\ records[a].confirmOnly)
         /\ begun.campaign = IF a \in DOMAIN records THEN records[a].campaign ELSE None
         /\ begun.legacy = (a \in DOMAIN records /\ records[a].legacy)
    BY <1>2, <1>4, <1>6, <1>7, <2>7 DEF Records
  <2>11. Begins(w)
    BY <1>6, <1>7, <2>1, <2>3, <2>4, <2>5, <2>8, <2>9, <2>10 DEF Begins, today
  <2>12. DOMAIN records' \subseteq DOMAIN records \cup {a}
    BY <1>4, <2>1
  <2>. QED
    BY <1>1, <2>2, <2>11, <2>12
<1>9. CASE ~Admits(r, source)
  <2>1. /\ records' = table
        /\ run' = [run EXCEPT ![w] = IdleRun]
        /\ UNCHANGED <<lock, charged, stopped>>
    BY <1>3, <1>9 DEF r
  <2>2. \A b \in Accounts : Roomy(b)
    BY <1>4, <2>1 DEF Roomy, today
  <2>. QED
    BY <1>1, <1>4, <2>1, <2>2
<1>. QED
  BY <1>8, <1>9

LEMMA ReserveInv ==
  ASSUME CheckinInv, NEW w \in Workers, Reserve(w)
  PROVE  CheckinInv'
<1>. DEFINE a == run[w].account
<1>1. /\ a \in Accounts /\ lock[a] = None /\ run[w].pc = "lock"
      /\ UNCHANGED <<checkinAuto, switching, loop, auth, granted, now, doubt>>
      /\ \A b \in Accounts \ {a} : Roomy(b)
      /\ DOMAIN records' \subseteq DOMAIN records \cup {a}
  BY ReserveBegins
<1>2. CASE /\ run' = [run EXCEPT ![w] = IdleRun]
           /\ UNCHANGED <<lock, charged, stopped>>
           /\ Roomy(a)
           /\ DOMAIN records' \subseteq DOMAIN records
  <2>1. ASSUME NEW b \in Accounts PROVE Kept(b)
    <3>1. Roomy(b)
      BY <1>1, <1>2
    <3>2. /\ b \in DOMAIN records => records[b] \in Records
          /\ Cancelled(b)
      BY DEF CheckinInv, TypeOK
    <3>. QED
      BY <1>2, <3>1, <3>2 DEF Roomy, Kept, Cancelled
  <2>2. Waiting /\ (LoopQuiet => LoopQuiet')
    BY <1>1, <1>2, TurnedAway
  <2>. QED
    BY <1>1, <1>2, <2>1, <2>2, WaitTyped, UnlockedInv
<1>3. CASE Begins(w)
  <2>. DEFINE before == run'[w].before
              retry == run[w].source = "retry"
  <2>1. /\ lock' = [lock EXCEPT ![a] = w]
        /\ run' = [run EXCEPT ![w] = run'[w]]
        /\ run'[w] \in Runs /\ run'[w].pc = "read" /\ run'[w].account = a
        /\ a \in DOMAIN records' /\ records'[a] = before
        /\ before \in Records /\ before.day = Day(now) /\ before.inFlight
        /\ charged' = [charged EXCEPT ![a] = IF retry THEN @ + 1 ELSE @]
        /\ stopped' = [stopped EXCEPT ![a] = retry /\ @]
    BY <1>3 DEF Begins
  <2>2. /\ retry => /\ a \in DOMAIN records /\ records[a].day = Day(now)
                    /\ records[a].next # 0
                    /\ records[a].retries < Len(RetryDelays)
                    /\ before.retries = records[a].retries + 1
        /\ ~retry => before.retries =
             IF a \in DOMAIN records /\ records[a].day = Day(now) THEN records[a].retries ELSE 0
    BY <1>3 DEF Begins
  <2>. HIDE DEF before, retry, a
  <2>3. /\ run \in [Workers -> Runs] /\ lock \in [Accounts -> Workers \cup {None}]
        /\ charged \in [Accounts -> Nat] /\ stopped \in [Accounts -> BOOLEAN]
        /\ DOMAIN records \subseteq Accounts
        /\ \A b \in DOMAIN records : records[b] \in Records
        /\ w # None /\ Accounts \subseteq Workers
    BY CheckinAssumption DEF CheckinInv, TypeOK, Workers
  <2>4. /\ run' \in [Workers -> Runs]
        /\ \A u \in Workers : u # w => run'[u] = run[u]
        /\ lock' \in [Accounts -> Workers \cup {None}]
        /\ lock'[a] = w
        /\ \A b \in Accounts : b # a => lock'[b] = lock[b]
    BY <1>1, <2>1, <2>3
  <2>5. TypeOK'
    <3>1. charged' \in [Accounts -> Nat] /\ stopped' \in [Accounts -> BOOLEAN]
      BY <1>1, <2>1, <2>3 DEF retry
    <3>2. DOMAIN records' \subseteq Accounts
      BY <1>1, <2>3
    <3>3. \A b \in DOMAIN records' : records'[b] \in Records
      BY <1>1, <2>1, <2>3, <3>2 DEF Roomy
    <3>. QED
      BY <1>1, <2>4, <3>1, <3>2, <3>3 DEF CheckinInv, TypeOK
  <2>6. /\ ~Busy(w)
        /\ \A u \in Workers : Busy(u) => run'[u] = run[u] /\ run[u].account # a
    <3>1. ~Busy(w)
      BY <1>1 DEF Busy
    <3>2. ASSUME NEW u \in Workers, Busy(u) PROVE run'[u] = run[u] /\ run[u].account # a
      <4>1. lock[run[u].account] = u /\ u # None
        BY <3>2, CheckinAssumption DEF CheckinInv, Holding
      <4>. QED
        BY <1>1, <2>4, <3>1, <3>2, <4>1
    <3>. QED
      BY <3>1, <3>2
  <2>7. Holding'
    <3>1. Holding
      BY DEF CheckinInv
    <3>2. ASSUME NEW u \in Workers
          PROVE  /\ run'[u].pc # "idle" => run'[u].account \in Accounts
                 /\ run'[u].pc = "post" => run'[u].claim # None
                 /\ run'[u].pc \notin {"idle", "lock"} => lock'[run'[u].account] = u
      <4>1. CASE u = w
        BY <1>1, <2>1, <2>4, <4>1
      <4>2. CASE u # w
        BY <2>4, <2>6, <3>1, <4>2 DEF Holding, Busy
      <4>. QED
        BY <4>1, <4>2
    <3>3. ASSUME NEW b \in Accounts, lock'[b] # None
          PROVE  /\ run'[lock'[b]].account = b
                 /\ run'[lock'[b]].pc \notin {"idle", "lock"}
      <4>1. CASE b = a
        BY <2>1, <2>4, <4>1
      <4>2. CASE b # a
        <5>1. lock'[b] = lock[b] /\ lock[b] \in Workers
          BY <2>3, <2>4, <3>3, <4>2
        <5>2. Busy(lock[b]) /\ run[lock[b]].account = b
          BY <3>1, <3>3, <5>1 DEF Holding
        <5>. QED
          BY <2>6, <5>1, <5>2 DEF Busy
      <4>. QED
        BY <4>1, <4>2
    <3>4. loop'.pc \in {"wait", "list"} => LoopQuiet'
      BY <1>1, <2>3, <2>4, <3>1 DEF Holding, LoopQuiet
    <3>. QED
      BY <3>2, <3>3, <3>4 DEF Holding, Busy
  <2>8. ParkedLeftAlone'
    BY <1>1, <2>1, <2>4 DEF CheckinInv, ParkedLeftAlone
  <2>9. ASSUME NEW b \in Accounts PROVE Recorded(b)' /\ Budgeted(b)' /\ Cancelled(b)'
    <3>1. Recorded(b) /\ Budgeted(b) /\ Cancelled(b)
      BY DEF CheckinInv
    <3>2. CASE b # a
      <4>1. /\ lock'[b] = lock[b] /\ charged'[b] = charged[b] /\ stopped'[b] = stopped[b]
        BY <1>1, <2>1, <2>3, <3>2
      <4>2. lock[b] # None => run'[lock[b]].before = run[lock[b]].before
        BY <2>3, <2>6 DEF CheckinInv, Holding
      <4>3. Roomy(b)
        BY <1>1, <3>2
      <4>. QED
        BY <1>1, <3>1, <4>1, <4>2, <4>3, Standing DEF Roomy, Cancelled
    <3>3. CASE b = a
      <4>1. /\ b \in DOMAIN records => records[b].retries \in Nat
            /\ charged[b] \in Nat
        BY <2>3 DEF Records
      <4>2. Len(RetryDelays) \in Nat
        BY CheckinAssumption
      <4>3. /\ charged'[b] = IF retry THEN charged[b] + 1 ELSE charged[b]
            /\ lock'[b] = w /\ records'[b] = before /\ b \in DOMAIN records'
        BY <1>1, <2>1, <2>3, <2>4, <3>3
      <4>4. before.retries <= Len(RetryDelays)
        BY <2>2, <3>1, <3>3, <4>1, <4>2 DEF Recorded
      <4>5. Recorded(b)'
        BY <2>1, <4>3, <4>4 DEF Recorded, before
      <4>6. charged'[b] > 0 => charged'[b] <= before.retries
        BY <2>2, <3>1, <3>3, <4>1, <4>3 DEF Budgeted
      <4>7. Budgeted(b)'
        <5>1. Day(now)' = Day(now)
          BY <1>1 DEF Day
        <5>. QED
          BY <2>1, <4>3, <4>6, <5>1 DEF Budgeted
      <4>8. ~stopped'[b]
        BY <1>1, <2>1, <2>2, <2>3, <3>1, <3>3 DEF Cancelled
      <4>. QED
        BY <4>5, <4>7, <4>8 DEF Cancelled
    <3>. QED
      BY <3>2, <3>3
  <2>. QED
    BY <2>5, <2>7, <2>8, <2>9 DEF CheckinInv
<1>. QED
  BY <1>2, <1>3, ReserveBegins

(* finishCheckin. *)
LEMMA FinishInv ==
  ASSUME CheckinInv, NEW w \in Workers, Finish(w)
  PROVE  CheckinInv'
<1>. DEFINE a == run[w].account
            before == run[w].before
<1>1. /\ run[w] \in Runs /\ Busy(w) /\ run \in [Workers -> Runs]
      /\ lock \in [Accounts -> Workers \cup {None}]
      /\ DOMAIN records \subseteq Accounts
      /\ \A b \in DOMAIN records : records[b] \in Records
      /\ w # None /\ Accounts \subseteq Workers
  BY CheckinAssumption DEF CheckinInv, TypeOK, Finish, Busy, Workers
<1>2. a \in Accounts /\ lock[a] = w
  BY <1>1 DEF CheckinInv, Holding, Busy
<1>3. /\ Recorded(a) /\ Budgeted(a) /\ Cancelled(a)
      /\ a \in DOMAIN records
      /\ records[a].day = before.day /\ records[a].retries = before.retries
  BY <1>1, <1>2 DEF CheckinInv, Recorded
<1>4. /\ run' = [run EXCEPT ![w] = IdleRun]
      /\ lock' = [lock EXCEPT ![a] = None]
      /\ UNCHANGED <<checkinAuto, switching, loop, auth, granted, now, doubt, charged, stopped>>
  BY DEF Finish, EndRun, history
<1>5. /\ DOMAIN records' = DOMAIN records
      /\ \A b \in DOMAIN records : b # a => records'[b] = records[b]
      /\ records'[a] = Finished(before, records[a].revoked, run[w].result, run[w].enabled)
  <2>1. records' = [k \in DOMAIN records \cup {a} |->
           IF k = a
             THEN Finished(before, a \in DOMAIN records /\ records[a].revoked,
                           run[w].result, run[w].enabled)
             ELSE records[k]]
    BY DEF Finish
  <2>2. (a \in DOMAIN records /\ records[a].revoked) = records[a].revoked
    BY <1>1, <1>3 DEF Records
  <2>. QED
    BY <1>3, <2>1, <2>2
<1>6. /\ records'[a] \in Records
      /\ records'[a].day = before.day /\ records'[a].retries = before.retries
      /\ records[a].revoked => records'[a].next = 0
  <2>1. /\ before \in Records /\ records[a].revoked \in BOOLEAN
        /\ run[w].result \in Results /\ run[w].enabled \in BOOLEAN /\ now \in Nat
    BY <1>1, <1>3, WaitTyped DEF Runs, Records
  <2>. QED
    BY <1>5, <2>1, FinishedTyped
<1>. HIDE DEF a, before
<1>7. /\ run' \in [Workers -> Runs] /\ run'[w] = IdleRun
      /\ \A u \in Workers : u # w => run'[u] = run[u]
      /\ lock' \in [Accounts -> Workers \cup {None}] /\ lock'[a] = None
      /\ \A b \in Accounts : b # a => lock'[b] = lock[b]
      /\ IdleRun.pc = "idle"
  BY <1>1, <1>2, <1>4, IdleTyped DEF IdleRun
<1>8. TypeOK'
  <2>1. \A b \in DOMAIN records' : records'[b] \in Records
    BY <1>1, <1>5, <1>6
  <2>. QED
    BY <1>1, <1>4, <1>5, <1>7, <2>1 DEF CheckinInv, TypeOK
<1>9. Holding'
  <2>1. Holding
    BY DEF CheckinInv
  <2>2. ASSUME NEW u \in Workers
        PROVE  /\ run'[u].pc # "idle" => run'[u].account \in Accounts
               /\ run'[u].pc = "post" => run'[u].claim # None
               /\ run'[u].pc \notin {"idle", "lock"} => lock'[run'[u].account] = u
    <3>1. CASE u = w
      BY <1>7, <3>1
    <3>2. CASE u # w
      BY <1>2, <1>7, <2>1, <3>2 DEF Holding, Busy
    <3>. QED
      BY <3>1, <3>2
  <2>3. ASSUME NEW b \in Accounts, lock'[b] # None
        PROVE  /\ run'[lock'[b]].account = b
               /\ run'[lock'[b]].pc \notin {"idle", "lock"}
    <3>1. b # a /\ lock'[b] = lock[b] /\ lock[b] \in Workers
      BY <1>1, <1>7, <2>3
    <3>2. run[lock[b]].account = b /\ Busy(lock[b]) /\ run[w].account = a
      BY <2>1, <2>3, <3>1 DEF Holding, a
    <3>3. lock[b] # w
      BY <3>1, <3>2
    <3>. QED
      BY <1>7, <3>1, <3>2, <3>3 DEF Busy
  <2>4. loop'.pc \in {"wait", "list"} => LoopQuiet'
    BY <1>1, <1>4, <1>7, <2>1 DEF Holding, LoopQuiet
  <2>. QED
    BY <2>2, <2>3, <2>4 DEF Holding, Busy
<1>10. ParkedLeftAlone'
  BY <1>4, <1>7 DEF CheckinInv, ParkedLeftAlone
<1>11. ASSUME NEW b \in Accounts PROVE Recorded(b)' /\ Budgeted(b)' /\ Cancelled(b)'
  <2>1. CASE b # a
    <3>1. lock'[b] = lock[b]
      BY <1>7, <2>1
    <3>2. lock[b] # None => run'[lock[b]].before = run[lock[b]].before
      BY <1>1, <1>7, <2>1 DEF CheckinInv, Holding, a
    <3>3. Cancelled(b) /\ (b \in DOMAIN records => records'[b] = records[b])
      BY <1>5, <2>1 DEF CheckinInv
    <3>. QED
      BY <1>4, <1>5, <3>1, <3>2, <3>3, Standing DEF Cancelled
  <2>2. CASE b = a
    <3>1. /\ Recorded(b) /\ Budgeted(b) /\ Cancelled(b)
          /\ b \in DOMAIN records /\ b \in DOMAIN records' /\ lock[b] # None
          /\ lock'[b] = None
          /\ records'[b].day = records[b].day
          /\ records'[b].retries = records[b].retries
          /\ records[b].revoked => records'[b].next = 0
      BY <1>1, <1>2, <1>3, <1>5, <1>6, <1>7, <2>2
    <3>2. Recorded(b)'
      BY <3>1 DEF Recorded
    <3>3. Budgeted(b)'
      <4>1. Day(now)' = Day(now)
        BY <1>4 DEF Day
      <4>. QED
        BY <1>4, <3>1, <4>1 DEF Budgeted
    <3>4. Cancelled(b)'
      BY <1>4, <3>1 DEF Cancelled
    <3>. QED
      BY <3>2, <3>3, <3>4
  <2>. QED
    BY <2>1, <2>2
<1>. QED
  BY <1>8, <1>9, <1>10, <1>11 DEF CheckinInv

LEMMA CheckinNext == CheckinInv /\ [Next]_vars => CheckinInv'
<1>. SUFFICES ASSUME CheckinInv, [Next]_vars PROVE CheckinInv'
  OBVIOUS
<1>1. CASE UNCHANGED vars
  BY <1>1 DEF vars, history, CheckinInv, TypeOK, Holding, ParkedLeftAlone, Recorded,
              Budgeted, Cancelled, Busy, LoopQuiet, Day
<1>2. ASSUME NEW w \in Workers, RunStep(w) PROVE CheckinInv'
  BY <1>2, TurnAwayInv, ReserveInv, NoRoomInv, ReadAuthInv, ObserveInv, PostInv, VerifyInv,
     ReadSwitchInv, FinishInv DEF RunStep
<1>3. CASE LoopStep
  BY <1>3, LoopScanInv, LoopListInv, LoopRetryInv, LoopAutoInv, LoopBackInv DEF LoopStep
<1>. QED
  BY <1>1, <1>2, <1>3, ManualInv, ConfigSwitchInv, PanelSwitchInv, ConfigCancelInv,
     SetAuthInv, ClaimedElsewhereInv, TickInv, StartInv DEF Next

THEOREM CheckinInvariant == Spec => []CheckinInv
<1>1. Init => CheckinInv
  BY StartInv
<1>. QED
  BY <1>1, CheckinNext, PTL DEF Spec

-----------------------------------------------------------------------------
(* Whoever schedules, fails, cancels or forgets: no account is retried     *)
(* more often in a day than checkinRetryDelays has entries, because the    *)
(* charge is in the record the run begins with (reserveCheckin).           *)
THEOREM RetriesBounded == Spec => []RetryBudget
<1>1. CheckinInv => RetryBudget
  <2>. SUFFICES ASSUME CheckinInv, NEW a \in Accounts PROVE charged[a] <= Len(RetryDelays)
    BY DEF CheckinInv, RetryBudget
  <2>1. /\ Recorded(a) /\ Budgeted(a)
        /\ charged[a] \in Nat
        /\ a \in DOMAIN records => records[a].retries \in Nat
    BY DEF CheckinInv, TypeOK, Records
  <2>2. Len(RetryDelays) \in Nat
    BY CheckinAssumption
  <2>. QED
    BY <2>1, <2>2 DEF Recorded, Budgeted
<1>. QED
  BY <1>1, CheckinInvariant, PTL

(* Background work never claims for an account that is parked or gone.     *)
THEOREM ParkedIsLeft == Spec => []ParkedLeftAlone
<1>1. CheckinInv => ParkedLeftAlone
  BY DEF CheckinInv
<1>. QED
  BY <1>1, CheckinInvariant, PTL

(* A retry that was cancelled does not begin: a cancelled account has      *)
(* nothing scheduled and a run in flight schedules nothing either.         *)
THEOREM CancelStands == Spec => CancelledStaysCancelled
<1>1. ASSUME CheckinInv, [Next]_vars, NEW w \in Workers, run[w].pc = "lock",
             run'[w].pc = "read", run[w].source = "retry"
      PROVE  ~stopped[run[w].account]
  <2>. DEFINE a == run[w].account
  <2>1. Accounts \subseteq Workers /\ a \in Accounts
        /\ run \in [Workers -> Runs]
    BY <1>1 DEF CheckinInv, TypeOK, Holding, Workers
  <2>2. CASE Reserve(w)
    <3>1. Begins(w) \/ run'[w] = IdleRun
      BY <1>1, <2>1, <2>2, ReserveBegins
    <3>2. IdleRun.pc = "idle"
      BY DEF IdleRun
    <3>3. a \in DOMAIN records /\ records[a].next # 0
      BY <1>1, <3>1, <3>2 DEF Begins
    <3>. QED
      BY <1>1, <2>1, <3>3 DEF CheckinInv, Cancelled
  <2>3. CASE ~Reserve(w)
    <3>1. run'[w] # run[w] /\ run'[w] # IdleRun
      BY <1>1 DEF IdleRun
    <3>2. \A b \in Accounts, source \in {"auto", "retry"}, listErr \in BOOLEAN :
            run'[w] # StartRun(b, source, listErr)
      BY <1>1, StartTyped
    <3>3. ~UNCHANGED run
      BY <3>1
    <3>4. ~ \E c \in Callers, b \in Accounts : Manual(c, b)
      <4>1. ASSUME NEW c \in Callers, NEW b \in Accounts, Manual(c, b) PROVE run'[w] = run[w]
        BY <1>1, <2>1, <4>1 DEF Manual
      <4>. QED
        BY <3>1, <4>1
    <3>5. ~ \E u \in Workers : RunStep(u)
      <4>1. ASSUME NEW u \in Workers, RunStep(u), u # w PROVE run'[w] = run[w]
        BY <2>1, <4>1 DEF RunStep, TurnAway, Reserve, NoRoom, ReadAuth, Observe, Post, Verify,
           ReadSwitch, Finish, EndRun, Conclude, Open, SeesClaimed, SeesNothing, SeesDaily
      <4>2. ASSUME RunStep(w) PROVE run'[w] = IdleRun
        BY <1>1, <2>1, <2>3, <4>2 DEF RunStep, TurnAway, NoRoom, ReadAuth, Observe, Post,
           Verify, ReadSwitch, Finish
      <4>. QED
        BY <3>1, <4>1, <4>2
    <3>6. ~LoopStep
      <4>1. ASSUME NEW b \in Accounts, LoopRetry(b)
            PROVE  run'[w] = run[w] \/ run'[w] = StartRun(b, "retry", loop.listErr)
        BY <2>1, <4>1 DEF LoopRetry
      <4>2. loop.listErr \in BOOLEAN
        BY <1>1, WaitTyped
      <4>3. ASSUME LoopAuto
            PROVE  \/ run'[w] = run[w]
                   \/ w \in Accounts /\ run'[w] = StartRun(w, "auto", FALSE)
        BY <4>3 DEF LoopAuto, Listed
      <4>. QED
        BY <3>1, <3>2, <3>3, <4>1, <4>2, <4>3 DEF LoopStep, LoopScan, LoopList, LoopBack
    <3>7. ~ (Restart \/ Tick \/ ConfigCancel)
      BY <3>1, <3>3 DEF Restart, Tick, ConfigCancel
    <3>8. ~ \E on \in BOOLEAN : ConfigSwitch(on) \/ PanelSwitch(on)
      BY <3>3 DEF ConfigSwitch, PanelSwitch
    <3>9. ~ \E b \in Accounts, claim \in Claims : ClaimedElsewhere(b, claim)
      BY <3>3 DEF ClaimedElsewhere
    <3>10. ~ \E b \in Accounts, state \in {"enabled", "disabled", "gone"} : SetAuth(b, state)
      BY <3>3 DEF SetAuth
    <3>. QED
      BY <1>1, <3>3, <3>4, <3>5, <3>6, <3>7, <3>8, <3>9, <3>10 DEF Next, vars
  <2>. QED
    BY <2>2, <2>3
<1>2. CheckinInv /\ [Next]_vars =>
        [\A w \in Workers :
           /\ run[w].pc = "lock"
           /\ run'[w].pc = "read"
           /\ run[w].source = "retry"
           => ~stopped[run[w].account]]_vars
  BY <1>1
<1>. QED
  BY <1>2, CheckinInvariant, PTL DEF Spec, CancelledStaysCancelled

-----------------------------------------------------------------------------
(* Claims in doubt.  Idle and fresh runs name nothing.                     *)
LEMMA IdleHonest ==
  /\ Honest(IdleRun)
  /\ \A a, source, listErr : Honest(StartRun(a, source, listErr))
<1>1. /\ IdleRun.before.campaign = None /\ IdleRun.before.legacy = FALSE
      /\ IdleRun.result.campaign = None /\ IdleRun.result.legacy = FALSE
      /\ IdleRun.claim = None /\ None # Daily
  BY CheckinAssumption DEF IdleRun, FreshRecord, Result, Claims
<1>2. ASSUME NEW a, NEW source, NEW listErr
      PROVE  /\ StartRun(a, source, listErr).before = IdleRun.before
             /\ StartRun(a, source, listErr).result = IdleRun.result
             /\ StartRun(a, source, listErr).claim = IdleRun.claim
  BY DEF StartRun, IdleRun
<1>3. Campaign(None) = None
  BY <1>1 DEF Campaign
<1>. QED
  BY <1>1, <1>2, <1>3 DEF Honest, Served

(* What stays known of a claim in doubt when nothing happens to its run.   *)
LEMMA StandingDoubt ==
  ASSUME CheckinInv, NEW a \in Accounts, Doubtful(a), doubt'[a] = doubt[a],
         lock'[a] = lock[a], lock[a] # None => run'[lock[a]] = run[lock[a]],
         a \in DOMAIN records /\ records[a].confirmOnly =>
           /\ a \in DOMAIN records' /\ records'[a].confirmOnly
           /\ records'[a].campaign = records[a].campaign
  PROVE  Doubtful(a)'
BY DEF Doubtful

(* Steps of waiting runs and of everything else that holds no lock.        *)
LEMMA UnlockedDoubt ==
  ASSUME CheckinInv, DoubtInv, UNCHANGED <<lock, doubt>>,
         \A w \in Workers : Honest(run'[w]) /\ (Busy(w) => run'[w] = run[w]),
         \A a \in DOMAIN records' :
           /\ a \in DOMAIN records
           /\ records'[a].confirmOnly = records[a].confirmOnly
           /\ records'[a].campaign = records[a].campaign
           /\ records'[a].legacy = records[a].legacy,
         \A a \in DOMAIN records : records[a].confirmOnly => a \in DOMAIN records'
  PROVE  DoubtInv'
<1>1. OnlyServed'
  BY DEF DoubtInv, OnlyServed
<1>2. ASSUME NEW a \in Accounts PROVE Doubtful(a)'
  <2>1. lock[a] # None => lock[a] \in Workers /\ Busy(lock[a])
    BY DEF CheckinInv, TypeOK, Holding
  <2>2. lock[a] # None => run'[lock[a]] = run[lock[a]]
    BY <2>1
  <2>. HIDE DEF CheckinInv
  <2>. QED
    BY <2>2, StandingDoubt DEF DoubtInv
<1>. QED
  BY <1>1, <1>2 DEF DoubtInv

(* A run that holds the lock concludes.                                    *)
LEMMA ConcludeHonest ==
  ASSUME TypeOK, NEW w \in Workers, Honest(run[w]), NEW result \in Results,
         Served(result.campaign, result.legacy), Conclude(w, result)
  PROVE  /\ Honest(run'[w])
         /\ run'[w].pc = "result" /\ run'[w].result = result
         /\ run'[w].before = run[w].before
<1>1. run[w] \in Runs /\ run \in [Workers -> Runs]
  BY DEF TypeOK
<1>2. run'[w] = [run[w] EXCEPT !.pc = "result", !.result = result]
  BY <1>1 DEF Conclude
<1>. HIDE DEF Conclude
<1>3. /\ run'[w].pc = "result" /\ run'[w].result = result
      /\ run'[w].before = run[w].before /\ run'[w].claim = run[w].claim
  BY <1>1, <1>2 DEF Runs
<1>. QED
  BY <1>3 DEF Honest

(* The steps of a run that goes on: what remains is what it says of its    *)
(* own account.                                                            *)
LEMMA GoesOnDoubt ==
  ASSUME CheckinInv, DoubtInv, NEW w \in Workers, GoesOn(w), Honest(run'[w]),
         UNCHANGED <<records, lock>>,
         \A b \in Accounts : b # run[w].account => doubt'[b] = doubt[b],
         \A b \in Accounts : b = run[w].account =>
           Doubtful(b)' /\ Served(Campaign(doubt'[b]), doubt'[b] = Daily)
  PROVE  DoubtInv'
<1>1. /\ run \in [Workers -> Runs] /\ lock \in [Accounts -> Workers \cup {None}]
      /\ lock[run[w].account] = w
      /\ \A a \in Accounts : lock[a] # None => run[lock[a]].account = a
  BY DEF CheckinInv, TypeOK, Holding, GoesOn
<1>2. \A u \in Workers : u # w => run'[u] = run[u]
  BY <1>1 DEF GoesOn
<1>3. OnlyServed'
  <2>1. \A u \in Workers : Honest(run'[u])
    BY <1>2 DEF DoubtInv, OnlyServed
  <2>2. \A b \in Accounts : Served(Campaign(doubt'[b]), doubt'[b] = Daily)
    BY DEF DoubtInv, OnlyServed
  <2>. QED
    BY <2>1, <2>2 DEF DoubtInv, OnlyServed
<1>4. ASSUME NEW b \in Accounts, b # run[w].account PROVE Doubtful(b)'
  <2>1. lock[b] # None => run'[lock[b]] = run[lock[b]]
    BY <1>1, <1>2, <1>4
  <2>2. Doubtful(b)
    BY DEF DoubtInv
  <2>. QED
    BY <1>4, <2>1, <2>2, StandingDoubt
<1>. QED
  BY <1>3, <1>4 DEF DoubtInv

(* Of the account whose run goes on. *)
LEMMA OwnDoubt ==
  ASSUME CheckinInv, DoubtInv, NEW w \in Workers, Busy(w), NEW a \in Accounts,
         a = run[w].account
  PROVE  /\ lock[a] = w /\ w # None
         /\ Honest(run[w])
         /\ Served(Campaign(doubt[a]), doubt[a] = Daily)
         /\ doubt[a] \in Claims \cup {None}
         /\ doubt[a] # None =>
              LET Names(claim) == doubt[a] \in Campaigns => claim = doubt[a]
              IN  /\ run[w].pc \in {"read", "verify", "result", "finish"}
                  /\ run[w].pc = "read" =>
                       run[w].before.confirmOnly /\ Names(run[w].before.campaign)
                  /\ run[w].pc = "verify" =>
                       /\ run[w].answer # "refused"
                       /\ run[w].claim \in {doubt[a], None} /\ Names(run[w].claim)
                       /\ run[w].answer = "check" => Names(run[w].before.campaign)
                  /\ run[w].pc \in {"result", "finish"} =>
                       /\ run[w].result.confirmOnly /\ ~run[w].result.confirmed
                       /\ Names(IF run[w].result.campaign = None
                                  THEN run[w].before.campaign ELSE run[w].result.campaign)
<1>1. lock[a] = w /\ w # None
  BY CheckinAssumption DEF CheckinInv, Holding
<1>2. /\ Honest(run[w])
      /\ Served(Campaign(doubt[a]), doubt[a] = Daily)
      /\ Doubtful(a)
  BY DEF DoubtInv, OnlyServed
<1>3. doubt[a] \in Claims \cup {None}
  BY DEF CheckinInv, TypeOK
<1>. QED
  BY <1>1, <1>2, <1>3 DEF Doubtful

(* With one contract the campaigns in doubt and the daily claim exclude    *)
(* each other.                                                             *)
LEMMA OneContractOnly ==
  ASSUME OneContract, NEW claim \in Claims, NEW campaign, NEW legacy \in BOOLEAN,
         Served(Campaign(claim), claim = Daily), Served(campaign, legacy)
  PROVE  /\ claim \in Campaigns => ~legacy
         /\ claim = Daily => campaign = None
<1>1. claim \in Campaigns => claim # Daily /\ claim # None
  BY CheckinAssumption DEF Claims
<1>. QED
  BY <1>1 DEF OneContract, Served, Campaign

LEMMA ReadAuthDoubt ==
  ASSUME OneContract, CheckinInv, DoubtInv, NEW w \in Workers, ReadAuth(w), GoesOn(w)
  PROVE  DoubtInv'
<1>1. PICK a \in Accounts : a = run[w].account
  BY DEF CheckinInv, Holding, GoesOn, Busy
<1>2. /\ run[w] \in Runs /\ TypeOK /\ run \in [Workers -> Runs] /\ run[w].pc = "read"
      /\ UNCHANGED <<records, lock, doubt>>
  BY DEF CheckinInv, TypeOK, ReadAuth, history
<1>3. /\ Busy(w) /\ run[w].before.confirmOnly \in BOOLEAN
      /\ run[w].before.campaign \in Campaigns \cup {None}
      /\ run[w].before.legacy \in BOOLEAN
  BY <1>2 DEF GoesOn, Runs, Records
<1>4. /\ lock[a] = w /\ w # None
      /\ Honest(run[w])
      /\ Served(Campaign(doubt[a]), doubt[a] = Daily)
      /\ doubt[a] \in Claims \cup {None}
      /\ doubt[a] # None => /\ run[w].before.confirmOnly
                            /\ doubt[a] \in Campaigns => run[w].before.campaign = doubt[a]
  BY <1>1, <1>2, <1>3, OwnDoubt
<1>5. CASE \E result \in Results :
             /\ Conclude(w, result) /\ result.campaign = None /\ ~result.legacy
             /\ ~result.confirmed /\ result.confirmOnly = run[w].before.confirmOnly
  <2>1. PICK result \in Results :
             /\ Conclude(w, result) /\ result.campaign = None /\ ~result.legacy
             /\ ~result.confirmed /\ result.confirmOnly = run[w].before.confirmOnly
    BY <1>5
  <2>2. /\ Honest(run'[w]) /\ run'[w].pc = "result" /\ run'[w].result = result
        /\ run'[w].before = run[w].before
    BY <1>2, <1>4, <2>1, ConcludeHonest DEF Served
  <2>3. Doubtful(a)'
    BY <1>2, <1>4, <2>1, <2>2 DEF Doubtful
  <2>. QED
    BY <1>1, <1>2, <1>4, <2>2, <2>3, GoesOnDoubt
<1>6. CASE /\ run' = [run EXCEPT
                ![w].pc = IF VerifiesOnly(w) THEN "verify" ELSE "observe",
                ![w].claim = IF VerifiesOnly(w) THEN ClaimOf(run[w].before) ELSE None,
                ![w].answer = "check"]
  <2>. DEFINE pc == IF VerifiesOnly(w) THEN "verify" ELSE "observe"
              claim == IF VerifiesOnly(w) THEN ClaimOf(run[w].before) ELSE None
  <2>1. /\ run'[w].pc = pc /\ run'[w].claim = claim /\ run'[w].answer = "check"
        /\ run'[w].before = run[w].before /\ run'[w].result = run[w].result
    BY <1>2, <1>6 DEF Runs
  <2>2. Served(Campaign(claim), claim = Daily)
    <3>1. None # Daily /\ Daily \notin Campaigns
      BY CheckinAssumption DEF Claims
    <3>2. claim \in {None, ClaimOf(run[w].before)}
      OBVIOUS
    <3>3. Served(run[w].before.campaign, run[w].before.legacy)
      BY <1>4 DEF Honest
    <3>. QED
      BY <1>3, <3>1, <3>2, <3>3 DEF Served, Campaign, ClaimOf
  <2>3. Honest(run'[w])
    BY <1>4, <2>1, <2>2 DEF Honest
  <2>4. doubt[a] # None =>
          /\ pc = "verify" /\ claim \in {doubt[a], None}
          /\ doubt[a] \in Campaigns => claim = doubt[a]
    <3>1. SUFFICES ASSUME doubt[a] # None
                   PROVE  /\ ClaimOf(run[w].before) \in {doubt[a], None}
                          /\ doubt[a] \in Campaigns => ClaimOf(run[w].before) = doubt[a]
      BY <1>4 DEF VerifiesOnly
    <3>2. doubt[a] \in Claims
      BY <1>4, <3>1
    <3>3. /\ doubt[a] \in Campaigns => ~run[w].before.legacy
          /\ doubt[a] = Daily => run[w].before.campaign = None
      BY <1>3, <1>4, <3>2, OneContractOnly DEF Honest
    <3>. QED
      BY <1>3, <1>4, <3>1, <3>2, <3>3 DEF ClaimOf, Claims
  <2>. HIDE DEF pc, claim
  <2>5. Doubtful(a)'
    BY <1>2, <1>4, <2>1, <2>4 DEF Doubtful
  <2>. QED
    BY <1>1, <1>2, <1>4, <2>3, <2>5, GoesOnDoubt
<1>. QED
  <2>1. \A retryable \in BOOLEAN :
          LET result == Failed(retryable, run[w].before.confirmOnly)
          IN  /\ result \in Results /\ result.campaign = None /\ ~result.legacy
              /\ ~result.confirmed /\ result.confirmOnly = run[w].before.confirmOnly
    BY <1>3, FailedUnconfirmed
  <2>2. LET result == [Result("disabled") EXCEPT !.confirmOnly = run[w].before.confirmOnly]
        IN  /\ result \in Results /\ result.campaign = None /\ ~result.legacy
            /\ ~result.confirmed /\ result.confirmOnly = run[w].before.confirmOnly
    BY <1>3 DEF Result, Results
  <2>. QED
    BY <1>5, <1>6, <2>1, <2>2 DEF ReadAuth

LEMMA ObserveDoubt ==
  ASSUME CheckinInv, DoubtInv, NEW w \in Workers, Observe(w), GoesOn(w)
  PROVE  DoubtInv'
<1>1. PICK a \in Accounts : a = run[w].account
  BY DEF CheckinInv, Holding, GoesOn, Busy
<1>2. /\ run[w] \in Runs /\ TypeOK /\ run \in [Workers -> Runs] /\ run[w].pc = "observe"
      /\ UNCHANGED <<records, lock, doubt>>
  BY DEF CheckinInv, TypeOK, Observe, history
<1>3. /\ Busy(w)
      /\ run[w].before.campaign \in Campaigns \cup {None}
      /\ run[w].before.legacy \in BOOLEAN
  BY <1>2 DEF GoesOn, Runs, Records
<1>4. /\ Honest(run[w]) /\ Served(Campaign(doubt[a]), doubt[a] = Daily)
      /\ doubt[a] = None
  BY <1>1, <1>2, <1>3, OwnDoubt
<1>5. Served(run[w].before.campaign, run[w].before.legacy)
  BY <1>4 DEF Honest
<1>6. ASSUME NEW result \in Results, Conclude(w, result), Served(result.campaign, result.legacy)
      PROVE  Honest(run'[w])
  BY <1>2, <1>4, <1>6, ConcludeHonest
<1>7. \A campaign \in Campaigns \cup {None}, legacy, status \in BOOLEAN :
        /\ Confirmed(campaign, legacy, status).campaign = campaign
        /\ Confirmed(campaign, legacy, status).legacy = legacy
  BY DEF Confirmed, Result
<1>8. ASSUME NEW claim \in Claims, Open(w, claim), Served(Campaign(claim), claim = Daily)
      PROVE  Honest(run'[w])
  <2>1. CASE AlreadyConfirmed(w, claim)
    <3>1. Conclude(w, Confirmed(run[w].before.campaign, run[w].before.legacy, FALSE))
      BY <1>8, <2>1 DEF Open
    <3>. QED
      BY <1>3, <1>5, <1>6, <1>7, <3>1, ResultsTyped
  <2>2. CASE ~AlreadyConfirmed(w, claim)
    <3>1. run' = [run EXCEPT ![w].pc = "post", ![w].claim = claim]
      BY <1>8, <2>2 DEF Open
    <3>2. /\ run'[w].claim = claim
          /\ run'[w].before = run[w].before /\ run'[w].result = run[w].result
      BY <1>2, <3>1 DEF Runs
    <3>. QED
      BY <1>4, <1>8, <3>2 DEF Honest
  <2>. QED
    BY <2>1, <2>2
<1>9. Honest(run'[w])
  <2>1. CASE \E retryable \in BOOLEAN : Conclude(w, Failed(retryable, FALSE))
    BY <1>6, <2>1, FailedUnconfirmed DEF Served
  <2>2. CASE "campaign" \in Contracts /\ SeesClaimed(w)
    BY <1>6, <1>7, <2>2, ResultsTyped DEF SeesClaimed, Served
  <2>3. CASE SeesNothing(w)
    <3>1. CASE AlreadyConfirmed(w, None)
      BY <1>3, <1>5, <1>6, <1>7, <2>3, <3>1, ResultsTyped DEF SeesNothing
    <3>2. CASE ~AlreadyConfirmed(w, None)
      <4>1. LET result == [Result("none") EXCEPT !.status = TRUE]
            IN  result \in Results /\ result.campaign = None /\ ~result.legacy
        BY DEF Result, Results
      <4>. QED
        BY <1>6, <2>3, <3>2, <4>1 DEF SeesNothing, Served
    <3>. QED
      BY <3>1, <3>2
  <2>4. CASE "campaign" \in Contracts /\ \E c \in Campaigns : Open(w, c)
    <3>1. PICK c \in Campaigns : Open(w, c)
      BY <2>4
    <3>2. c \in Claims /\ Served(Campaign(c), c = Daily)
      BY <2>4, CheckinAssumption DEF Claims, Served, Campaign
    <3>. QED
      BY <1>8, <3>1, <3>2
  <2>5. CASE "legacy" \in Contracts /\ SeesDaily(w)
    <3>1. Daily \in Claims /\ Served(None, TRUE) /\ Served(Campaign(Daily), Daily = Daily)
      BY <2>5 DEF Claims, Served, Campaign
    <3>2. CASE Conclude(w, Confirmed(None, TRUE, TRUE))
      BY <1>6, <1>7, <3>1, <3>2, ResultsTyped
    <3>. QED
      BY <1>8, <2>5, <3>1, <3>2 DEF SeesDaily
  <2>. QED
    BY <2>1, <2>2, <2>3, <2>4, <2>5 DEF Observe
<1>10. Doubtful(a)'
  BY <1>2, <1>4 DEF Doubtful
<1>. QED
  BY <1>1, <1>2, <1>4, <1>9, <1>10, GoesOnDoubt

LEMMA PostDoubt ==
  ASSUME CheckinInv, DoubtInv, NEW w \in Workers, Post(w), GoesOn(w)
  PROVE  DoubtInv'
<1>1. PICK a \in Accounts : a = run[w].account
  BY DEF CheckinInv, Holding, GoesOn, Busy
<1>2. PICK claim \in Claims : claim = run[w].claim
  BY DEF CheckinInv, TypeOK, Runs, Holding, Post
<1>3. /\ run[w] \in Runs /\ TypeOK /\ run \in [Workers -> Runs] /\ run[w].pc = "post"
      /\ doubt \in [Accounts -> Claims \cup {None}]
      /\ UNCHANGED <<records, lock>>
  BY DEF CheckinInv, TypeOK, Post
<1>4. /\ Honest(run[w]) /\ Served(Campaign(doubt[a]), doubt[a] = Daily)
      /\ doubt[a] = None /\ lock[a] = w /\ w # None
  BY <1>1, <1>3, OwnDoubt DEF GoesOn
<1>5. Served(Campaign(claim), claim = Daily)
  BY <1>2, <1>4 DEF Honest
<1>6. ASSUME NEW result \in Results, Conclude(w, result), Served(result.campaign, result.legacy),
             doubt' = doubt
      PROVE  DoubtInv'
  <2>1. Honest(run'[w])
    BY <1>3, <1>4, <1>6, ConcludeHonest
  <2>2. Doubtful(a)'
    BY <1>4, <1>6 DEF Doubtful
  <2>. QED
    BY <1>1, <1>3, <1>4, <1>6, <2>1, <2>2, GoesOnDoubt
<1>7. CASE claim # Daily /\ Conclude(w, Confirmed(claim, FALSE, TRUE)) /\ doubt' = doubt
  <2>1. /\ Confirmed(claim, FALSE, TRUE) \in Results
        /\ Confirmed(claim, FALSE, TRUE).campaign = claim
        /\ Confirmed(claim, FALSE, TRUE).legacy = FALSE
    BY <1>7, ResultsTyped DEF Claims, Confirmed, Result
  <2>. QED
    BY <1>5, <1>6, <1>7, <2>1 DEF Served, Campaign
<1>8. CASE /\ \E retryable \in BOOLEAN : Conclude(w, Rejection(claim, retryable))
           /\ doubt' = doubt
  <2>1. \A retryable \in BOOLEAN :
          /\ Rejection(claim, retryable).campaign = Campaign(claim)
          /\ Rejection(claim, retryable).legacy = (claim = Daily)
    BY DEF Rejection, Failed, Result
  <2>. QED
    BY <1>5, <1>6, <1>8, <2>1, RejectionTyped
<1>9. CASE \E answer \in Unsettled(claim) :
             /\ run' = [run EXCEPT ![w].pc = "verify", ![w].answer = answer]
             /\ doubt' = [doubt EXCEPT ![a] = IF answer = "refused" THEN @ ELSE claim]
  <2>1. PICK answer \in Unsettled(claim) :
             /\ run' = [run EXCEPT ![w].pc = "verify", ![w].answer = answer]
             /\ doubt' = [doubt EXCEPT ![a] = IF answer = "refused" THEN @ ELSE claim]
    BY <1>9
  <2>2. /\ run'[w].pc = "verify" /\ run'[w].answer = answer
        /\ run'[w].claim = claim
        /\ run'[w].before = run[w].before /\ run'[w].result = run[w].result
    BY <1>2, <1>3, <2>1 DEF Runs
  <2>3. answer # "check"
    BY DEF Unsettled
  <2>4. /\ doubt'[a] = IF answer = "refused" THEN None ELSE claim
        /\ \A b \in Accounts : b # a => doubt'[b] = doubt[b]
    BY <1>3, <1>4, <2>1
  <2>5. Honest(run'[w])
    BY <1>4, <1>5, <2>2 DEF Honest
  <2>6. Doubtful(a)'
    BY <1>3, <1>4, <2>2, <2>3, <2>4 DEF Doubtful
  <2>7. Served(Campaign(doubt'[a]), doubt'[a] = Daily)
    BY <1>4, <1>5, <2>4
  <2>. QED
    BY <1>1, <1>3, <2>4, <2>5, <2>6, <2>7, GoesOnDoubt
<1>. QED
  BY <1>1, <1>2, <1>7, <1>8, <1>9 DEF Post

LEMMA VerifyDoubt ==
  ASSUME CheckinInv, DoubtInv, NEW w \in Workers, Verify(w), GoesOn(w)
  PROVE  DoubtInv'
<1>1. PICK a \in Accounts : a = run[w].account
  BY DEF CheckinInv, Holding, GoesOn, Busy
<1>2. PICK claim \in Claims \cup {None} : claim = run[w].claim
  BY DEF CheckinInv, TypeOK, Runs
<1>3. /\ run[w] \in Runs /\ TypeOK /\ run[w].pc = "verify"
      /\ doubt \in [Accounts -> Claims \cup {None}]
      /\ granted \in [Accounts -> SUBSET Claims]
      /\ run[w].before.legacy \in BOOLEAN /\ None \notin Claims
      /\ UNCHANGED <<records, lock>>
  BY VerifyConcludes, CheckinAssumption DEF CheckinInv, TypeOK, Runs, Records
<1>4. /\ lock[a] = w /\ w # None /\ Honest(run[w])
      /\ Served(Campaign(doubt[a]), doubt[a] = Daily)
      /\ doubt[a] # None =>
           /\ run[w].answer # "refused"
           /\ claim \in {doubt[a], None}
           /\ doubt[a] \in Campaigns => claim = doubt[a]
           /\ run[w].answer = "check" /\ doubt[a] \in Campaigns
                => run[w].before.campaign = doubt[a]
  BY <1>1, <1>2, <1>3, OwnDoubt DEF GoesOn
<1>5. /\ Served(Campaign(claim), claim = Daily)
      /\ Served(run[w].before.campaign, run[w].before.legacy)
  BY <1>2, <1>4 DEF Honest
<1>6. CASE \E result \in VerifyResults(w) : Conclude(w, result) /\ doubt' = doubt
  <2>1. PICK result \in VerifyResults(w) : Conclude(w, result) /\ doubt' = doubt
    BY <1>6
  <2>2. /\ result \in Results /\ ~result.confirmed
        /\ run[w].answer # "refused" => result.confirmOnly
        /\ result.campaign \in {None, Campaign(claim)}
        /\ run[w].answer # "check" /\ claim # None => result.campaign = Campaign(claim)
        /\ result.legacy => \/ run[w].answer = "check" /\ run[w].before.legacy
                            \/ claim = Daily
    BY <1>2, <1>3, VerifyTyped
  <2>3. Served(result.campaign, result.legacy)
    BY <1>5, <2>2 DEF Served
  <2>4. /\ Honest(run'[w]) /\ run'[w].pc = "result" /\ run'[w].result = result
        /\ run'[w].before = run[w].before
    BY <1>3, <1>4, <2>1, <2>2, <2>3, ConcludeHonest
  <2>5. doubt[a] \in Campaigns =>
          (IF result.campaign = None THEN run[w].before.campaign ELSE result.campaign) = doubt[a]
    <3>1. doubt[a] \in Campaigns => doubt[a] \in Claims /\ doubt[a] # Daily
      BY CheckinAssumption DEF Claims
    <3>2. doubt[a] \in Campaigns => claim = doubt[a] /\ Campaign(claim) = doubt[a]
      BY <1>3, <1>4, <3>1 DEF Campaign
    <3>. QED
      BY <1>3, <1>4, <2>2, <3>1, <3>2
  <2>6. Doubtful(a)'
    BY <1>3, <1>4, <2>1, <2>2, <2>4, <2>5 DEF Doubtful
  <2>. QED
    BY <1>1, <1>3, <1>4, <2>1, <2>4, <2>6, GoesOnDoubt
<1>7. CASE /\ Conclude(w, Confirmed(
                 IF run[w].claim = None THEN None ELSE Campaign(run[w].claim),
                 IF run[w].answer = "check" THEN run[w].before.legacy
                                            ELSE run[w].claim = Daily,
                 TRUE))
           /\ run[w].claim \in granted[run[w].account]
           /\ doubt' = [doubt EXCEPT ![run[w].account] =
                          IF @ = run[w].claim THEN None ELSE @]
  <2>. DEFINE named == IF run[w].claim = None THEN None ELSE Campaign(run[w].claim)
              legacy == IF run[w].answer = "check" THEN run[w].before.legacy
                                                   ELSE run[w].claim = Daily
              result == Confirmed(named, legacy, TRUE)
  <2>1. /\ named \in Campaigns \cup {None} /\ legacy \in BOOLEAN
        /\ claim # None /\ named = Campaign(claim)
        /\ legacy => run[w].before.legacy \/ claim = Daily
    BY <1>1, <1>2, <1>3, <1>7 DEF Campaign, Claims
  <2>2. Conclude(w, result)
    BY <1>7
  <2>. HIDE DEF named, legacy
  <2>3. result \in Results /\ result.campaign = named /\ result.legacy = legacy
    BY <2>1, ResultsTyped DEF Confirmed, Result
  <2>4. Served(result.campaign, result.legacy)
    BY <1>5, <2>1, <2>3 DEF Served
  <2>. HIDE DEF result
  <2>5. Honest(run'[w])
    BY <1>3, <1>4, <2>2, <2>3, <2>4, ConcludeHonest
  <2>6. /\ doubt'[a] = None
        /\ \A b \in Accounts : b # a => doubt'[b] = doubt[b]
    BY <1>1, <1>2, <1>3, <1>4, <1>7, <2>1
  <2>7. Doubtful(a)'
    BY <2>6 DEF Doubtful
  <2>8. Served(Campaign(doubt'[a]), doubt'[a] = Daily)
    BY <2>6, CheckinAssumption DEF Served, Campaign, Claims
  <2>. QED
    BY <1>1, <1>3, <2>5, <2>6, <2>7, <2>8, GoesOnDoubt
<1>. QED
  BY <1>6, <1>7, VerifyConcludes

LEMMA ReadSwitchDoubt ==
  ASSUME CheckinInv, DoubtInv, NEW w \in Workers, ReadSwitch(w), GoesOn(w)
  PROVE  DoubtInv'
<1>1. PICK a \in Accounts : a = run[w].account
  BY DEF CheckinInv, Holding, GoesOn, Busy
<1>2. /\ run[w] \in Runs /\ run \in [Workers -> Runs] /\ run[w].pc = "result"
      /\ UNCHANGED <<records, lock, doubt>>
      /\ run' = [run EXCEPT ![w].pc = "finish", ![w].enabled = checkinAuto]
  BY DEF CheckinInv, TypeOK, ReadSwitch, history
<1>3. /\ run'[w].pc = "finish" /\ run'[w].before = run[w].before
      /\ run'[w].result = run[w].result /\ run'[w].claim = run[w].claim
  BY <1>2 DEF Runs
<1>4. /\ lock[a] = w /\ w # None /\ Honest(run[w])
      /\ Served(Campaign(doubt[a]), doubt[a] = Daily)
      /\ Doubtful(a)
  BY <1>1, OwnDoubt DEF GoesOn, DoubtInv
<1>5. Honest(run'[w])
  BY <1>3, <1>4 DEF Honest
<1>6. Doubtful(a)'
  BY <1>2, <1>3, <1>4 DEF Doubtful
<1>. QED
  BY <1>1, <1>2, <1>4, <1>5, <1>6, GoesOnDoubt

LEMMA ReserveDoubt ==
  ASSUME CheckinInv, DoubtInv, NEW w \in Workers, Reserve(w)
  PROVE  DoubtInv'
<1>1. PICK a \in Accounts : a = run[w].account
  BY ReserveBegins
<1>2. /\ lock[a] = None /\ run[w].pc = "lock" /\ doubt' = doubt
      /\ \A b \in Accounts : b # a => Roomy(b)
      /\ DOMAIN records' \subseteq DOMAIN records \cup {a}
  BY <1>1, ReserveBegins
<1>3. /\ run \in [Workers -> Runs] /\ lock \in [Accounts -> Workers \cup {None}]
      /\ DOMAIN records \subseteq Accounts /\ w # None
      /\ \A b \in DOMAIN records : records[b] \in Records
      /\ \A b \in Accounts : lock[b] # None =>
           lock[b] \in Workers /\ run[lock[b]].account = b
      /\ ~Busy(w)
  BY <1>2, CheckinAssumption DEF CheckinInv, TypeOK, Holding, Busy
<1>4. OnlyServed
  BY DEF DoubtInv
<1>5. CASE run' = [run EXCEPT ![w] = IdleRun] /\ lock' = lock /\ Roomy(a)
           /\ DOMAIN records' \subseteq DOMAIN records
  <2>1. \A u \in Workers : Honest(run'[u]) /\ (Busy(u) => run'[u] = run[u])
    BY <1>3, <1>4, <1>5, IdleHonest DEF OnlyServed
  <2>2. \A b \in Accounts : Roomy(b)
    BY <1>2, <1>5
  <2>3. \A b \in DOMAIN records' : b \in DOMAIN records /\ records'[b] = records[b]
    BY <1>3, <1>5, <2>2 DEF Roomy
  <2>4. \A b \in DOMAIN records : records[b].confirmOnly => b \in DOMAIN records'
    BY <1>3, <2>2 DEF Roomy
  <2>. QED
    BY <1>2, <1>5, <2>1, <2>3, <2>4, UnlockedDoubt
<1>6. CASE Begins(w)
  <2>1. /\ lock' = [lock EXCEPT ![a] = w]
        /\ run' = [run EXCEPT ![w] = run'[w]]
        /\ run'[w].pc = "read"
        /\ run'[w].claim = run[w].claim /\ run'[w].result = run[w].result
        /\ a \in DOMAIN records' /\ records'[a] = run'[w].before
        /\ run'[w].before.confirmOnly = (a \in DOMAIN records /\ records[a].confirmOnly)
        /\ run'[w].before.campaign = IF a \in DOMAIN records THEN records[a].campaign ELSE None
        /\ run'[w].before.legacy = (a \in DOMAIN records /\ records[a].legacy)
    BY <1>1, <1>6 DEF Begins
  <2>2. /\ lock'[a] = w
        /\ \A b \in Accounts : b # a => lock'[b] = lock[b]
        /\ \A u \in Workers : u # w => run'[u] = run[u]
    BY <1>3, <2>1
  <2>3. Served(run'[w].before.campaign, run'[w].before.legacy)
    BY <1>4, <2>1 DEF OnlyServed, Served
  <2>4. Honest(run'[w])
    BY <1>4, <2>1, <2>3 DEF OnlyServed, Honest
  <2>5. OnlyServed'
    <3>1. \A b \in DOMAIN records' : Served(records'[b].campaign, records'[b].legacy)
      BY <1>2, <1>3, <1>4, <2>1, <2>3 DEF OnlyServed, Roomy
    <3>2. \A u \in Workers : Honest(run'[u])
      BY <1>4, <2>2, <2>4 DEF OnlyServed
    <3>. QED
      BY <1>2, <1>4, <3>1, <3>2 DEF OnlyServed
  <2>6. ASSUME NEW b \in Accounts PROVE Doubtful(b)'
    <3>1. Doubtful(b)
      BY DEF DoubtInv
    <3>2. CASE b = a
      BY <1>2, <1>3, <2>1, <2>2, <3>1, <3>2 DEF Doubtful
    <3>3. CASE b # a
      <4>1. lock[b] # None => run'[lock[b]] = run[lock[b]]
        BY <1>1, <1>2, <1>3, <2>2 DEF CheckinInv, Holding
      <4>. QED
        BY <1>2, <2>2, <3>1, <3>3, <4>1, StandingDoubt DEF Roomy
    <3>. QED
      BY <3>2, <3>3
  <2>. QED
    BY <2>5, <2>6 DEF DoubtInv
<1>. QED
  BY <1>1, <1>5, <1>6, ReserveBegins

LEMMA FinishDoubt ==
  ASSUME CheckinInv, DoubtInv, NEW w \in Workers, Finish(w)
  PROVE  DoubtInv'
<1>1. PICK a \in Accounts : a = run[w].account
  BY DEF CheckinInv, Holding, Finish
<1>2. /\ run \in [Workers -> Runs] /\ run[w] \in Runs
      /\ lock \in [Accounts -> Workers \cup {None}]
      /\ DOMAIN records \subseteq Accounts /\ w # None
      /\ \A b \in DOMAIN records : records[b] \in Records
      /\ \A b \in Accounts : lock[b] # None =>
           lock[b] \in Workers /\ run[lock[b]].account = b
      /\ run[w].pc = "finish" /\ Busy(w)
      /\ now \in Nat
  BY CheckinAssumption DEF CheckinInv, TypeOK, Holding, Busy, Finish
<1>3. /\ lock[a] = w /\ Honest(run[w]) /\ Doubtful(a) /\ OnlyServed
  BY <1>1, <1>2, OwnDoubt DEF DoubtInv
<1>4. /\ run' = [run EXCEPT ![w] = IdleRun]
      /\ lock' = [lock EXCEPT ![a] = None]
      /\ doubt' = doubt
  BY <1>1 DEF Finish, EndRun, history
<1>5. PICK revoked \in BOOLEAN :
        records' = [k \in DOMAIN records \cup {a} |->
           IF k = a
             THEN Finished(run[w].before, revoked, run[w].result, run[w].enabled)
             ELSE records[k]]
  <2>1. (a \in DOMAIN records /\ records[a].revoked) \in BOOLEAN
    OBVIOUS
  <2>. QED
    BY <1>1, <2>1 DEF Finish
<1>6. LET r == records'[a]
          before == run[w].before
          result == run[w].result
      IN  /\ a \in DOMAIN records'
          /\ r.confirmOnly = (~result.confirmed /\ (result.confirmOnly \/ before.confirmOnly))
          /\ r.campaign = IF result.campaign # None THEN result.campaign ELSE before.campaign
          /\ r.legacy \in {before.legacy, result.legacy}
  <2>1. /\ run[w].before \in Records /\ run[w].result \in Results
        /\ run[w].enabled \in BOOLEAN
    BY <1>2 DEF Runs
  <2>2. a \in DOMAIN records' /\
        records'[a] = Finished(run[w].before, revoked, run[w].result, run[w].enabled)
    BY <1>5
  <2>. QED
    BY <1>2, <2>1, <2>2, FinishedTyped
<1>7. /\ \A b \in Accounts : b # a =>
           /\ lock'[b] = lock[b]
           /\ b \in DOMAIN records' <=> b \in DOMAIN records
           /\ b \in DOMAIN records => records'[b] = records[b]
      /\ DOMAIN records' \subseteq Accounts
      /\ \A u \in Workers : u # w => run'[u] = run[u]
      /\ run'[w] = IdleRun
      /\ lock'[a] = None
  BY <1>2, <1>4, <1>5
<1>8. OnlyServed'
  <2>1. Served(records'[a].campaign, records'[a].legacy)
    BY <1>3, <1>6 DEF Honest, Served
  <2>2. \A b \in DOMAIN records' : Served(records'[b].campaign, records'[b].legacy)
    BY <1>3, <1>7, <2>1 DEF OnlyServed
  <2>3. \A u \in Workers : Honest(run'[u])
    BY <1>3, <1>7, IdleHonest DEF OnlyServed
  <2>. QED
    BY <1>3, <1>4, <2>2, <2>3 DEF OnlyServed
<1>9. ASSUME NEW b \in Accounts PROVE Doubtful(b)'
  <2>1. CASE b = a
    <3>1. doubt[b] # None =>
            /\ run[w].result.confirmOnly /\ ~run[w].result.confirmed
            /\ doubt[b] \in Campaigns =>
                 doubt[b] = IF run[w].result.campaign = None
                              THEN run[w].before.campaign ELSE run[w].result.campaign
      BY <1>2, <1>3, <2>1 DEF Doubtful
    <3>2. doubt[b] # None =>
            /\ b \in DOMAIN records' /\ records'[b].confirmOnly
            /\ doubt[b] \in Campaigns => records'[b].campaign = doubt[b]
      BY <1>6, <2>1, <3>1
    <3>. QED
      BY <1>4, <1>7, <2>1, <3>2 DEF Doubtful
  <2>2. CASE b # a
    <3>1. lock[b] # None => run'[lock[b]] = run[lock[b]]
      BY <1>1, <1>2, <1>7, <2>2
    <3>2. Doubtful(b)
      BY DEF DoubtInv
    <3>. QED
      BY <1>4, <1>7, <2>2, <3>1, <3>2, StandingDoubt
  <2>. QED
    BY <2>1, <2>2
<1>. QED
  BY <1>8, <1>9 DEF DoubtInv

(* Everything that holds no lock: runs start and are turned away, and of   *)
(* the records only schedules change.                                      *)
Unnamed ==
  /\ UNCHANGED <<lock, doubt>>
  /\ \A w \in Workers :
       \/ run'[w] = run[w]
       \/ ~Busy(w) /\ run'[w] = IdleRun
       \/ ~Busy(w) /\ \E a, source, listErr : run'[w] = StartRun(a, source, listErr)
  /\ DOMAIN records' = DOMAIN records
  /\ \A a \in DOMAIN records :
       /\ records'[a].confirmOnly = records[a].confirmOnly
       /\ records'[a].campaign = records[a].campaign
       /\ records'[a].legacy = records[a].legacy

LEMMA UnnamedDoubt ==
  ASSUME CheckinInv, DoubtInv, Unnamed
  PROVE  DoubtInv'
<1>1. \A w \in Workers : Honest(run'[w]) /\ (Busy(w) => run'[w] = run[w])
  BY IdleHonest DEF Unnamed, DoubtInv, OnlyServed
<1>. HIDE DEF CheckinInv, DoubtInv
<1>. QED
  BY <1>1, UnlockedDoubt DEF Unnamed

LEMMA CancelNames ==
  ASSUME CheckinInv, NEW as, records' = Cancel(records, as)
  PROVE  /\ DOMAIN records' = DOMAIN records
         /\ \A a \in DOMAIN records :
              /\ records'[a].confirmOnly = records[a].confirmOnly
              /\ records'[a].campaign = records[a].campaign
              /\ records'[a].legacy = records[a].legacy
<1>1. \A a \in DOMAIN records : records[a] \in Records
  BY DEF CheckinInv, TypeOK
<1>. QED
  BY <1>1 DEF Cancel, Records

LEMMA ScanNames ==
  ASSUME CheckinInv, LoopScan
  PROVE  /\ DOMAIN records' = DOMAIN records
         /\ \A a \in DOMAIN records :
              /\ records'[a].confirmOnly = records[a].confirmOnly
              /\ records'[a].campaign = records[a].campaign
              /\ records'[a].legacy = records[a].legacy
<1>1. CASE checkinAuto
  <2>1. records' = [a \in DOMAIN records |->
                      IF records[a].day = Day(now)
                        THEN records[a] ELSE [records[a] EXCEPT !.next = 0]]
    BY <1>1 DEF LoopScan
  <2>2. \A a \in DOMAIN records : records[a] \in Records
    BY DEF CheckinInv, TypeOK
  <2>3. ASSUME NEW a \in DOMAIN records
        PROVE  \/ records'[a] = records[a]
               \/ records'[a] = [records[a] EXCEPT !.next = 0]
    BY <2>1
  <2>. QED
    BY <2>1, <2>2, <2>3, Dropped
<1>2. CASE ~checkinAuto
  BY <1>2, CancelNames DEF LoopScan
<1>. QED
  BY <1>1, <1>2

LEMMA LoopDoubt ==
  ASSUME CheckinInv, DoubtInv, LoopStep
  PROVE  DoubtInv'
<1>1. run \in [Workers -> Runs] /\ Accounts \subseteq Workers
  BY WaitTyped
<1>2. CASE LoopScan
  <2>1. Unnamed
    BY <1>2, ScanNames DEF LoopScan, Unnamed
  <2>. QED
    BY <2>1, UnnamedDoubt
<1>3. ASSUME NEW a \in Accounts, LoopRetry(a) PROVE DoubtInv'
  <2>1. ~Busy(a)
    BY <1>3 DEF LoopRetry, LoopQuiet, Busy
  <2>2. \/ records' = records
        \/ records' = Cancel(records, {a})
    BY <1>3 DEF LoopRetry
  <2>3. run' = run \/ run' = [run EXCEPT ![a] = StartRun(a, "retry", loop.listErr)]
    BY <1>3 DEF LoopRetry
  <2>4. UNCHANGED <<lock, doubt>>
    BY <1>3 DEF LoopRetry
  <2>5. ASSUME NEW w \in Workers
        PROVE  \/ run'[w] = run[w]
               \/ ~Busy(w) /\ \E b, source, listErr : run'[w] = StartRun(b, source, listErr)
    BY <1>1, <2>1, <2>3
  <2>6. Unnamed
    BY <2>2, <2>4, <2>5, CancelNames DEF Unnamed
  <2>. QED
    BY <2>6, UnnamedDoubt
<1>4. CASE LoopAuto
  <2>1. LoopQuiet
    BY <1>4, WaitTyped DEF LoopAuto
  <2>2. ASSUME NEW w \in Workers
        PROVE  \/ run'[w] = run[w]
               \/ ~Busy(w) /\ \E b, source, listErr : run'[w] = StartRun(b, source, listErr)
    BY <1>4, <2>1 DEF LoopAuto, Listed, LoopQuiet, Busy
  <2>3. Unnamed
    BY <1>4, <2>2 DEF LoopAuto, Unnamed, history
  <2>. QED
    BY <2>3, UnnamedDoubt
<1>5. CASE LoopList \/ LoopBack
  <2>1. Unnamed
    BY <1>5 DEF LoopList, LoopBack, Unnamed, history
  <2>. QED
    BY <2>1, UnnamedDoubt
<1>. QED
  BY <1>2, <1>3, <1>4, <1>5 DEF LoopStep

LEMMA WaitDoubt ==
  ASSUME CheckinInv, DoubtInv, NEW w \in Workers, TurnAway(w) \/ NoRoom(w)
  PROVE  DoubtInv'
<1>1. /\ run \in [Workers -> Runs] /\ ~Busy(w)
      /\ run' = [run EXCEPT ![w] = IdleRun]
      /\ UNCHANGED <<lock, doubt>>
  BY WaitTyped DEF TurnAway, NoRoom, Busy, history
<1>2. records' = records \/ records' = Cancel(records, {run[w].account})
  BY DEF TurnAway, NoRoom
<1>3. ASSUME NEW u \in Workers
      PROVE  run'[u] = run[u] \/ (~Busy(u) /\ run'[u] = IdleRun)
  BY <1>1
<1>4. Unnamed
  BY <1>1, <1>2, <1>3, CancelNames DEF Unnamed
<1>. QED
  BY <1>4, UnnamedDoubt

LEMMA DoubtNext == OneContract /\ CheckinInv /\ DoubtInv /\ [Next]_vars => DoubtInv'
<1>. SUFFICES ASSUME OneContract, CheckinInv, DoubtInv, [Next]_vars PROVE DoubtInv'
  OBVIOUS
<1>1. CASE UNCHANGED vars
  <2>1. Unnamed
    BY <1>1 DEF vars, history, Unnamed
  <2>. QED
    BY <2>1, UnnamedDoubt
<1>2. ASSUME NEW c \in Callers, NEW a \in Accounts, Manual(c, a) PROVE DoubtInv'
  <2>1. ASSUME NEW w \in Workers
        PROVE  \/ run'[w] = run[w]
               \/ ~Busy(w) /\ \E b, source, listErr : run'[w] = StartRun(b, source, listErr)
    BY <1>2, WaitTyped DEF Manual, Busy
  <2>2. Unnamed
    BY <1>2, <2>1 DEF Manual, Unnamed, history
  <2>. QED
    BY <2>2, UnnamedDoubt
<1>3. ASSUME NEW w \in Workers, RunStep(w) PROVE DoubtInv'
  BY <1>3, WaitDoubt, ReserveDoubt, FinishDoubt, ReadAuthDoubt, ObserveDoubt, PostDoubt,
     VerifyDoubt, ReadSwitchDoubt, ReadAuthInv, ObserveInv, PostInv, VerifyInv, ReadSwitchInv
     DEF RunStep
<1>4. CASE LoopStep
  BY <1>4, LoopDoubt
<1>5. ASSUME NEW on \in BOOLEAN, ConfigSwitch(on) \/ PanelSwitch(on) PROVE DoubtInv'
  <2>1. Unnamed
    BY <1>5 DEF ConfigSwitch, PanelSwitch, Unnamed, history
  <2>. QED
    BY <2>1, UnnamedDoubt
<1>6. CASE ConfigCancel
  <2>1. Unnamed
    BY <1>6, CancelNames DEF ConfigCancel, Unnamed
  <2>. QED
    BY <2>1, UnnamedDoubt
<1>7. ASSUME NEW a \in Accounts, NEW state \in {"enabled", "disabled", "gone"}, SetAuth(a, state)
      PROVE  DoubtInv'
  <2>1. records' = records \/ records' = Cancel(records, {a})
    BY <1>7 DEF SetAuth
  <2>2. UNCHANGED <<lock, run, doubt>>
    BY <1>7 DEF SetAuth
  <2>3. Unnamed
    BY <2>1, <2>2, CancelNames DEF Unnamed
  <2>. QED
    BY <2>3, UnnamedDoubt
<1>8. ASSUME NEW a \in Accounts, NEW claim \in Claims, ClaimedElsewhere(a, claim) PROVE DoubtInv'
  <2>1. Unnamed
    BY <1>8 DEF ClaimedElsewhere, Unnamed, history
  <2>. QED
    BY <2>1, UnnamedDoubt
<1>9. CASE Tick
  <2>1. Unnamed
    BY <1>9 DEF Tick, Unnamed
  <2>. QED
    BY <2>1, UnnamedDoubt
<1>10. CASE Restart
  <2>1. /\ DOMAIN records' = {} /\ \A a \in Accounts : doubt'[a] = None
        /\ \A w \in Workers : run'[w] = IdleRun
    BY <1>10 DEF Restart
  <2>2. Served(Campaign(None), None = Daily)
    BY CheckinAssumption DEF Served, Campaign, Claims
  <2>. QED
    BY <2>1, <2>2, IdleHonest DEF DoubtInv, OnlyServed, Doubtful
<1>. QED
  BY <1>1, <1>2, <1>3, <1>4, <1>5, <1>6, <1>7, <1>8, <1>9, <1>10 DEF Next

LEMMA DoubtInit == Init => DoubtInv
<1>. SUFFICES ASSUME Init PROVE DoubtInv
  OBVIOUS
<1>1. /\ DOMAIN records = {} /\ \A a \in Accounts : doubt[a] = None
      /\ \A w \in Workers : run[w] = IdleRun
  BY DEF Init
<1>2. Served(Campaign(None), None = Daily)
  BY CheckinAssumption DEF Served, Campaign, Claims
<1>. QED
  BY <1>1, <1>2, IdleHonest DEF DoubtInv, OnlyServed, Doubtful

THEOREM DoubtInvariant == OneContract => (Spec => [](CheckinInv /\ DoubtInv))
<1>1. Init => CheckinInv /\ DoubtInv
  BY StartInv, DoubtInit
<1>2. OneContract /\ CheckinInv /\ DoubtInv /\ [Next]_vars => (CheckinInv /\ DoubtInv)'
  BY CheckinNext, DoubtNext
<1>. SUFFICES ASSUME OneContract PROVE Spec => [](CheckinInv /\ DoubtInv)
  OBVIOUS
<1>3. CheckinInv /\ DoubtInv /\ [Next]_vars => (CheckinInv /\ DoubtInv)'
  BY <1>2
<1>. QED
  BY <1>1, <1>3, PTL DEF Spec

(* A claim whose answer was lost is not forgotten, by eviction, midnight,  *)
(* cancellation, failed reads or other runs of its account.                *)
THEOREM DoubtKept == OneContract => (Spec => []DoubtRemembered)
<1>1. CheckinInv /\ DoubtInv => DoubtRemembered
  <2>. SUFFICES ASSUME CheckinInv, DoubtInv, NEW a \in Accounts, doubt[a] # None
                PROVE  \/ a \in DOMAIN records /\ records[a].confirmOnly
                       \/ \E w \in Workers :
                            /\ lock[a] = w
                            /\ \/ run[w].pc = "verify"
                               \/ /\ run[w].pc \in {"result", "finish"}
                                  /\ run[w].result.confirmOnly
    BY DEF DoubtRemembered
  <2>1. Doubtful(a) /\ Recorded(a) /\ lock[a] \in Workers \cup {None}
    BY DEF CheckinInv, DoubtInv, TypeOK
  <2>. QED
    BY <2>1 DEF Doubtful, Recorded
<1>. QED
  BY <1>1, DoubtInvariant, PTL

(* While the fate of a claim is unknown nothing is posted for its account, *)
(* and the checkpoint names the campaign that will be verified.            *)
THEOREM NoSecondPost == OneContract => (Spec => []NoBlindRepeat)
<1>1. OneContract /\ CheckinInv /\ DoubtInv => NoBlindRepeat
  <2>. SUFFICES ASSUME OneContract, CheckinInv, DoubtInv PROVE NoBlindRepeat
    OBVIOUS
  <2>1. ASSUME NEW w \in Workers, run[w].pc = "post" PROVE doubt[run[w].account] = None
    <3>1. PICK a \in Accounts : a = run[w].account
      BY <2>1 DEF CheckinInv, Holding
    <3>. QED
      BY <2>1, <3>1, OwnDoubt DEF Busy
  <2>2. ASSUME NEW a \in Accounts, doubt[a] \in Campaigns, lock[a] = None, a \in DOMAIN records
        PROVE  ClaimOf(records[a]) = doubt[a]
    <3>1. /\ doubt[a] # None /\ doubt[a] \in Claims
          /\ records[a].legacy \in BOOLEAN
      BY <2>2, CheckinAssumption DEF CheckinInv, TypeOK, Records, Claims
    <3>2. /\ records[a].campaign = doubt[a]
          /\ Served(records[a].campaign, records[a].legacy)
          /\ Served(Campaign(doubt[a]), doubt[a] = Daily)
      BY <2>2, <3>1 DEF DoubtInv, OnlyServed, Doubtful
    <3>3. ~records[a].legacy
      BY <2>2, <3>1, <3>2, OneContractOnly
    <3>. QED
      BY <3>2, <3>3 DEF ClaimOf
  <2>. QED
    BY <2>1, <2>2 DEF NoBlindRepeat
<1>. SUFFICES ASSUME OneContract PROVE Spec => []NoBlindRepeat
  OBVIOUS
<1>2. CheckinInv /\ DoubtInv => NoBlindRepeat
  BY <1>1
<1>. QED
  BY <1>2, DoubtInvariant, PTL
=============================================================================
