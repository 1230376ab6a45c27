------------------------------ MODULE Checkin ------------------------------
(***************************************************************************)
(* The daily benefit check-in of checkin.go: manual requests, the timer's  *)
(* automatic runs and the bounded retries of one scheduling loop, all      *)
(* through runCheckinAccount under the account's lock, over the run table  *)
(* checkinRuns.  Upstream may grant a claim and lose the answer.           *)
(*                                                                         *)
(* A run is the work of one goroutine.  The background run of an account   *)
(* (automatic or retry) is named after the account: the loop never has two *)
(* at a time.  Lock stripes are taken to be distinct per account; sharing  *)
(* a stripe only serialises more.                                          *)
(***************************************************************************)
EXTENDS Naturals, Sequences, FiniteSets

CONSTANTS
  Accounts,     \* auth indices
  Callers,      \* goroutines of handleManualCheckin
  Campaigns,    \* campaign ids upstream may list
  Daily,        \* the claim of the legacy daily-check-in contract
  None,
  Contracts,    \* what upstream serves: a subset of {"campaign", "legacy"}
  Switches,     \* who turns check-in on and off: {"config", "panel"} or less
  Limit,        \* checkinRunLimit
  RetryDelays,  \* checkinRetryDelays, in ticks
  DayLength,    \* ticks in a process-local day
  Hours,        \* checkinHours and keepaliveHours, as instants of the day
  MaxTime       \* bound: the last instant explored

Claims == Campaigns \cup {Daily}
Workers == Accounts \cup Callers

ASSUME CheckinAssumption ==
  /\ IsFiniteSet(Accounts)
  /\ Accounts \cap Callers = {}
  /\ None \notin Workers \cup Claims
  /\ Daily \notin Campaigns
  /\ Contracts \subseteq {"campaign", "legacy"}
  /\ Switches \subseteq {"config", "panel"}
  /\ {Limit, DayLength} \subseteq Nat \ {0}
  /\ RetryDelays \in Seq(Nat \ {0})
  /\ Hours \subseteq 0..DayLength - 1 /\ Hours # {}
  /\ MaxTime \in Nat

VARIABLES
  checkinAuto,   \* the switch
  switching,     \* a config reload has written the switch, not yet cancelled
  records,       \* checkinRuns.records
  lock,          \* lock[a]: the holder of checkinLockFor(a), or None
  run,           \* run[w]: the goroutine w
  loop,          \* the goroutine checkinLoop and its timer
  auth,          \* auth[a]: the credential file
  granted,       \* granted[a]: upstream's truth, the claims granted to a
  now,
  doubt,         \* history: the claim whose fate this process never learnt
  charged,       \* history: retries begun today
  stopped        \* history: cancelled, and nobody has started a run since

history == <<doubt, charged, stopped>>
vars == <<checkinAuto, switching, records, lock, run, loop, auth, granted,
          now, history>>

Day(t) == t \div DayLength

(* checkinRunRecord.  state is "" until a run ends; of the results only    *)
(* "none" and "disabled" matter later, every other is "other".  generation *)
(* is compared with its value at the start of the run in flight and with   *)
(* nothing else, so revoked, "it has moved since", stands for it.          *)
Records ==
  [day : Nat, state : {"", "none", "disabled", "other"},
   campaign : Campaigns \cup {None}, at : Nat, next : Nat, retries : Nat,
   confirmOnly : BOOLEAN, confirmed : BOOLEAN, legacy : BOOLEAN,
   inFlight : BOOLEAN, revoked : BOOLEAN]

(* A record whose next is 0 has no retry scheduled. *)
FreshRecord(day) ==
  [day |-> day, state |-> "", campaign |-> None, at |-> 0, next |-> 0,
   retries |-> 0, confirmOnly |-> FALSE, confirmed |-> FALSE,
   legacy |-> FALSE, inFlight |-> FALSE, revoked |-> FALSE]

(* checkinAttemptResult; status: it carries a summary. *)
Results ==
  [state : {"none", "disabled", "other"}, confirmed : BOOLEAN,
   confirmOnly : BOOLEAN, retryable : BOOLEAN, legacy : BOOLEAN,
   campaign : Campaigns \cup {None}, status : BOOLEAN]

Result(state) ==
  [state |-> state, confirmed |-> FALSE, confirmOnly |-> FALSE,
   retryable |-> FALSE, legacy |-> FALSE, campaign |-> None,
   status |-> FALSE]

Failed(retryable, confirmOnly) ==
  [Result("other") EXCEPT !.retryable = retryable,
                          !.confirmOnly = confirmOnly]

Confirmed(campaign, legacy, status) ==
  [Result("other") EXCEPT !.confirmed = TRUE, !.campaign = campaign,
                          !.legacy = legacy, !.status = status]

(* How a POST that was not settled by its answer ended, or "check" when    *)
(* the run only verifies an earlier one.                                   *)
PostAnswers == {"check", "ack", "conflict", "refused", "unknown", "lost"}

IdleRun ==
  [pc |-> "idle", account |-> None, source |-> "manual", listErr |-> FALSE,
   before |-> FreshRecord(0), claim |-> None, answer |-> "check",
   result |-> Result("none"), enabled |-> FALSE]

Runs ==
  [pc : {"idle", "lock", "read", "observe", "post", "verify", "result",
         "finish"},
   account : Accounts \cup {None}, source : {"manual", "auto", "retry"},
   listErr : BOOLEAN, before : Records, claim : Claims \cup {None},
   answer : PostAnswers, result : Results, enabled : BOOLEAN]

StartRun(a, source, listErr) ==
  [IdleRun EXCEPT !.pc = "lock", !.account = a, !.source = source,
                  !.listErr = listErr]

Campaign(claim) == IF claim = Daily THEN None ELSE claim
ClaimOf(record) == IF record.legacy THEN Daily ELSE record.campaign

(* nextCheckinTime: the first of the hours strictly after t. *)
NextHour(t) ==
  LET upcoming == {h \in t + 1 .. t + DayLength : h % DayLength \in Hours}
  IN  CHOOSE h \in upcoming : \A k \in upcoming : h <= k

LoopIdle(t) == [pc |-> "wait", due |-> {}, live |-> {}, listErr |-> FALSE,
                timer |-> NextHour(t)]

Listed == {a \in Accounts : auth[a] # "gone"}

Init ==
  /\ checkinAuto = TRUE
  /\ switching = FALSE
  /\ records = <<>>
  /\ lock = [a \in Accounts |-> None]
  /\ run = [w \in Workers |-> IdleRun]
  /\ loop = LoopIdle(1)
  /\ auth = [a \in Accounts |-> "enabled"]
  /\ granted = [a \in Accounts |-> {}]
  /\ now = 1
  /\ doubt = [a \in Accounts |-> None]
  /\ charged = [a \in Accounts |-> 0]
  /\ stopped = [a \in Accounts |-> FALSE]

-----------------------------------------------------------------------------
(* cancelCheckinRetry: the schedule goes, the checkpoint and the spent     *)
(* budget stay.                                                            *)
Cancel(table, as) ==
  [a \in DOMAIN table |->
     IF a \in as
       THEN [table[a] EXCEPT !.next = 0, !.revoked = table[a].inFlight]
       ELSE table[a]]

(* Mutated: an open claim does not protect its record. *)
EvictableInDoubt(table, day) ==
  {a \in DOMAIN table :
     ~ \/ table[a].inFlight
       \/ table[a].day = day /\ (table[a].retries > 0 \/ table[a].next # 0)}

(* What reserveCheckin may forget to make room. *)
Evictable(table, day) ==
  {a \in DOMAIN table :
     ~ \/ table[a].inFlight
       \/ table[a].confirmOnly
       \/ table[a].day = day /\ (table[a].retries > 0 \/ table[a].next # 0)}

(* The tables reserveCheckin may go on with: among records of one age the  *)
(* map's order decides.  No table: no room.                                *)
MakeRoom(table, a, day) ==
  LET candidates == Evictable(table, day)
      Drop(v) == [k \in DOMAIN table \ {v} |-> table[k]]
  IN  IF a \in DOMAIN table \/ Cardinality(DOMAIN table) < Limit
        THEN {table}
        ELSE {Drop(v) : v \in {c \in candidates :
                \A d \in candidates : table[c].at <= table[d].at}}

(* The record a run of today starts from: schedules and budgets are left   *)
(* behind at midnight, an uncertain claim is not.                          *)
Todays(table, a, day) ==
  IF a \notin DOMAIN table THEN FreshRecord(day)
  ELSE IF table[a].day = day THEN table[a]
  ELSE [FreshRecord(day) EXCEPT !.confirmOnly = table[a].confirmOnly,
                                !.campaign = table[a].campaign,
                                !.legacy = table[a].legacy,
                                !.revoked = table[a].revoked]

(* Mutated: a retry is not charged when it begins. *)
ChargeNothing(r, source) ==
  IF source = "retry" THEN [r EXCEPT !.next = 0] ELSE r

Charge(r, source) ==
  IF source = "retry" THEN [r EXCEPT !.retries = @ + 1, !.next = 0] ELSE r

Admits(r, source) ==
  CASE source = "retry" -> /\ r.next # 0
                           /\ r.next <= now
                           /\ r.retries < Len(RetryDelays)
    [] source = "auto" -> r.state \in {"", "none", "disabled"}
    [] OTHER -> TRUE

EndRun(w, a) ==
  /\ run' = [run EXCEPT ![w] = IdleRun]
  /\ lock' = [lock EXCEPT ![a] = None]

-----------------------------------------------------------------------------
(* handleManualCheckin, one target: accounts come from the host's list. *)
Manual(c, a) ==
  /\ run[c].pc = "idle"
  /\ a \in Listed
  /\ run' = [run EXCEPT ![c] = StartRun(a, "manual", FALSE)]
  /\ UNCHANGED <<checkinAuto, switching, records, lock, loop, auth, granted,
                 now, history>>

(* The head of runCheckinAccount, background work with the switch off: the *)
(* retry is cancelled and nothing runs. *)
TurnAway(w) ==
  LET a == run[w].account
  IN  /\ run[w].pc = "lock"
      /\ lock[a] = None
      /\ run[w].source # "manual"
      /\ ~checkinAuto
      /\ records' = Cancel(records, {a})
      /\ stopped' = [stopped EXCEPT ![a] = TRUE]
      /\ run' = [run EXCEPT ![w] = IdleRun]
      /\ UNCHANGED <<checkinAuto, switching, lock, loop, auth, granted, now,
                     doubt, charged>>

(* reserveCheckin: under the account's lock, before any I/O. *)
Reserve(w) ==
  LET a == run[w].account
      source == run[w].source
  IN  /\ run[w].pc = "lock"
      /\ lock[a] = None
      /\ source = "manual" \/ checkinAuto
      /\ \E table \in MakeRoom(records, a, Day(now)) :
           LET r == Todays(table, a, Day(now))
               begun == [Charge(r, source) EXCEPT !.at = now,
                           !.inFlight = TRUE, !.revoked = FALSE]
           IN  IF Admits(r, source)
                 THEN /\ records' = [k \in DOMAIN table \cup {a} |->
                                       IF k = a THEN begun ELSE table[k]]
                      /\ lock' = [lock EXCEPT ![a] = w]
                      /\ run' = [run EXCEPT ![w].pc = "read",
                                            ![w].before = begun]
                      /\ charged' = [charged EXCEPT ![a] =
                                       IF source = "retry" THEN @ + 1 ELSE @]
                      /\ stopped' = [stopped EXCEPT ![a] =
                                       source = "retry" /\ @]
                 ELSE /\ records' = table
                      /\ run' = [run EXCEPT ![w] = IdleRun]
                      /\ UNCHANGED <<lock, charged, stopped>>
      /\ UNCHANGED <<checkinAuto, switching, loop, auth, granted, now, doubt>>

(* A full table of records that must be kept turns the run away. *)
NoRoom(w) ==
  LET a == run[w].account
  IN  /\ run[w].pc = "lock"
      /\ lock[a] = None
      /\ run[w].source = "manual" \/ checkinAuto
      /\ MakeRoom(records, a, Day(now)) = {}
      /\ run' = [run EXCEPT ![w] = IdleRun]
      /\ UNCHANGED <<checkinAuto, switching, records, lock, loop, auth,
                     granted, now, history>>

Conclude(w, result) ==
  run' = [run EXCEPT ![w].pc = "result", ![w].result = result]

SkipsDisabled(w) ==
  run[w].source # "manual" /\ auth[run[w].account] = "disabled"

(* Mutated: a click counts as permission to post again. *)
VerifiesUnlessManual(w) ==
  run[w].before.confirmOnly /\ run[w].source # "manual"

(* An open claim allows reads only, whoever asks. *)
VerifiesOnly(w) == run[w].before.confirmOnly

(* The physical credential: unreadable or gone, disabled, or the way on to *)
(* the check-in, where an open claim is only verified.                     *)
ReadAuth(w) ==
  LET before == run[w].before
  IN  /\ run[w].pc = "read"
      /\ \/ run[w].listErr /\ Conclude(w, Failed(TRUE, before.confirmOnly))
         \/ /\ ~run[w].listErr
            /\ \E retryable \in BOOLEAN :
                 Conclude(w, Failed(retryable, before.confirmOnly))
         \/ /\ ~run[w].listErr
            /\ SkipsDisabled(w)
            /\ Conclude(w, [Result("disabled") EXCEPT
                              !.confirmOnly = before.confirmOnly])
         \/ /\ ~run[w].listErr
            /\ auth[run[w].account] # "gone"
            /\ ~SkipsDisabled(w)
            /\ run' = [run EXCEPT
                 ![w].pc = IF VerifiesOnly(w) THEN "verify" ELSE "observe",
                 ![w].claim = IF VerifiesOnly(w) THEN ClaimOf(before)
                                                 ELSE None,
                 ![w].answer = "check"]
      /\ UNCHANGED <<checkinAuto, switching, records, lock, loop, auth,
                     granted, now, history>>

(* The process holds a confirmation and the listing shows nothing but the  *)
(* confirmed claim, or nothing at all.                                     *)
AlreadyConfirmed(w, claim) ==
  /\ run[w].before.confirmed
  /\ CASE claim = Daily -> run[w].before.legacy
       [] claim = None -> TRUE
       [] OTHER -> claim = run[w].before.campaign

(* What a run makes of an open claim: a confirmation it already holds, or  *)
(* a claim to post.                                                        *)
Open(w, claim) ==
  LET before == run[w].before
  IN  IF AlreadyConfirmed(w, claim)
        THEN Conclude(w, Confirmed(before.campaign, before.legacy, FALSE))
        ELSE run' = [run EXCEPT ![w].pc = "post", ![w].claim = claim]

(* The campaign listing shows a claim only once it is granted, and only    *)
(* when nothing is claimable (campaignCheckinSummary).                     *)
SeesClaimed(w) ==
  /\ granted[run[w].account] \cap Campaigns # {}
  /\ Conclude(w, Confirmed(None, FALSE, TRUE))

(* It shows nothing of use: too early, too late, or lagging. *)
SeesNothing(w) ==
  LET before == run[w].before
  IN  IF AlreadyConfirmed(w, None)
        THEN Conclude(w, Confirmed(before.campaign, before.legacy, FALSE))
        ELSE Conclude(w, [Result("none") EXCEPT !.status = TRUE])

(* The legacy contract: claimed today, or claimable. *)
SeesDaily(w) ==
  \/ /\ Daily \in granted[run[w].account]
     /\ Conclude(w, Confirmed(None, TRUE, TRUE))
  \/ Open(w, Daily)

(* fetchCheckinObservation and what follows from it.  Listings may lag: a  *)
(* granted claim may still be shown as claimable, or not at all.           *)
Observe(w) ==
  /\ run[w].pc = "observe"
  /\ \/ \E retryable \in BOOLEAN : Conclude(w, Failed(retryable, FALSE))
     \/ /\ "campaign" \in Contracts
        /\ \/ SeesClaimed(w)
           \/ SeesNothing(w)
           \/ \E c \in Campaigns : Open(w, c)
     \/ "legacy" \in Contracts /\ SeesDaily(w)
  /\ UNCHANGED <<checkinAuto, switching, records, lock, loop, auth,
                 granted, now, history>>

(* The answers that settle nothing: a legacy acknowledgement or refusal, a *)
(* conflict, and the failures a POST may have outlived -- retryable        *)
(* ("unknown") or not ("lost").                                            *)
Unsettled(claim) ==
  {"conflict", "unknown", "lost"}
    \cup IF claim = Daily THEN {"ack", "refused"} ELSE {}

(* A definite answer: 401, 403, 404, 429 (the one worth a retry), a        *)
(* structured rejection.                                                   *)
Rejection(claim, retryable) ==
  [Failed(retryable, FALSE) EXCEPT !.status = TRUE,
                                   !.campaign = Campaign(claim),
                                   !.legacy = (claim = Daily)]

(* performCampaignClaim or performDailyCheckinCall: a receipt, a definite  *)
(* rejection, or an answer that has to be verified.                        *)
Post(w) ==
  LET a == run[w].account
      claim == run[w].claim
      Granted == granted' = [granted EXCEPT ![a] = @ \cup {claim}]
  IN  /\ run[w].pc = "post"
      /\ \/ /\ claim # Daily
            /\ Granted
            /\ Conclude(w, Confirmed(claim, FALSE, TRUE))
            /\ UNCHANGED doubt
         \/ /\ \E retryable \in BOOLEAN :
                 Conclude(w, Rejection(claim, retryable))
            /\ UNCHANGED <<granted, doubt>>
         \/ \E answer \in Unsettled(claim) :
              /\ answer = "conflict" => claim \in granted[a]
              /\ \/ UNCHANGED granted
                 \/ answer \in {"unknown", "lost", "ack"} /\ Granted
              /\ run' = [run EXCEPT ![w].pc = "verify", ![w].answer = answer]
              /\ doubt' = [doubt EXCEPT ![a] = IF answer = "refused"
                                                 THEN @ ELSE claim]
      /\ UNCHANGED <<checkinAuto, switching, records, lock, loop, auth, now,
                     charged, stopped>>

(* What a verified POST that stays unconfirmed turns into. *)
Amended(answer, result) ==
  CASE answer = "refused" -> [result EXCEPT !.retryable = FALSE,
                                            !.confirmOnly = FALSE]
    [] answer = "lost" -> [result EXCEPT !.retryable = FALSE]
    [] OTHER -> result

(* confirmedCheckinAttempt on an open claim: its own contract and campaign *)
(* are read again and nothing is posted.  A failed read yields neither a   *)
(* summary nor, for a run that only checks, the campaign.                  *)
Verify(w) ==
  LET a == run[w].account
      claim == run[w].claim
      answer == run[w].answer
      legacy == IF answer = "check" THEN run[w].before.legacy
                                    ELSE claim = Daily
      named == IF claim = None THEN None ELSE Campaign(claim)
  IN  /\ run[w].pc = "verify"
      /\ \/ /\ claim \in granted[a]
            /\ Conclude(w, Confirmed(named, legacy, TRUE))
            /\ doubt' = [doubt EXCEPT ![a] = IF @ = claim THEN None ELSE @]
         \/ /\ Conclude(w, Amended(answer,
                 [Failed(TRUE, TRUE) EXCEPT !.campaign = named,
                                            !.legacy = legacy,
                                            !.status = TRUE]))
            /\ UNCHANGED doubt
         \/ /\ \E retryable \in BOOLEAN :
                 Conclude(w, Amended(answer,
                   [Failed(retryable, TRUE) EXCEPT
                      !.campaign = IF answer = "check" THEN None ELSE named,
                      !.legacy = answer # "check" /\ legacy]))
            /\ UNCHANGED doubt
      /\ UNCHANGED <<checkinAuto, switching, records, lock, loop, auth,
                     granted, now, charged, stopped>>

(* finishCheckin reads the switch before it takes the table's lock. *)
ReadSwitch(w) ==
  /\ run[w].pc = "result"
  /\ run' = [run EXCEPT ![w].pc = "finish", ![w].enabled = checkinAuto]
  /\ UNCHANGED <<checkinAuto, switching, records, lock, loop, auth, granted,
                 now, history>>

(* Mutated: a cancellation during the run is not noticed. *)
MayRearmAfterCancel(r, revoked, result, enabled) ==
  result.retryable /\ enabled /\ r.retries < Len(RetryDelays)

MayRearm(r, revoked, result, enabled) ==
  /\ result.retryable
  /\ enabled
  /\ r.retries < Len(RetryDelays)
  /\ ~revoked

(* The schedule that follows a run: never in another day than the run's. *)
NextRetry(r, revoked, result, enabled) ==
  IF /\ MayRearm(r, revoked, result, enabled)
     /\ Day(now + RetryDelays[r.retries + 1]) = r.day
    THEN now + RetryDelays[r.retries + 1]
    ELSE 0

(* Mutated: the campaign is noted only once it is confirmed. *)
FinishedUnbound(before, revoked, result, enabled) ==
  [before EXCEPT
     !.at = now, !.state = result.state, !.inFlight = FALSE,
     !.confirmed = result.confirmed \/ @,
     !.confirmOnly = ~result.confirmed /\ (result.confirmOnly \/ @),
     !.campaign = IF result.confirmed THEN result.campaign ELSE @,
     !.next = NextRetry(before, revoked, result, enabled),
     !.revoked = revoked]

(* The record finishCheckin leaves. *)
Finished(before, revoked, result, enabled) ==
  [before EXCEPT
     !.at = now, !.state = result.state, !.inFlight = FALSE,
     !.confirmed =
        IF result.campaign # None /\ result.campaign # before.campaign
          THEN result.confirmed ELSE result.confirmed \/ @,
     !.confirmOnly = ~result.confirmed /\ (result.confirmOnly \/ @),
     !.campaign = IF result.campaign # None THEN result.campaign ELSE @,
     !.legacy = IF \/ result.campaign # None
                   \/ result.status
                   \/ result.confirmed
                  THEN result.legacy ELSE @,
     !.next = NextRetry(before, revoked, result, enabled),
     !.revoked = revoked]

Finish(w) ==
  LET a == run[w].account
  IN  /\ run[w].pc = "finish"
      /\ records' = [k \in DOMAIN records \cup {a} |->
           IF k = a
             THEN Finished(run[w].before,
                           a \in DOMAIN records /\ records[a].revoked,
                           run[w].result, run[w].enabled)
             ELSE records[k]]
      /\ EndRun(w, a)
      /\ UNCHANGED <<checkinAuto, switching, loop, auth, granted, now,
                     history>>

-----------------------------------------------------------------------------
(* runDueCheckinRetries, the scan: with the switch off every schedule is   *)
(* dropped; otherwise yesterday's are, and those that are due are noted.   *)
LoopScan ==
  /\ loop.pc = "wait"
  /\ IF checkinAuto
       THEN LET due == {a \in DOMAIN records : /\ records[a].day = Day(now)
                                               /\ records[a].next # 0
                                               /\ records[a].next <= now}
            IN  /\ records' = [a \in DOMAIN records |->
                     IF records[a].day = Day(now)
                       THEN records[a] ELSE [records[a] EXCEPT !.next = 0]]
                /\ loop' = IF due = {} THEN loop
                             ELSE [loop EXCEPT !.pc = "list", !.due = due]
                /\ UNCHANGED stopped
       ELSE /\ records' = Cancel(records, DOMAIN records)
            /\ stopped' = [a \in Accounts |-> TRUE]
            /\ UNCHANGED loop
  /\ UNCHANGED <<checkinAuto, switching, lock, run, auth, granted, now, doubt,
                 charged>>

(* Mutated: without the host's list the tick is given up. *)
LoopListOrGiveUp ==
  /\ loop.pc = "list"
  /\ \E listErr \in BOOLEAN :
       loop' = IF listErr
                 THEN [loop EXCEPT !.pc = "wait", !.due = {}]
                 ELSE [loop EXCEPT !.pc = "run", !.live = Listed]
  /\ UNCHANGED <<checkinAuto, switching, records, lock, run, auth, granted,
                 now, history>>

(* hostAuthList, which may fail. *)
LoopList ==
  /\ loop.pc = "list"
  /\ \E listErr \in BOOLEAN :
       loop' = [loop EXCEPT !.pc = "run", !.listErr = listErr,
                            !.live = IF listErr THEN {} ELSE Listed]
  /\ UNCHANGED <<checkinAuto, switching, records, lock, run, auth, granted,
                 now, history>>

LoopQuiet == \A a \in Accounts : run[a].pc = "idle"

(* One due account after the other; an account no longer listed loses its  *)
(* schedule.                                                               *)
LoopRetry(a) ==
  /\ loop.pc = "run"
  /\ LoopQuiet
  /\ a \in loop.due
  /\ loop' = [loop EXCEPT !.due = @ \ {a}]
  /\ IF loop.listErr \/ a \in loop.live
       THEN /\ run' = [run EXCEPT ![a] = StartRun(a, "retry", loop.listErr)]
            /\ UNCHANGED <<records, stopped>>
       ELSE /\ records' = Cancel(records, {a})
            /\ stopped' = [stopped EXCEPT ![a] = TRUE]
            /\ UNCHANGED run
  /\ UNCHANGED <<checkinAuto, switching, lock, auth, granted, now, doubt,
                 charged>>

(* runAutoCheckin: one goroutine per listed account, and the loop waits.   *)
(* With the switch off the hour passes.                                    *)
LoopAuto ==
  /\ loop.pc = "wait"
  /\ loop.timer <= now
  /\ run' = [w \in Workers |->
               IF checkinAuto /\ w \in Listed THEN StartRun(w, "auto", FALSE)
                                              ELSE run[w]]
  /\ loop' = [loop EXCEPT !.pc = "auto"]
  /\ UNCHANGED <<checkinAuto, switching, records, lock, auth, granted, now,
                 history>>

(* Back to the select; after an automatic run the timer is armed again. *)
LoopBack ==
  /\ LoopQuiet
  /\ \/ /\ loop.pc = "run"
        /\ loop.due = {}
        /\ loop' = [loop EXCEPT !.pc = "wait", !.live = {},
                                !.listErr = FALSE]
     \/ /\ loop.pc = "auto"
        /\ loop' = LoopIdle(now)
  /\ UNCHANGED <<checkinAuto, switching, records, lock, run, auth, granted,
                 now, history>>

-----------------------------------------------------------------------------
(* applyConfig writes the switch ...  *)
ConfigSwitch(on) ==
  /\ "config" \in Switches
  /\ ~switching
  /\ checkinAuto' = on
  /\ switching' = ~on
  /\ UNCHANGED <<records, lock, run, loop, auth, granted, now, history>>

(* ... and, turning it off, cancels what is scheduled afterwards. *)
ConfigCancel ==
  /\ switching
  /\ switching' = FALSE
  /\ records' = Cancel(records, DOMAIN records)
  /\ stopped' = [a \in Accounts |-> TRUE]
  /\ UNCHANGED <<checkinAuto, lock, run, loop, auth, granted, now, doubt,
                 charged>>

(* handleCheckinConfig, the panel's toggle: it writes the flag and leaves  *)
(* schedules and runs in flight as they are.                               *)
PanelSwitch(on) ==
  /\ "panel" \in Switches
  /\ checkinAuto # on
  /\ checkinAuto' = on
  /\ UNCHANGED <<switching, records, lock, run, loop, auth, granted, now,
                 history>>

(* Mutated: the operator's change does not wait for the account's lock. *)
SetAuthUnlocked(a, state) ==
  /\ auth[a] \notin {"gone", state}
  /\ auth' = [auth EXCEPT ![a] = state]
  /\ IF state = "enabled"
       THEN UNCHANGED <<records, stopped>>
       ELSE /\ records' = Cancel(records, {a})
            /\ stopped' = [stopped EXCEPT ![a] = TRUE]
  /\ UNCHANGED <<checkinAuto, switching, lock, run, loop, granted, now, doubt,
                 charged>>

(* The operator parks, restores or deletes an account, under its lock; the *)
(* file is gone or disabled before the retry is cancelled, but nobody can  *)
(* look in between who would not stop at the file itself.                  *)
SetAuth(a, state) ==
  /\ lock[a] = None
  /\ auth[a] # "gone"
  /\ auth[a] # state
  /\ auth' = [auth EXCEPT ![a] = state]
  /\ IF state = "enabled"
       THEN UNCHANGED <<records, stopped>>
       ELSE /\ records' = Cancel(records, {a})
            /\ stopped' = [stopped EXCEPT ![a] = TRUE]
  /\ UNCHANGED <<checkinAuto, switching, lock, run, loop, granted, now, doubt,
                 charged>>

(* Another client of the same account claims. *)
ClaimedElsewhere(a, claim) ==
  /\ claim \notin granted[a]
  /\ granted' = [granted EXCEPT ![a] = @ \cup {claim}]
  /\ UNCHANGED <<checkinAuto, switching, records, lock, run, loop, auth, now,
                 history>>

(* At midnight the legacy contract opens again and budgets are new. *)
Tick ==
  /\ now < MaxTime
  /\ now' = now + 1
  /\ IF Day(now') = Day(now)
       THEN UNCHANGED <<granted, charged>>
       ELSE /\ granted' = [a \in Accounts |-> granted[a] \ {Daily}]
            /\ charged' = [a \in Accounts |-> 0]
  /\ UNCHANGED <<checkinAuto, switching, records, lock, run, loop, auth,
                 doubt, stopped>>

(* The process starts again; upstream and the credential files remain. *)
Restart ==
  /\ checkinAuto' = TRUE
  /\ switching' = FALSE
  /\ records' = <<>>
  /\ lock' = [a \in Accounts |-> None]
  /\ run' = [w \in Workers |-> IdleRun]
  /\ loop' = LoopIdle(now)
  /\ doubt' = [a \in Accounts |-> None]
  /\ charged' = [a \in Accounts |-> 0]
  /\ stopped' = [a \in Accounts |-> FALSE]
  /\ UNCHANGED <<auth, granted, now>>

RunStep(w) ==
  \/ TurnAway(w)
  \/ Reserve(w)
  \/ NoRoom(w)
  \/ ReadAuth(w)
  \/ Observe(w)
  \/ Post(w)
  \/ Verify(w)
  \/ ReadSwitch(w)
  \/ Finish(w)

LoopStep ==
  \/ LoopScan
  \/ LoopList
  \/ \E a \in Accounts : LoopRetry(a)
  \/ LoopAuto
  \/ LoopBack

Next ==
  \/ \E c \in Callers, a \in Accounts : Manual(c, a)
  \/ \E w \in Workers : RunStep(w)
  \/ LoopStep
  \/ \E on \in BOOLEAN : ConfigSwitch(on) \/ PanelSwitch(on)
  \/ ConfigCancel
  \/ \E a \in Accounts, state \in {"enabled", "disabled", "gone"} :
       SetAuth(a, state)
  \/ \E a \in Accounts, claim \in Claims : ClaimedElsewhere(a, claim)
  \/ Tick
  \/ Restart

Spec == Init /\ [][Next]_vars

(* Goroutines run on, I/O returns, tickers fire; a Go mutex is handed to a *)
(* waiter in the end, whoever else keeps asking for it.                    *)
Fairness ==
  /\ \A w \in Workers : /\ WF_vars(RunStep(w))
                        /\ SF_vars(TurnAway(w) \/ Reserve(w) \/ NoRoom(w))
  /\ WF_vars(LoopStep)
  /\ WF_vars(LoopScan)
  /\ WF_vars(ConfigCancel)
  /\ WF_vars(Tick)

FairSpec == Spec /\ Fairness

-----------------------------------------------------------------------------
TypeOK ==
  /\ {checkinAuto, switching} \subseteq BOOLEAN
  /\ DOMAIN records \subseteq Accounts
  /\ \A a \in DOMAIN records : records[a] \in Records
  /\ lock \in [Accounts -> Workers \cup {None}]
  /\ run \in [Workers -> Runs]
  /\ loop \in [pc : {"wait", "list", "run", "auto"}, due : SUBSET Accounts,
               live : SUBSET Accounts, listErr : BOOLEAN, timer : Nat]
  /\ auth \in [Accounts -> {"enabled", "disabled", "gone"}]
  /\ granted \in [Accounts -> SUBSET Claims]
  /\ now \in Nat
  /\ doubt \in [Accounts -> Claims \cup {None}]
  /\ charged \in [Accounts -> Nat]
  /\ stopped \in [Accounts -> BOOLEAN]

(* A claim whose answer was lost stays on record, or with the run that is  *)
(* looking into it: eviction, midnight, cancellation, failed reads and     *)
(* unlisted campaigns do not forget it (reserveCheckin, finishCheckin).    *)
DoubtRemembered ==
  \A a \in Accounts : doubt[a] # None =>
    \/ a \in DOMAIN records /\ records[a].confirmOnly
    \/ \E w \in Workers :
         /\ lock[a] = w
         /\ \/ run[w].pc = "verify"
            \/ /\ run[w].pc \in {"result", "finish"}
               /\ run[w].result.confirmOnly

(* While nobody knows what became of a claim no second POST goes out for   *)
(* its account; and the checkpoint of an open campaign claim names that    *)
(* campaign, so that the right one is verified, also after a legacy claim  *)
(* or another campaign (confirmedCheckinAttempt, finishCheckin).  Of a     *)
(* legacy claim the contract is noted only when a read answered: if all    *)
(* failed, the checkpoint says "campaign".                                 *)
NoBlindRepeat ==
  /\ \A w \in Workers : run[w].pc = "post" => doubt[run[w].account] = None
  /\ \A a \in Accounts :
       doubt[a] \in Campaigns /\ lock[a] = None /\ a \in DOMAIN records =>
         ClaimOf(records[a]) = doubt[a]

(* Retries are bounded per account and day, whoever schedules, fails or    *)
(* cancels them and whatever the table forgets (reserveCheckin); and the   *)
(* state is well formed.                                                   *)
RetryBudget ==
  /\ TypeOK
  /\ \A a \in Accounts : charged[a] <= Len(RetryDelays)

(* A run past the file check has the account to itself: background work    *)
(* never claims for an account the operator has parked in the meantime     *)
(* (runCheckinAccount holds the lock lifecycle writes take).               *)
ParkedLeftAlone ==
  \A w \in Workers :
    /\ run[w].pc \in {"observe", "post", "verify"}
    /\ run[w].source # "manual"
    => auth[run[w].account] = "enabled"

(* What was cancelled stays cancelled: after the configured switch, a      *)
(* parked account or a deletion, no retry runs until somebody starts a new *)
(* run (cancelCheckinRetry against runs in flight).  The panel's toggle    *)
(* cancels nothing by itself; the loop does, if it looks while it is off.  *)
CancelledStaysCancelled ==
  [][\A w \in Workers :
       /\ run[w].pc = "lock"
       /\ run'[w].pc = "read"
       /\ run[w].source = "retry"
       => ~stopped[run[w].account]]_vars

(* A scheduled retry is run, cancelled, or overtaken by another run of its *)
(* account; it never just stays (checkinLoop, runDueCheckinRetries).       *)
Armed(a) ==
  a \in DOMAIN records /\ records[a].next \in 1..MaxTime /\ ~records[a].inFlight
RetryComes == \A a \in Accounts : Armed(a) ~> ~Armed(a)
=============================================================================
