---------------------------- MODULE AccountCache ----------------------------
(***************************************************************************)
(* accountCache of cache.go: what the plugin last heard from upstream of   *)
(* an account, merged from several goroutines that each began to ask at    *)
(* some instant: the shared fetches of dashboard and reconciliation        *)
(* (cachedAccountDetails), the check-in's own answers, the card's credits  *)
(* query, and the chats that make the balance stale.                       *)
(*                                                                         *)
(* storeAccountSnapshot retries until its CompareAndSwap finds the entry   *)
(* it merged into, so a merge is one step.  The plan is left out: it is    *)
(* merged like the credits and nothing is decided from it.  Every reading  *)
(* of the clock is an instant of its own.  Callers force a fetch, as all   *)
(* of them do in the code.                                                 *)
(***************************************************************************)
EXTENDS Integers, FiniteSets

CONSTANTS
  Accounts,     \* auth ids
  Callers,      \* goroutines of dashboards and reconciliation
  Chats,        \* goroutines of answered chats (invalidateAccountCredits)
  Cards,        \* goroutines of a card's credits query
  Nobody,
  Forgets,      \* who deletes entries: {"dashboard", "reenable"} or less
  Cap,          \* accountCacheSoftCap
  TTL,          \* accountCacheTTL, in instants
  Grace,        \* checkinGraceWindow, in instants
  DayLength,    \* instants in a process-local day
  MaxTime       \* bound: instants explored

CacheWorkers == Callers \cup Chats \cup Cards

ASSUME AccountCacheAssumption ==
  /\ IsFiniteSet(Accounts)
  /\ Callers \cap Chats = {} /\ Callers \cap Cards = {} /\ Chats \cap Cards = {}
  /\ Nobody \notin CacheWorkers \cup Accounts
  /\ Forgets \subseteq {"dashboard", "reenable"}
  /\ {Cap, Grace, DayLength} \subseteq Nat \ {0}
  /\ {TTL, MaxTime} \subseteq Nat

VARIABLES
  now,        \* the clock
  cache,      \* accountCache: an entry, or NoEntry
  flight,     \* accountDetailFlight: the fetching caller, or Nobody
  task,       \* task[w]: the goroutine w
  checkins,   \* checkins[a]: the check-in run of the account
  receipt,    \* history: when a confirmation with a status was last stored
  claimed,    \* history: when a confirmation was last stored
  rejected,   \* history: start of the last fetch merged that was refused
  balance     \* history: the read whose balance the last confirmation found

cacheHistory == <<receipt, claimed, rejected, balance>>
cacheVars == <<now, cache, flight, task, checkins, cacheHistory>>

Instants == 0..MaxTime          \* 0 is the zero time
Day(t) == t \div DayLength

(* accountCacheEntry.  checkin is "claimed" when its summary says that     *)
(* today's benefit was taken; credits says whether a balance is held.      *)
Entries ==
  [checkin : {"nil", "open", "claimed"}, checkinFetched : Instants,
   checkinAt : Instants, confirmedAt : Instants, credits : BOOLEAN,
   creditsFetched : Instants, fetched : Instants]

EmptyEntry ==
  [checkin |-> "nil", checkinFetched |-> 0, checkinAt |-> 0,
   confirmedAt |-> 0, credits |-> FALSE, creditsFetched |-> 0, fetched |-> 0]

(* The absence of an entry: no entry was fetched at a negative instant. *)
NoEntry == [EmptyEntry EXCEPT !.fetched = -1]

Held(a) == cache[a] # NoEntry

(* What a goroutine merges: an entry, and whether upstream refused the     *)
(* credential itself.                                                      *)
Snapshot(entry) == [entry |-> entry, invalidate |-> FALSE]

CheckinSnapshot(checkin, started) ==
  Snapshot([EmptyEntry EXCEPT !.checkin = checkin, !.checkinFetched = started])

CreditsSnapshot(started) ==
  Snapshot([EmptyEntry EXCEPT !.credits = TRUE, !.creditsFetched = started])

(* storeCheckinConfirmation; the summary may be missing. *)
Confirmation(checkin, at) ==
  Snapshot([EmptyEntry EXCEPT
              !.checkinAt = at, !.confirmedAt = at, !.checkin = checkin,
              !.checkinFetched = IF checkin = "nil" THEN 0 ELSE at])

Later(s, t) == IF s > t THEN s ELSE t

(* Mutated: the last listing wins. *)
KeepsNoReceipt(snapshot, entry, confirmedAt, time) == FALSE

(* A receipt of today outlives a listing that no longer shows it. *)
KeepsReceipt(snapshot, entry, confirmedAt, time) ==
  /\ ~snapshot.invalidate
  /\ entry.checkin = "claimed"
  /\ confirmedAt # 0
  /\ Day(confirmedAt) = Day(time)
  /\ snapshot.entry.checkin # "claimed"

(* Mutated: the read only has to be newer than the one held. *)
TakesOlderCredits(s, entry, checkinAt) ==
  /\ s.creditsFetched # 0
  /\ s.creditsFetched >= entry.creditsFetched

(* A read of the credits counts when nothing newer is held and it began    *)
(* after the last check-in.                                                *)
TakesCredits(s, entry, checkinAt) ==
  /\ s.creditsFetched # 0
  /\ s.creditsFetched >= entry.creditsFetched
  /\ s.creditsFetched >= checkinAt

TakesCheckin(s, entry) ==
  s.checkinFetched # 0 /\ s.checkinFetched >= entry.checkinFetched

(* The entry that storeAccountSnapshot swaps in. *)
Merged(old, snapshot, time) ==
  LET s == snapshot.entry
      entry == IF old = NoEntry THEN EmptyEntry ELSE old
      checkinAt == Later(s.checkinAt, entry.checkinAt)
      confirmedAt == Later(s.confirmedAt, entry.confirmedAt)
      checks == /\ TakesCheckin(s, entry)
                /\ ~KeepsReceipt(snapshot, entry, confirmedAt, time)
      spends == TakesCredits(s, entry, checkinAt)
  IN [checkin |-> IF checks THEN s.checkin ELSE entry.checkin,
      checkinFetched |-> IF checks THEN s.checkinFetched
                                   ELSE entry.checkinFetched,
      checkinAt |-> checkinAt,
      confirmedAt |-> IF checks /\ snapshot.invalidate THEN 0
                                                       ELSE confirmedAt,
      credits |-> IF spends THEN s.credits ELSE entry.credits,
      creditsFetched |-> IF spends THEN s.creditsFetched
                                   ELSE entry.creditsFetched,
      fetched |-> IF snapshot.invalidate THEN 0
                  ELSE IF s.fetched > entry.fetched /\ s.fetched >= checkinAt
                         THEN s.fetched ELSE entry.fetched]

Free ==
  [pc |-> "idle", account |-> Nobody, started |-> 0, joined |-> Nobody,
   seen |-> NoEntry]

(* A check-in run, from the instant it began to the query for the credits  *)
(* that follows a confirmation.                                            *)
IdleCheckin == [pc |-> "idle", started |-> 0]

CacheInit ==
  /\ now = 0
  /\ cache = [a \in Accounts |-> NoEntry]
  /\ flight = [a \in Accounts |-> Nobody]
  /\ task = [w \in CacheWorkers |-> Free]
  /\ checkins = [a \in Accounts |-> IdleCheckin]
  /\ receipt = [a \in Accounts |-> 0]
  /\ claimed = [a \in Accounts |-> 0]
  /\ rejected = [a \in Accounts |-> 0]
  /\ balance = [a \in Accounts |-> 0]

(* The clock is read, or time passes. *)
Stamp == now < MaxTime /\ now' = now + 1

(* The history of accounts whose entries are gone, or replaced by a copy    *)
(* made before their last merge (DropCredits), begins again.               *)
StartOver(forgotten) ==
  LET Cut(f) == [a \in Accounts |-> IF a \in forgotten THEN 0 ELSE f[a]] IN
    /\ receipt' = Cut(receipt)
    /\ claimed' = Cut(claimed)
    /\ rejected' = Cut(rejected)
    /\ balance' = Cut(balance)

Tick == Stamp /\ UNCHANGED <<cache, flight, task, checkins, cacheHistory>>

(* storeAccountSnapshot, at the instant time. *)
Store(a, snapshot, time) ==
  cache' = [cache EXCEPT ![a] = Merged(cache[a], snapshot, time)]

(* Mutated: every caller fetches for itself. *)
CallUnshared(c, a) ==
  /\ task[c].pc = "idle"
  /\ Stamp
  /\ flight' = [flight EXCEPT ![a] = c]
  /\ task' = [task EXCEPT ![c] =
       [Free EXCEPT !.pc = "fetch", !.account = a, !.started = now + 1]]
  /\ UNCHANGED <<cache, checkins, cacheHistory>>

(* cachedAccountDetails: LoadOrStore of the flight makes the caller its    *)
(* fetcher, or has it wait for the one there is; a flight that is closed   *)
(* but not yet deleted answers at once.                                    *)
Call(c, a) ==
  /\ task[c].pc = "idle"
  /\ IF flight[a] = Nobody
       THEN /\ Stamp
            /\ flight' = [flight EXCEPT ![a] = c]
            /\ task' = [task EXCEPT ![c] =
                 [Free EXCEPT !.pc = "fetch", !.account = a,
                                  !.started = now + 1]]
       ELSE /\ task' = [task EXCEPT ![c] =
                 [Free EXCEPT
                    !.pc = IF task[flight[a]].pc = "release" THEN "woken"
                                                             ELSE "wait",
                    !.account = a, !.joined = flight[a]]]
            /\ UNCHANGED <<now, flight>>
  /\ UNCHANGED <<cache, checkins, cacheHistory>>

(* What a fetch found out: each of its queries may fail on its own, and    *)
(* upstream may refuse the credential, which drops all it found.           *)
Fetched(checkin, credits, refused, started) ==
  IF refused
    THEN [entry |-> [EmptyEntry EXCEPT !.checkinFetched = started,
                                       !.creditsFetched = started],
          invalidate |-> TRUE]
    ELSE Snapshot(
           [EmptyEntry EXCEPT
              !.checkin = checkin, !.credits = credits,
              !.checkinFetched = IF checkin = "nil" THEN 0 ELSE started,
              !.creditsFetched = IF credits THEN started ELSE 0,
              !.fetched = IF checkin # "nil" /\ credits THEN started ELSE 0])

(* The queries of the fetch have answered, and their answers are merged.   *)
Merge(c, checkin, credits, refused) ==
  /\ task[c].pc = "fetch"
  /\ Store(task[c].account, Fetched(checkin, credits, refused,
                                    task[c].started), now)
  /\ task' = [task EXCEPT ![c].pc = "prune"]
  /\ rejected' = [rejected EXCEPT ![task[c].account] =
                    IF refused THEN Later(@, task[c].started) ELSE @]
  /\ UNCHANGED <<now, flight, checkins, receipt, claimed, balance>>

InGrace(a) == cache[a].checkinAt # 0 /\ now - cache[a].checkinAt < Grace

(* pruneAccountCacheSoftCap: of the entries over the cap those fetched     *)
(* longest ago go, except under the grace window.                          *)
Pruned ==
  LET held == {a \in Accounts : Held(a)}
      loose == {a \in held : ~InGrace(a)}
      excess == Cardinality(held) - Cap
  IN IF excess <= 0 THEN {{}}
     ELSE {gone \in SUBSET loose :
             /\ Cardinality(gone) = IF excess < Cardinality(loose)
                                      THEN excess ELSE Cardinality(loose)
             /\ \A a \in gone, b \in loose \ gone :
                  cache[a].fetched <= cache[b].fetched}

Evict(c) ==
  /\ task[c].pc = "prune"
  /\ \E gone \in Pruned :
       /\ cache' = [a \in Accounts |->
                      IF a \in gone THEN NoEntry ELSE cache[a]]
       /\ StartOver({a \in gone : claimed[a] = 0 \/ now - claimed[a] >= Grace})
  /\ task' = [task EXCEPT ![c].pc = "close"]
  /\ UNCHANGED <<now, flight, checkins>>

Woken(c, w) == task[w].pc = "wait" /\ task[w].joined = c

(* The deferred close(call.done); the flight is deleted after it.          *)
Close(c) ==
  /\ task[c].pc = "close"
  /\ task' = [w \in CacheWorkers |->
       IF w = c THEN [task[w] EXCEPT !.pc = "release"]
       ELSE IF Woken(c, w) THEN [task[w] EXCEPT !.pc = "woken"]
       ELSE task[w]]
  /\ UNCHANGED <<now, cache, flight, checkins, cacheHistory>>

Release(c) ==
  /\ task[c].pc = "release"
  /\ flight' = [flight EXCEPT ![task[c].account] = Nobody]
  /\ task' = [task EXCEPT ![c] = Free]
  /\ UNCHANGED <<now, cache, checkins, cacheHistory>>

(* A waiter reads the cache again and returns. *)
Answer(w) ==
  /\ task[w].pc = "woken"
  /\ task' = [task EXCEPT ![w] = Free]
  /\ UNCHANGED <<now, cache, flight, checkins, cacheHistory>>
-----------------------------------------------------------------------------
(* A check-in run (runCheckinAccount) begins to ask. *)
StartCheckin(a) ==
  /\ checkins[a].pc = "idle"
  /\ Stamp
  /\ checkins' = [checkins EXCEPT ![a] = [pc |-> "ask", started |-> now + 1]]
  /\ UNCHANGED <<cache, flight, task, cacheHistory>>

(* The first confirmation of a claim, with or without a summary. *)
Confirm(a, checkin) ==
  /\ checkins[a].pc = "ask"
  /\ Stamp
  /\ Store(a, Confirmation(checkin, now + 1), now + 1)
  /\ claimed' = [claimed EXCEPT ![a] = now + 1]
  /\ receipt' = [receipt EXCEPT ![a] = IF checkin = "nil" THEN @ ELSE now + 1]
  /\ balance' = [balance EXCEPT ![a] = cache[a].creditsFetched]
  /\ checkins' = [checkins EXCEPT ![a].pc = "credits"]
  /\ UNCHANGED <<flight, task, rejected>>

(* A run that confirms nothing new stores the summary it saw; when it met  *)
(* an earlier confirmation again, it asks for the credits too.             *)
Observe(a, checkin, again) ==
  /\ checkins[a].pc = "ask"
  /\ Store(a, CheckinSnapshot(checkin, checkins[a].started), now)
  /\ checkins' = [checkins EXCEPT
        ![a] = IF again THEN [@ EXCEPT !.pc = "credits"] ELSE IdleCheckin]
  /\ UNCHANGED <<now, flight, task, cacheHistory>>

(* It ends without a summary, or without the credits. *)
EndCheckin(a) ==
  /\ checkins[a].pc \in {"ask", "answer"}
  /\ checkins' = [checkins EXCEPT ![a] = IdleCheckin]
  /\ UNCHANGED <<now, cache, flight, task, cacheHistory>>

AskCredits(a) ==
  /\ checkins[a].pc = "credits"
  /\ Stamp
  /\ checkins' = [checkins EXCEPT ![a] = [pc |-> "answer", started |-> now + 1]]
  /\ UNCHANGED <<cache, flight, task, cacheHistory>>

StoreCredits(a) ==
  /\ checkins[a].pc = "answer"
  /\ Store(a, CreditsSnapshot(checkins[a].started), now)
  /\ checkins' = [checkins EXCEPT ![a] = IdleCheckin]
  /\ UNCHANGED <<now, flight, task, cacheHistory>>
-----------------------------------------------------------------------------
(* A card asks for the credits of its account (handleCreditsQuery).        *)
AskCard(w, a) ==
  /\ task[w].pc = "idle"
  /\ Stamp
  /\ task' = [task EXCEPT ![w] =
       [Free EXCEPT !.pc = "card", !.account = a, !.started = now + 1]]
  /\ UNCHANGED <<cache, flight, checkins, cacheHistory>>

AnswerCard(w, credits) ==
  /\ task[w].pc = "card"
  /\ task' = [task EXCEPT ![w] = Free]
  /\ IF credits
       THEN /\ Stamp
            /\ Store(task[w].account,
                     Snapshot([EmptyEntry EXCEPT
                       !.credits = TRUE, !.creditsFetched = task[w].started,
                       !.fetched = now + 1]), now + 1)
       ELSE UNCHANGED <<now, cache>>
  /\ UNCHANGED <<flight, checkins, cacheHistory>>

(* invalidateAccountCredits, after a chat: it loads the entry and stores   *)
(* its copy without the credits.                                           *)
LoadEntry(w, a) ==
  /\ task[w].pc = "idle"
  /\ Held(a)
  /\ Stamp
  /\ task' = [task EXCEPT ![w] =
       [Free EXCEPT !.pc = "drop", !.account = a, !.started = now + 1,
                        !.seen = cache[a]]]
  /\ UNCHANGED <<cache, flight, checkins, cacheHistory>>

DropCredits(w) ==
  LET a == task[w].account IN
    /\ task[w].pc = "drop"
    /\ Stamp
    /\ cache' = [cache EXCEPT
          ![a] = [task[w].seen EXCEPT !.credits = FALSE, !.fetched = now + 1]]
    /\ StartOver(IF cache[a] = task[w].seen THEN {} ELSE {a})
    /\ task' = [task EXCEPT ![w] = Free]
    /\ UNCHANGED <<flight, checkins>>

(* A dashboard deletes the entries fetched longest ago; one that was never *)
(* fetched whole has the zero time.                                        *)
Dashboard ==
  LET Stale(entry) == entry.fetched = 0 \/ now - entry.fetched > 4 * TTL IN
    /\ "dashboard" \in Forgets
    /\ cache' = [a \in Accounts |->
                  IF Held(a) /\ Stale(cache[a]) THEN NoEntry ELSE cache[a]]
    /\ StartOver({a \in Accounts : Held(a) /\ Stale(cache[a])})
    /\ UNCHANGED <<now, flight, task, checkins>>

(* A disabled account is restored (reenableAuthChanged). *)
Restored(a) ==
  /\ "reenable" \in Forgets
  /\ cache' = [cache EXCEPT ![a] = NoEntry]
  /\ StartOver({a})
  /\ UNCHANGED <<now, flight, task, checkins>>

Fetching(c) ==
  \/ \E checkin \in {"nil", "open", "claimed"},
        credits, refused \in BOOLEAN : Merge(c, checkin, credits, refused)
  \/ Evict(c) \/ Close(c) \/ Release(c) \/ Answer(c)

Checking(a) ==
  \/ StartCheckin(a)
  \/ \E checkin \in {"nil", "claimed"} : Confirm(a, checkin)
  \/ \E checkin \in {"open", "claimed"}, again \in BOOLEAN :
       Observe(a, checkin, again)
  \/ EndCheckin(a) \/ AskCredits(a) \/ StoreCredits(a)

CacheNext ==
  \/ Tick
  \/ \E c \in Callers : Fetching(c) \/ \E a \in Accounts : Call(c, a)
  \/ \E a \in Accounts : Checking(a)
  \/ \E w \in Cards :
       \/ \E a \in Accounts : AskCard(w, a)
       \/ \E credits \in BOOLEAN : AnswerCard(w, credits)
  \/ \E w \in Chats : DropCredits(w) \/ \E a \in Accounts : LoadEntry(w, a)
  \/ Dashboard
  \/ \E a \in Accounts : Restored(a)

CacheSpec == CacheInit /\ [][CacheNext]_cacheVars
-----------------------------------------------------------------------------
(* Every variable is of its type, and a flight belongs to a caller that is *)
(* at work on that account.                                                *)
TypeOK ==
  /\ now \in Instants
  /\ cache \in [Accounts -> Entries \cup {NoEntry}]
  /\ flight \in [Accounts -> Callers \cup {Nobody}]
  /\ \A a \in Accounts : flight[a] # Nobody =>
       /\ task[flight[a]].account = a
       /\ task[flight[a]].pc \in {"fetch", "prune", "close", "release"}
  /\ \A w \in CacheWorkers : task[w].pc \in
       {"idle", "fetch", "prune", "close", "release", "wait", "woken", "card",
        "drop"}
  /\ \A a \in Accounts : checkins[a].pc \in {"idle", "ask", "credits", "answer"}

(* However many dashboards and reconciliations ask for an account at once, *)
(* one goroutine at a time asks upstream for them, and it is the one that  *)
(* holds the account's flight.                                             *)
OneFetch ==
  TypeOK /\ \A a \in Accounts :
    Cardinality({c \in Callers : task[c].account = a /\ task[c].pc = "fetch"}) <= 1

(* A confirmed check-in shows as such for the rest of its day, whatever    *)
(* order older fetches and emptier listings arrive in; only a refusal of   *)
(* the credential that began after it takes it back, and does: no check-in *)
(* known from before the refusal shows any more.                           *)
ReceiptKept ==
  \A a \in Accounts :
    /\ /\ receipt[a] # 0
       /\ receipt[a] > rejected[a]
       /\ Day(receipt[a]) = Day(now)
       => cache[a].checkin = "claimed"
    /\ cache[a].checkin = "claimed" => cache[a].checkinFetched >= rejected[a]

(* After a confirmed check-in the balance held is the one it found, or one *)
(* asked for after it: upstream grants late, and an answer asked for       *)
(* before would hide the grant.                                            *)
BalanceAfterCheckin ==
  \A a \in Accounts :
    claimed[a] # 0 /\ cache[a].credits =>
      cache[a].creditsFetched \in {balance[a]} \cup claimed[a]..now
=============================================================================
