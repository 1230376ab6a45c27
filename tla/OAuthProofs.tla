----------------------------- MODULE OAuthProofs -----------------------------
(***************************************************************************)
(* Theorems about the pending logins, for any number of logins, polls and  *)
(* restarts, any lifetimes, and with failing writes, damaged records and   *)
(* rewritten credentials allowed.                                          *)
(***************************************************************************)
EXTENDS OAuthPending, FiniteSetTheorems, TLAPS

Jobs == [at : Steps, login : Logins \cup {None}, by : Owners]
Sweeps == [at : Instants \cup {-1}, left : SUBSET Logins]

(* The types that the argument needs. *)
Typed ==
  /\ now \in Instants /\ bound \in BOOLEAN /\ initErr \in BOOLEAN
  /\ mem \in [Logins -> Contexts \cup {NoLogin}]
  /\ disk \in [Logins -> Contexts \cup {NoLogin, Bad}]
  /\ stored \in [Logins -> BOOLEAN]
  /\ holder \in [Logins -> Polls \cup {None}]
  /\ poll \in [Polls -> Jobs]
  /\ sweep \in Sweeps /\ sweep.at <= now
  /\ drawn \subseteq Logins /\ crashes \in 0..MaxCrashes
  /\ spent \subseteq Logins /\ got \subseteq spent
  /\ file \in [Logins -> {"none", "login", "newer"}]
  /\ answered \subseteq Logins

(* A poll past the lock holds the mutex of a context in memory, its own     *)
(* entry point's; it asks only for a token the context does not have, and  *)
(* saves only what the context does not call saved.                        *)
Busy(p) == poll[p].at \notin {"idle", "lock"}

Working(p) ==
  LET s == poll[p].login
  IN /\ At(p, "idle") <=> s = None
     /\ s # None => s \in drawn
     /\ Busy(p) => holder[s] = p /\ mem[s] # NoLogin /\ mem[s].owner = poll[p].by
     /\ poll[p].at \in {"check", "ask"} => ~mem[s].token
     /\ poll[p].at \in {"save", "marker"} => poll[p].by = "panel"
     /\ At(p, "save") => ~mem[s].saved

Mutex(s) == holder[s] # None => poll[holder[s]].login = s /\ Busy(holder[s])

(* A login that was never drawn left no trace. *)
Drawn(s) ==
  s \notin drawn =>
    /\ mem[s] = NoLogin /\ disk[s] = NoLogin /\ file[s] = "none"
    /\ s \notin got /\ s \notin answered

(* A context that the store does not back has no record; one that it does  *)
(* is never behind a record that still counts.                             *)
Ahead(s) ==
  mem[s] # NoLogin =>
    /\ mem[s].created <= now
    /\ ~stored[s] => disk[s] = NoLogin
    /\ disk[s] \in Contexts =>
         /\ disk[s].created = mem[s].created
         /\ disk[s].owner = mem[s].owner
         /\ ~Expired(disk[s]) =>
              /\ disk[s].expires <= mem[s].expires
              /\ disk[s].token => mem[s].token
              /\ disk[s].result => mem[s].result
              /\ disk[s].saved => mem[s].saved

(* Whoever may come to work on a login whose token was got finds the token. *)
Told(s) ==
  s \in got =>
    IF mem[s] # NoLogin THEN mem[s].token
    ELSE disk[s] \in Contexts => disk[s].token

(* A credential saved is the panel's, one handed out is the host's; what is *)
(* called saved is; and unless the process restarted, what is saved is      *)
(* called so.                                                               *)
Saver(s) ==
  /\ file[s] # "none" =>
       s \notin answered /\ mem[s].owner # "host" /\ disk[s].owner # "host"
  /\ s \in answered => mem[s].owner # "panel" /\ disk[s].owner # "panel"
  /\ mem[s].saved \/ disk[s].saved => file[s] # "none"
  /\ crashes = 0 /\ file[s] # "none" =>
       IF mem[s] # NoLogin THEN mem[s].saved ELSE disk[s] \notin Contexts

Dated(s) == disk[s] \in Contexts => Valid(disk[s]) /\ disk[s].created <= now

Kept(s) == Drawn(s) /\ Ahead(s) /\ Told(s) /\ Saver(s) /\ Dated(s)

Capped == Cardinality(InMemory) <= Max /\ Cardinality(Records(disk)) <= Max

IInv ==
  /\ Typed /\ Capped
  /\ \A p \in Polls : Working(p)
  /\ \A s \in Logins : Mutex(s) /\ Kept(s)

-----------------------------------------------------------------------------
(* What the sentinels are not. *)
LEMMA Sentinels ==
  /\ NoLogin \notin Contexts /\ Bad \notin Contexts /\ Bad # NoLogin
  /\ NoLogin.owner = "none" /\ Bad.owner = "bad"
  /\ ~NoLogin.token /\ ~NoLogin.result /\ ~NoLogin.saved
  /\ ~Bad.token /\ ~Bad.result /\ ~Bad.saved
  /\ \A c \in Contexts : c.owner \in {"host", "panel"}
BY DEF NoLogin, Bad, Contexts, Owners

(* What is no more than a set within the cap is within the cap. *)
LEMMA Fewer ==
  ASSUME NEW S \in SUBSET Logins, NEW T, T \subseteq S, Cardinality(S) <= Max
  PROVE  Cardinality(T) <= Max
<1>1. IsFiniteSet(S)
  BY OAuthPendingAssumption, FS_Subset
<1>2. IsFiniteSet(T) /\ Cardinality(T) <= Cardinality(S)
  BY <1>1, FS_Subset
<1>3. Cardinality(S) \in Nat /\ Cardinality(T) \in Nat /\ Max \in Nat
  BY <1>1, <1>2, FS_CardinalityType, OAuthPendingAssumption
<1>. QED
  BY <1>2, <1>3

LEMMA OneMore ==
  ASSUME NEW S \in SUBSET Logins, NEW T, NEW s, T \subseteq S \cup {s},
         Cardinality(S) < Max
  PROVE  Cardinality(T) <= Max
<1>1. IsFiniteSet(S)
  BY OAuthPendingAssumption, FS_Subset
<1>2. /\ IsFiniteSet(S \cup {s})
      /\ Cardinality(S \cup {s}) = Cardinality(S) \/ Cardinality(S \cup {s}) = Cardinality(S) + 1
  BY <1>1, FS_AddElement
<1>3. IsFiniteSet(T) /\ Cardinality(T) <= Cardinality(S \cup {s})
  BY <1>2, FS_Subset
<1>4. Cardinality(S) \in Nat /\ Cardinality(T) \in Nat /\ Max \in Nat
  BY <1>1, <1>3, FS_CardinalityType, OAuthPendingAssumption
<1>. QED
  BY <1>2, <1>3, <1>4

(* A scan leaves records or removes them. *)
LEMMA ScanRemoves ==
  ASSUME NEW time, NEW s \in Logins
  PROVE  /\ Scanned(time)[s] \in {disk[s], NoLogin}
         /\ time < disk[s].expires /\ time \in Int /\ disk[s].expires \in Int
              => Scanned(time)[s] = disk[s]
         /\ \A d \in Scans(time) : d[s] \in {disk[s], NoLogin}
         /\ \A d \in Scans(time) :
              time < disk[s].expires /\ time \in Int /\ disk[s].expires \in Int
                => d[s] = disk[s]
BY DEF Scanned, Scans, Records

LEMMA ScanTyped ==
  ASSUME Typed, NEW time
  PROVE  /\ Scanned(time) \in [Logins -> Contexts \cup {NoLogin, Bad}]
         /\ Scans(time) \subseteq [Logins -> Contexts \cup {NoLogin, Bad}]
BY DEF Typed, Scanned, Scans

(* A write keeps the records within the cap. *)
LEMMA WriteCapped ==
  ASSUME Typed, Capped, NEW s \in Logins, NEW r, CanWrite(s, r)
  PROVE  Cardinality(Records(Written(s, r))) <= Max
<1>. DEFINE old == Records(Scanned(now))
            new == Records(Written(s, r))
<1>1. old \subseteq Records(disk) /\ Records(disk) \subseteq Logins
  BY ScanRemoves DEF Records
<1>2. new \subseteq old \cup {s}
  BY ScanTyped DEF Written, Records
<1>3. CASE Cardinality(old) < Max
  BY <1>1, <1>2, <1>3, OneMore
<1>4. CASE disk[s] # NoLogin /\ ~Expired(disk[s])
  <2>1. new \subseteq Records(disk)
    BY <1>1, <1>2, <1>4 DEF Records
  <2>. QED
    BY <1>1, <2>1, Fewer DEF Capped
<1>. QED
  BY <1>3, <1>4 DEF CanWrite, Fits

(* A login whose context, credential and answers are as they were, and     *)
(* whose record is as it was, or damaged, or gone, is as sound as it was.   *)
LEMMA Elsewhere ==
  ASSUME Typed, now' \in Instants, now <= now', NEW s \in Logins, Kept(s),
         mem'[s] = mem[s], stored'[s] = stored[s], file'[s] = file[s],
         \/ disk'[s] \in {disk[s], NoLogin}
         \/ disk'[s] = Bad /\ disk[s] # NoLogin,
         s \in drawn' <=> s \in drawn, s \in got' <=> s \in got,
         s \in answered' <=> s \in answered, crashes' = crashes
  PROVE  Kept(s)'
<1>1. disk[s] \in Contexts => disk[s].expires \in Int /\ now \in Int /\ now' \in Int
  BY OAuthPendingAssumption DEF Typed, Contexts, Expiries, Instants
<1>2. Drawn(s)'
  BY Sentinels DEF Kept, Drawn
<1>3. Ahead(s)'
  <2>1. mem[s] # NoLogin => mem[s].created \in Instants /\ mem[s].created <= now'
    BY OAuthPendingAssumption DEF Typed, Kept, Ahead, Contexts, Instants
  <2>2. CASE disk'[s] = disk[s]
    BY <1>1, <2>1, <2>2 DEF Kept, Ahead, Expired
  <2>3. CASE disk'[s] # disk[s]
    BY <2>1, <2>3, Sentinels DEF Kept, Ahead
  <2>. QED
    BY <2>2, <2>3
<1>4. Told(s)'
  BY Sentinels DEF Kept, Told
<1>5. Saver(s)'
  BY Sentinels DEF Kept, Saver
<1>6. Dated(s)'
  <2>1. disk'[s] \in Contexts => disk[s] \in Contexts /\ disk'[s] = disk[s]
    BY Sentinels
  <2>2. disk[s] \in Contexts => disk[s].created \in Int /\ now \in Int /\ now' \in Int
    BY OAuthPendingAssumption DEF Typed, Contexts, Instants
  <2>3. disk[s] \in Contexts => Valid(disk[s]) /\ disk[s].created <= now'
    BY <2>2 DEF Kept, Dated
  <2>. QED
    BY <2>1, <2>3 DEF Dated, Valid
<1>. QED
  BY <1>2, <1>3, <1>4, <1>5, <1>6 DEF Kept
(* The polls stand while none moves and no context that one holds changes. *)
LEMMA PollsStand ==
  ASSUME Typed, \A p \in Polls : Working(p), \A s \in Logins : Mutex(s),
         poll' = poll, holder' = holder, drawn \subseteq drawn',
         \A s \in Logins : holder[s] # None => mem'[s] = mem[s]
  PROVE  /\ \A p \in Polls : Working(p)'
         /\ \A s \in Logins : Mutex(s)'
<1>1. ASSUME NEW p \in Polls PROVE Working(p)'
  <2>1. poll[p].login \in Logins \cup {None} /\ p # None
    BY OAuthPendingAssumption DEF Typed, Jobs
  <2>2. Busy(p) => poll[p].login \in Logins /\ mem'[poll[p].login] = mem[poll[p].login]
    BY <2>1 DEF Working, Busy, At
  <2>. QED
    BY <2>1, <2>2 DEF Working, Busy, At
<1>. QED
  BY <1>1 DEF Mutex, Busy

(* A poll that moves within the login it works on, with its mutex or       *)
(* towards it, disturbs no other.                                          *)
LEMMA PollMoves ==
  ASSUME Typed, \A q \in Polls : Working(q), \A t \in Logins : Mutex(t),
         NEW p \in Polls, NEW job \in Jobs, NEW s \in Logins,
         poll' = [poll EXCEPT ![p] = job],
         job.at \in {"idle", "lock"} \/ job.login = s,
         Busy(p) => poll[p].login = s,
         holder[s] \in {p, None},
         holder' = [holder EXCEPT ![s] =
                      IF job.at \in {"idle", "lock"} THEN None ELSE p],
         \A t \in Logins \ {s} : mem'[t] = mem[t],
         drawn' = drawn, Working(p)'
  PROVE  /\ \A q \in Polls : Working(q)'
         /\ \A t \in Logins : Mutex(t)'
<1>1. p # None /\ poll'[p] = job /\ s # None
  BY OAuthPendingAssumption DEF Typed
<1>2. ASSUME NEW q \in Polls, q # p PROVE Working(q)'
  <2>1. poll'[q] = poll[q] /\ poll[q].login \in Logins \cup {None}
    BY <1>2 DEF Typed, Jobs
  <2>2. Busy(q) => /\ poll[q].login \in Logins /\ poll[q].login # s
                   /\ holder'[poll[q].login] = q
                   /\ mem'[poll[q].login] = mem[poll[q].login]
    BY <1>2, <2>1, OAuthPendingAssumption DEF Typed, Working, Busy, At
  <2>. QED
    BY <2>1, <2>2 DEF Working, Busy, At
<1>3. ASSUME NEW t \in Logins PROVE Mutex(t)'
  <2>1. CASE t = s
    BY <1>1, <2>1 DEF Typed, Mutex, Busy
  <2>2. CASE t # s
    <3>1. holder'[t] = holder[t]
      BY <2>2 DEF Typed
    <3>2. holder[t] # None => holder[t] \in Polls /\ holder[t] # p
      BY <2>2 DEF Typed, Mutex, Working
    <3>. QED
      BY <3>1, <3>2 DEF Typed, Mutex, Busy
  <2>. QED
    BY <2>1, <2>2
<1>. QED
  BY <1>2, <1>3

(* What a poll past the lock has. *)
LEMMA BusyHas ==
  ASSUME IInv, NEW p \in Polls, Busy(p)
  PROVE  /\ poll[p].login \in Logins /\ poll[p].login \in drawn
         /\ holder[poll[p].login] = p /\ p # None
         /\ mem[poll[p].login] \in Contexts
         /\ mem[poll[p].login].owner = poll[p].by
BY Sentinels, OAuthPendingAssumption DEF IInv, Typed, Jobs, Working, Busy, At

(* A poll that returns gives the mutex up; one that goes on keeps it. *)
LEMMA PollReturns ==
  ASSUME IInv, NEW p \in Polls, Busy(p), Return(p), drawn' = drawn,
         \A t \in Logins \ {poll[p].login} : mem'[t] = mem[t]
  PROVE  /\ \A q \in Polls : Working(q)'
         /\ \A t \in Logins : Mutex(t)'
         /\ poll' \in [Polls -> Jobs]
         /\ holder' \in [Logins -> Polls \cup {None}]
<1>1. Idle \in Jobs
  BY DEF Idle, Jobs, Steps, Owners
<1>2. Working(p)'
  BY OAuthPendingAssumption DEF Return, IInv, Typed, Idle, Working, Busy, At
<1>3. /\ poll' = [poll EXCEPT ![p] = Idle] /\ Idle.at = "idle"
      /\ holder' = [holder EXCEPT ![poll[p].login] = None]
  BY DEF Return, Idle
<1>. QED
  BY <1>1, <1>2, <1>3, BusyHas, PollMoves DEF IInv, Typed

LEMMA PollGoes ==
  ASSUME IInv, NEW p \in Polls, Busy(p), NEW step \in Steps \ {"idle", "lock"},
         Goto(p, step), holder' = holder, drawn' = drawn,
         \A t \in Logins \ {poll[p].login} : mem'[t] = mem[t],
         mem'[poll[p].login] # NoLogin,
         mem'[poll[p].login].owner = poll[p].by,
         step \in {"check", "ask"} => ~mem'[poll[p].login].token,
         step \in {"save", "marker"} => poll[p].by = "panel",
         step = "save" => ~mem'[poll[p].login].saved
  PROVE  /\ \A q \in Polls : Working(q)'
         /\ \A t \in Logins : Mutex(t)'
         /\ poll' \in [Polls -> Jobs]
         /\ holder' \in [Logins -> Polls \cup {None}]
<1>. DEFINE job == [poll[p] EXCEPT !.at = step]
            s == poll[p].login
<1>1. /\ job \in Jobs /\ job.at = step /\ job.login = s /\ job.by = poll[p].by
      /\ poll' = [poll EXCEPT ![p] = job]
      /\ poll'[p].at = step /\ poll'[p].login = s /\ poll'[p].by = poll[p].by
  BY DEF Goto, IInv, Typed, Jobs
<1>2. /\ s \in Logins /\ s \in drawn /\ holder[s] = p /\ p # None /\ s # None
  BY BusyHas, OAuthPendingAssumption
<1>3. Working(p)'
  BY <1>1, <1>2 DEF Working, Busy, At
<1>4. holder' = [holder EXCEPT ![s] = p]
  BY <1>2 DEF IInv, Typed
<1>. QED
  BY <1>1, <1>2, <1>3, <1>4, PollMoves DEF IInv, Typed
-----------------------------------------------------------------------------
(* A step that leaves contexts and credentials alone, and under which      *)
(* records only stay, go, or are damaged.                                  *)
LEMMA RecordsFade ==
  ASSUME IInv, now' \in Instants, now <= now',
         disk' \in [Logins -> Contexts \cup {NoLogin, Bad}],
         \A s \in Logins : \/ disk'[s] \in {disk[s], NoLogin}
                           \/ disk'[s] = Bad /\ disk[s] # NoLogin,
         UNCHANGED <<mem, stored, file, drawn, got, answered, crashes>>
  PROVE  (\A s \in Logins : Kept(s)') /\ Capped'
<1>1. \A s \in Logins : Kept(s)'
  BY Elsewhere DEF IInv
<1>2. Records(disk') \subseteq Records(disk) /\ Records(disk) \subseteq Logins
  BY DEF Records
<1>3. Records(disk)' = Records(disk') /\ InMemory' = InMemory
  BY DEF Records, InMemory
<1>. QED
  BY <1>1, <1>2, <1>3, Fewer DEF IInv, Capped

(* A checkpoint that succeeds puts the context on disk, if the store backs *)
(* it; the host may be handed the credential with it.                      *)
LEMMA Persisting ==
  ASSUME IInv, NEW s \in Logins, s \in drawn, mem[s] \in Contexts,
         stored[s] => CanWrite(s, mem[s]),
         disk' = IF stored[s] THEN Written(s, mem[s]) ELSE disk,
         \/ answered' = answered
         \/ mem[s].owner = "host" /\ answered' = answered \cup {s},
         UNCHANGED <<now, mem, stored, file, drawn, got, crashes>>
  PROVE  /\ \A t \in Logins : Kept(t)'
         /\ Capped'
         /\ disk' \in [Logins -> Contexts \cup {NoLogin, Bad}]
<1>1. disk' \in [Logins -> Contexts \cup {NoLogin, Bad}]
  BY ScanTyped DEF IInv, Typed, Written
<1>2. ASSUME NEW t \in Logins, t # s PROVE Kept(t)'
  <2>1. disk'[t] \in {disk[t], NoLogin}
    BY <1>2, ScanRemoves, ScanTyped DEF IInv, Written
  <2>. QED
    BY <1>2, <2>1, Elsewhere DEF IInv, Typed, Instants
<1>3. disk'[s] = IF stored[s] THEN mem[s] ELSE NoLogin
  BY ScanTyped, Sentinels DEF IInv, Written, Kept, Ahead
<1>4. mem[s].created \in Int /\ mem[s].expires \in Int
  BY OAuthPendingAssumption DEF Contexts, Instants, Expiries
<1>5. Kept(s)'
  <2>1. Drawn(s)' /\ Told(s)'
    BY <1>3, Sentinels DEF IInv, Kept, Drawn, Told
  <2>2. Ahead(s)'
    BY <1>3, <1>4, Sentinels DEF IInv, Kept, Ahead
  <2>3. Saver(s)'
    BY <1>3, Sentinels DEF IInv, Kept, Saver
  <2>4. disk'[s] \in Contexts => Valid(disk'[s]) /\ disk'[s].created <= now'
    BY <1>3, Sentinels DEF CanWrite, IInv, Kept, Ahead
  <2>5. Dated(s)'
    BY <2>4 DEF Dated, Valid
  <2>. QED
    BY <2>1, <2>2, <2>3, <2>5 DEF Kept
<1>6. Records(disk)' = Records(disk') /\ InMemory' = InMemory
  BY DEF Records, InMemory
<1>7. Cardinality(Records(disk')) <= Max
  BY WriteCapped DEF IInv, Capped
<1>. QED
  BY <1>1, <1>2, <1>5, <1>6, <1>7 DEF IInv, Capped

(* A checkpoint that fails leaves memory as it is.                         *)
LEMMA NotPersisting ==
  ASSUME IInv, NEW p \in Polls, NotPersisted(p),
         UNCHANGED <<now, stored, file, drawn, got, answered, crashes>>
  PROVE  /\ \A t \in Logins : Kept(t)'
         /\ Capped' /\ mem' = mem
         /\ disk' \in [Logins -> Contexts \cup {NoLogin, Bad}]
<1>1. mem' = mem /\ (disk' = disk \/ disk' = Scanned(now))
  BY DEF NotPersisted, KeepsMemory
<1>2. disk' \in [Logins -> Contexts \cup {NoLogin, Bad}]
  BY <1>1, ScanTyped DEF IInv, Typed
<1>3. now' \in Instants /\ now <= now'
  BY OAuthPendingAssumption DEF IInv, Typed, Instants
<1>. QED
  BY <1>1, <1>2, <1>3, ScanRemoves, RecordsFade

-----------------------------------------------------------------------------
(* Steps of a poll. *)
LEMMA LockStep ==
  ASSUME IInv, NEW p \in Polls, Lock(p)
  PROVE  IInv'
<1>. DEFINE s == poll[p].login
<1>1. /\ s \in Logins /\ s # None /\ p # None /\ holder[s] = None /\ ~Busy(p)
      /\ poll[p] \in Jobs /\ s \in drawn
  BY OAuthPendingAssumption DEF IInv, Typed, Jobs, Working, Lock, At, Busy
<1>2. CASE mem[s] # NoLogin /\ mem[s].owner = poll[p].by /\ ~Expired(mem[s])
  <2>. DEFINE job == [poll[p] EXCEPT !.at =
                        IF mem[s].token THEN "checkpoint" ELSE "check"]
  <2>1. /\ job \in Jobs /\ job.login = s /\ job.at \notin {"idle", "lock"}
        /\ poll' = [poll EXCEPT ![p] = job]
        /\ poll'[p].at = (IF mem[s].token THEN "checkpoint" ELSE "check")
        /\ poll'[p].login = s /\ poll'[p].by = poll[p].by
        /\ holder' = [holder EXCEPT ![s] = p] /\ holder'[s] = p
    BY <1>1, <1>2 DEF Lock, Owned, Goto, IInv, Typed, Jobs, Steps
  <2>2. Working(p)'
    BY <1>1, <1>2, <2>1 DEF Lock, Working, Busy, At
  <2>3. /\ \A q \in Polls : Working(q)'
        /\ \A t \in Logins : Mutex(t)'
    BY <1>1, <2>1, <2>2, PollMoves DEF IInv, Lock
  <2>. QED
    BY <1>1, <2>1, <2>3, RecordsFade DEF IInv, Typed, Lock, Instants
<1>3. CASE ~(mem[s] # NoLogin /\ mem[s].owner = poll[p].by /\ ~Expired(mem[s]))
  <2>1. /\ poll' = [poll EXCEPT ![p] = Idle] /\ holder' = holder
        /\ poll'[p] = Idle /\ Idle \in Jobs /\ Idle.at = "idle" /\ Idle.login = None
        /\ holder' = [holder EXCEPT ![s] = None]
    BY <1>1, <1>3 DEF Lock, Owned, IInv, Typed, Idle, Jobs, Steps, Owners
  <2>2. Working(p)'
    BY <2>1 DEF Working, Busy, At
  <2>3. /\ \A q \in Polls : Working(q)'
        /\ \A t \in Logins : Mutex(t)'
    BY <1>1, <2>1, <2>2, PollMoves DEF IInv, Lock
  <2>. QED
    BY <1>1, <2>1, <2>3, RecordsFade DEF IInv, Typed, Lock, Instants
<1>. QED
  BY <1>2, <1>3
LEMMA CheckRecordStep ==
  ASSUME IInv, NEW p \in Polls, CheckRecord(p)
  PROVE  IInv'
<1>. DEFINE s == poll[p].login
<1>1. /\ Busy(p) /\ s \in Logins /\ mem[s] \in Contexts /\ ~mem[s].token
      /\ mem[s].owner = poll[p].by
  BY BusyHas DEF CheckRecord, Busy, At, IInv, Working
<1>2. /\ \A q \in Polls : Working(q)'
      /\ \A t \in Logins : Mutex(t)'
      /\ poll' \in [Polls -> Jobs]
      /\ holder' \in [Logins -> Polls \cup {None}]
  <2>1. CASE Return(p)
    BY <1>1, <2>1, PollReturns DEF CheckRecord
  <2>2. CASE Goto(p, "ask") /\ holder' = holder
    BY <1>1, <2>2, PollGoes, Sentinels DEF CheckRecord, Steps
  <2>. QED
    BY <2>1, <2>2 DEF CheckRecord
<1>3. (\A t \in Logins : Kept(t)') /\ Capped'
  BY RecordsFade DEF CheckRecord, IInv, Typed, Instants
<1>. QED
  BY <1>2, <1>3 DEF CheckRecord, IInv, Typed

LEMMA NoTokenStep ==
  ASSUME IInv, NEW p \in Polls, NoToken(p)
  PROVE  IInv'
<1>1. Busy(p) /\ poll[p].login \in Logins
  BY BusyHas DEF NoToken, Busy, At
<1>2. /\ \A q \in Polls : Working(q)'
      /\ \A t \in Logins : Mutex(t)'
      /\ poll' \in [Polls -> Jobs]
      /\ holder' \in [Logins -> Polls \cup {None}]
  BY <1>1, PollReturns DEF NoToken
<1>3. (\A t \in Logins : Kept(t)') /\ Capped'
  BY RecordsFade DEF NoToken, IInv, Typed, Instants
<1>. QED
  BY <1>1, <1>2, <1>3 DEF NoToken, IInv, Typed

(* The context with its token is ahead of any record that still counts:    *)
(* here it matters that a result lives as long as a login.                  *)
LEMMA TakeTokenStep ==
  ASSUME IInv, NEW p \in Polls, TakeToken(p)
  PROVE  IInv'
<1>1. PICK s \in Logins :
        /\ s = poll[p].login /\ Busy(p) /\ mem[s] \in Contexts /\ ~mem[s].token
        /\ mem[s].owner = poll[p].by /\ s \in drawn
  BY BusyHas DEF TakeToken, Busy, At, IInv, Working
<1>. DEFINE c == Granted(mem[s])
<1>2. /\ mem[s].created \in Nat /\ mem[s].created <= MaxTime /\ now \in Nat /\ now <= MaxTime
      /\ mem[s].created <= now
      /\ LoginTTL \in Nat /\ ResultTTL \in Nat /\ LoginTTL <= ResultTTL
      /\ MaxTime \in Nat
  BY <1>1, Sentinels, OAuthPendingAssumption DEF IInv, Typed, Contexts, Instants, Kept, Ahead
<1>3. /\ c \in Contexts /\ c.token /\ c.owner = mem[s].owner
      /\ c.created = mem[s].created /\ c.result = mem[s].result
      /\ c.saved = mem[s].saved
      /\ c.expires >= mem[s].created + LoginTTL
  <2>. DEFINE cap == mem[s].created + LoginTTL + ResultTTL
              until == IF now + ResultTTL > cap THEN cap ELSE now + ResultTTL
  <2>1. c = [mem[s] EXCEPT !.token = TRUE, !.tokenAt = now, !.expires = until]
    BY DEF Granted
  <2>2. /\ until \in Expiries
        /\ until >= mem[s].created + LoginTTL
    BY <1>2 DEF Expiries
  <2>3. now \in Instants
    BY DEF IInv, Typed
  <2>. HIDE DEF until, c
  <2>. QED
    BY <1>1, <2>1, <2>2, <2>3 DEF Contexts
<1>4. mem' = [mem EXCEPT ![s] = c] /\ mem'[s] = c
  BY <1>1 DEF TakeToken, IInv, Typed
<1>. HIDE DEF c
<1>5. /\ \A q \in Polls : Working(q)'
      /\ \A t \in Logins : Mutex(t)'
      /\ poll' \in [Polls -> Jobs]
      /\ holder' \in [Logins -> Polls \cup {None}]
  BY <1>1, <1>3, <1>4, PollGoes, Sentinels DEF TakeToken, Steps, IInv, Typed
<1>6. ASSUME NEW t \in Logins, t # s PROVE Kept(t)'
  <2>1. mem'[t] = mem[t] /\ (t \in got' <=> t \in got)
    BY <1>1, <1>4, <1>6 DEF TakeToken, IInv, Typed
  <2>. QED
    BY <1>2, <2>1, Elsewhere DEF TakeToken, IInv, Typed
<1>7. Kept(s)'
  <2>1. Drawn(s)' /\ Told(s)'
    BY <1>1, <1>3, <1>4, Sentinels DEF TakeToken, Drawn, Told
  <2>2. Saver(s)'
    BY <1>1, <1>3, <1>4, Sentinels DEF TakeToken, IInv, Kept, Saver
  <2>3. Dated(s)'
    BY DEF TakeToken, IInv, Kept, Dated, Valid
  <2>4. ASSUME disk[s] \in Contexts, ~Expired(disk[s])
        PROVE  disk[s].expires <= c.expires /\ ~disk[s].token /\ ~disk[s].result /\ ~disk[s].saved
    <3>1. Valid(disk[s]) /\ disk[s].created = mem[s].created /\ ~disk[s].token
      BY <1>1, <2>4, Sentinels DEF IInv, Kept, Ahead, Dated
    <3>2. disk[s].expires \in Int /\ disk[s].expires <= mem[s].created + LoginTTL
      BY <1>2, <2>4, <3>1, OAuthPendingAssumption DEF Valid, Contexts, Expiries
    <3>3. c.expires \in Int
      BY <1>3, OAuthPendingAssumption DEF Contexts, Expiries
    <3>4. disk[s].expires <= c.expires
      BY <1>2, <1>3, <3>2, <3>3
    <3>5. ~disk[s].result /\ ~disk[s].saved
      BY <3>1 DEF Valid
    <3>. QED
      BY <3>1, <3>4, <3>5
  <2>5. Ahead(s)'
    BY <1>1, <1>2, <1>3, <1>4, <2>4, Sentinels DEF TakeToken, IInv, Kept, Ahead, Expired
  <2>. QED
    BY <2>1, <2>2, <2>3, <2>5 DEF IInv, Kept
<1>8. Capped'
  <2>1. InMemory' = InMemory /\ Records(disk)' = Records(disk)
    BY <1>1, <1>3, <1>4, Sentinels DEF TakeToken, InMemory, Records, IInv, Typed
  <2>. QED
    BY <2>1 DEF IInv, Capped
<1>. QED
  BY <1>1, <1>3, <1>4, <1>5, <1>6, <1>7, <1>8 DEF TakeToken, IInv, Typed

LEMMA CheckpointStep ==
  ASSUME IInv, NEW p \in Polls, Checkpoint(p)
  PROVE  IInv'
<1>. DEFINE s == poll[p].login
<1>1. /\ Busy(p) /\ s \in Logins /\ mem[s] \in Contexts /\ s \in drawn
      /\ mem[s].owner = poll[p].by
  BY BusyHas DEF Checkpoint, Busy, At
<1>2. CASE NotPersisted(p) /\ Return(p)
  <2>1. /\ \A t \in Logins : Kept(t)'
        /\ Capped' /\ mem' = mem
        /\ disk' \in [Logins -> Contexts \cup {NoLogin, Bad}]
    BY <1>2, NotPersisting DEF Checkpoint
  <2>2. /\ \A q \in Polls : Working(q)'
        /\ \A t \in Logins : Mutex(t)'
        /\ poll' \in [Polls -> Jobs]
        /\ holder' \in [Logins -> Polls \cup {None}]
    BY <1>1, <1>2, <2>1, PollReturns DEF Checkpoint
  <2>. QED
    BY <2>1, <2>2 DEF Checkpoint, IInv, Typed
<1>3. CASE /\ Persisted(p) /\ holder' = holder
           /\ Goto(p, IF mem[s].result THEN "result" ELSE "identity")
  <2>1. mem' = mem
    BY <1>3 DEF Persisted
  <2>2. /\ \A t \in Logins : Kept(t)'
        /\ Capped'
        /\ disk' \in [Logins -> Contexts \cup {NoLogin, Bad}]
    BY <1>1, <1>3, Persisting DEF Checkpoint, Persisted
  <2>3. (IF mem[s].result THEN "result" ELSE "identity")
          \in Steps \ {"idle", "lock", "check", "ask", "save", "marker"}
    BY DEF Steps
  <2>4. /\ \A q \in Polls : Working(q)'
        /\ \A t \in Logins : Mutex(t)'
        /\ poll' \in [Polls -> Jobs]
        /\ holder' \in [Logins -> Polls \cup {None}]
    BY <1>1, <1>3, <2>1, <2>3, PollGoes, Sentinels DEF Checkpoint
  <2>. QED
    BY <2>1, <2>2, <2>4 DEF Checkpoint, IInv, Typed
<1>. QED
  BY <1>2, <1>3 DEF Checkpoint
(* A context that gains a result, or the mark of the save that has just     *)
(* been made, is still ahead of its record.                                *)
LEMMA ContextGains ==
  ASSUME IInv, NEW s \in Logins, s \in drawn, mem[s] \in Contexts, NEW c \in Contexts,
         mem' = [mem EXCEPT ![s] = c],
         c.owner = mem[s].owner, c.created = mem[s].created,
         c.expires = mem[s].expires, c.token = mem[s].token,
         mem[s].result => c.result, mem[s].saved => c.saved,
         \/ c.saved = mem[s].saved /\ file' = file
         \/ c.saved /\ c.owner = "panel" /\ file' = [file EXCEPT ![s] = "login"],
         UNCHANGED <<now, stored, disk, drawn, got, answered, crashes>>
  PROVE  /\ \A t \in Logins : Kept(t)'
         /\ Capped'
<1>1. mem'[s] = c /\ c # NoLogin /\ mem[s] # NoLogin
  BY Sentinels DEF IInv, Typed
<1>2. ASSUME NEW t \in Logins, t # s PROVE Kept(t)'
  <2>1. mem'[t] = mem[t] /\ file'[t] = file[t]
    BY <1>2 DEF IInv, Typed
  <2>2. now' \in Instants /\ now <= now'
    BY OAuthPendingAssumption DEF IInv, Typed, Instants
  <2>. QED
    BY <2>1, <2>2, Elsewhere DEF IInv, Typed
<1>3. Kept(s)'
  <2>1. Drawn(s)' /\ Told(s)'
    BY <1>1 DEF Drawn, Told, IInv, Kept
  <2>2. Ahead(s)'
    BY <1>1, Sentinels DEF IInv, Kept, Ahead, Expired
  <2>3. Saver(s)'
    <3>1. CASE c.saved = mem[s].saved /\ file' = file
      BY <1>1, <3>1 DEF IInv, Kept, Saver
    <3>2. CASE c.saved /\ c.owner = "panel" /\ file' = [file EXCEPT ![s] = "login"]
      <4>1. file'[s] = "login" /\ mem[s].owner = "panel"
        BY <3>2 DEF IInv, Typed
      <4>2. disk[s].owner # "host"
        BY <1>1, <4>1, Sentinels DEF IInv, Typed, Kept, Ahead
      <4>3. s \notin answered
        BY <4>1 DEF IInv, Kept, Saver
      <4>. QED
        BY <1>1, <3>2, <4>1, <4>2, <4>3 DEF Saver
    <3>. QED
      BY <3>1, <3>2
  <2>4. Dated(s)'
    BY DEF IInv, Kept, Dated, Valid
  <2>. QED
    BY <2>1, <2>2, <2>3, <2>4 DEF Kept
<1>4. InMemory' = InMemory /\ Records(disk)' = Records(disk)
  BY <1>1 DEF InMemory, Records, IInv, Typed
<1>. QED
  BY <1>2, <1>3, <1>4 DEF IInv, Capped

LEMMA IdentifyStep ==
  ASSUME IInv, NEW p \in Polls, Identify(p)
  PROVE  IInv'
<1>1. PICK s \in Logins :
        /\ s = poll[p].login /\ Busy(p) /\ mem[s] \in Contexts /\ s \in drawn
        /\ mem[s].owner = poll[p].by
  BY BusyHas DEF Identify, Busy, At
<1>2. CASE Return(p) /\ mem' = mem
  <2>1. /\ \A q \in Polls : Working(q)'
        /\ \A t \in Logins : Mutex(t)'
        /\ poll' \in [Polls -> Jobs]
        /\ holder' \in [Logins -> Polls \cup {None}]
    BY <1>1, <1>2, PollReturns DEF Identify
  <2>2. (\A t \in Logins : Kept(t)') /\ Capped'
    BY <1>2, RecordsFade DEF Identify, IInv, Typed, Instants
  <2>. QED
    BY <1>2, <2>1, <2>2 DEF Identify, IInv, Typed
<1>3. CASE /\ mem' = [mem EXCEPT ![s].result = TRUE]
           /\ Goto(p, "result") /\ holder' = holder
  <2>. DEFINE c == [mem[s] EXCEPT !.result = TRUE]
  <2>1. /\ c \in Contexts /\ c.owner = mem[s].owner /\ c.created = mem[s].created
        /\ c.expires = mem[s].expires /\ c.token = mem[s].token /\ c.result
        /\ c.saved = mem[s].saved
    BY <1>1 DEF Contexts
  <2>2. mem' = [mem EXCEPT ![s] = c] /\ mem'[s] = c
    BY <1>1, <1>3 DEF IInv, Typed
  <2>. HIDE DEF c
  <2>3. (\A t \in Logins : Kept(t)') /\ Capped'
    BY <1>1, <2>1, <2>2, ContextGains DEF Identify
  <2>4. /\ \A q \in Polls : Working(q)'
        /\ \A t \in Logins : Mutex(t)'
        /\ poll' \in [Polls -> Jobs]
        /\ holder' \in [Logins -> Polls \cup {None}]
    BY <1>1, <1>3, <2>1, <2>2, PollGoes, Sentinels DEF Identify, Steps, IInv, Typed
  <2>. QED
    BY <2>1, <2>2, <2>3, <2>4 DEF Identify, IInv, Typed
<1>. QED
  BY <1>1, <1>2, <1>3 DEF Identify

LEMMA PersistResultStep ==
  ASSUME IInv, NEW p \in Polls, PersistResult(p)
  PROVE  IInv'
<1>1. PICK s \in Logins :
        /\ s = poll[p].login /\ Busy(p) /\ mem[s] \in Contexts /\ s \in drawn
        /\ mem[s].owner = poll[p].by
  BY BusyHas DEF PersistResult, Busy, At
<1>2. CASE NotPersisted(p) /\ Return(p) /\ answered' = answered
  <2>1. /\ \A t \in Logins : Kept(t)'
        /\ Capped' /\ mem' = mem
        /\ disk' \in [Logins -> Contexts \cup {NoLogin, Bad}]
    BY <1>2, NotPersisting DEF PersistResult
  <2>2. /\ \A q \in Polls : Working(q)'
        /\ \A t \in Logins : Mutex(t)'
        /\ poll' \in [Polls -> Jobs]
        /\ holder' \in [Logins -> Polls \cup {None}]
    BY <1>1, <1>2, <2>1, PollReturns DEF PersistResult
  <2>. QED
    BY <1>2, <2>1, <2>2 DEF PersistResult, IInv, Typed
<1>3. CASE Persisted(p) /\ poll[p].by = "host" /\ Return(p) /\ answered' = answered \cup {s}
  <2>1. mem' = mem
    BY <1>3 DEF Persisted
  <2>2. /\ \A t \in Logins : Kept(t)'
        /\ Capped'
        /\ disk' \in [Logins -> Contexts \cup {NoLogin, Bad}]
    BY <1>1, <1>3, Persisting DEF PersistResult, Persisted
  <2>3. /\ \A q \in Polls : Working(q)'
        /\ \A t \in Logins : Mutex(t)'
        /\ poll' \in [Polls -> Jobs]
        /\ holder' \in [Logins -> Polls \cup {None}]
    BY <1>1, <1>3, <2>1, PollReturns DEF PersistResult
  <2>. QED
    BY <1>1, <1>3, <2>1, <2>2, <2>3 DEF PersistResult, IInv, Typed
<1>4. CASE /\ Persisted(p) /\ poll[p].by # "host" /\ holder' = holder /\ answered' = answered
           /\ Goto(p, IF mem[s].saved THEN "marker" ELSE "save")
  <2>1. mem' = mem /\ poll[p].by = "panel"
    BY <1>4 DEF Persisted, IInv, Typed, Jobs, Owners
  <2>2. /\ \A t \in Logins : Kept(t)'
        /\ Capped'
        /\ disk' \in [Logins -> Contexts \cup {NoLogin, Bad}]
    BY <1>1, <1>4, Persisting DEF PersistResult, Persisted
  <2>3. (IF mem[s].saved THEN "marker" ELSE "save") \in Steps \ {"idle", "lock", "check", "ask"}
    BY DEF Steps
  <2>4. /\ \A q \in Polls : Working(q)'
        /\ \A t \in Logins : Mutex(t)'
        /\ poll' \in [Polls -> Jobs]
        /\ holder' \in [Logins -> Polls \cup {None}]
    BY <1>1, <1>4, <2>1, <2>3, PollGoes, Sentinels DEF PersistResult
  <2>. QED
    BY <1>4, <2>1, <2>2, <2>4 DEF PersistResult, IInv, Typed
<1>. QED
  BY <1>1, <1>2, <1>3, <1>4 DEF PersistResult

LEMMA SaveStep ==
  ASSUME IInv, NEW p \in Polls, Save(p)
  PROVE  IInv'
<1>1. PICK s \in Logins :
        /\ s = poll[p].login /\ Busy(p) /\ mem[s] \in Contexts /\ s \in drawn
        /\ mem[s].owner = "panel" /\ poll[p].by = "panel"
  BY BusyHas DEF Save, Busy, At, IInv, Working
<1>2. CASE Return(p) /\ mem' = mem /\ file' = file
  <2>1. /\ \A q \in Polls : Working(q)'
        /\ \A t \in Logins : Mutex(t)'
        /\ poll' \in [Polls -> Jobs]
        /\ holder' \in [Logins -> Polls \cup {None}]
    BY <1>1, <1>2, PollReturns DEF Save
  <2>2. (\A t \in Logins : Kept(t)') /\ Capped'
    BY <1>2, RecordsFade DEF Save, IInv, Typed, Instants
  <2>. QED
    BY <1>2, <2>1, <2>2 DEF Save, IInv, Typed
<1>3. CASE /\ file' = [file EXCEPT ![s] = "login"]
           /\ mem' = [mem EXCEPT ![s].saved = TRUE]
           /\ Goto(p, "marker") /\ holder' = holder
  <2>. DEFINE c == [mem[s] EXCEPT !.saved = TRUE]
  <2>1. /\ c \in Contexts /\ c.owner = mem[s].owner /\ c.created = mem[s].created
        /\ c.expires = mem[s].expires /\ c.token = mem[s].token
        /\ c.result = mem[s].result /\ c.saved
    BY <1>1 DEF Contexts
  <2>2. mem' = [mem EXCEPT ![s] = c] /\ mem'[s] = c
    BY <1>1, <1>3 DEF IInv, Typed
  <2>. HIDE DEF c
  <2>3. (\A t \in Logins : Kept(t)') /\ Capped'
    <3>1. UNCHANGED <<now, stored, disk, drawn, got, answered, crashes>>
      BY DEF Save
    <3>2. c.saved /\ c.owner = "panel" /\ file' = [file EXCEPT ![s] = "login"]
      BY <1>1, <1>3, <2>1
    <3>. QED
      BY <1>1, <2>1, <2>2, <3>1, <3>2, ContextGains
  <2>4. /\ \A q \in Polls : Working(q)'
        /\ \A t \in Logins : Mutex(t)'
        /\ poll' \in [Polls -> Jobs]
        /\ holder' \in [Logins -> Polls \cup {None}]
    BY <1>1, <1>3, <2>1, <2>2, PollGoes, Sentinels DEF Save, Steps, IInv, Typed
  <2>. QED
    BY <1>3, <2>1, <2>2, <2>3, <2>4 DEF Save, IInv, Typed
<1>. QED
  BY <1>1, <1>2, <1>3 DEF Save

LEMMA MarkStep ==
  ASSUME IInv, NEW p \in Polls, Mark(p)
  PROVE  IInv'
<1>1. PICK s \in Logins :
        /\ s = poll[p].login /\ Busy(p) /\ mem[s] \in Contexts /\ s \in drawn
  BY BusyHas DEF Mark, Busy, At
<1>2. /\ \A t \in Logins : Kept(t)'
      /\ Capped' /\ mem' = mem
      /\ disk' \in [Logins -> Contexts \cup {NoLogin, Bad}]
  <2>1. CASE Persisted(p)
    BY <1>1, <2>1, Persisting DEF Mark, Persisted
  <2>2. CASE NotPersisted(p)
    BY <2>2, NotPersisting DEF Mark
  <2>. QED
    BY <2>1, <2>2 DEF Mark
<1>3. /\ \A q \in Polls : Working(q)'
      /\ \A t \in Logins : Mutex(t)'
      /\ poll' \in [Polls -> Jobs]
      /\ holder' \in [Logins -> Polls \cup {None}]
  BY <1>1, <1>2, PollReturns DEF Mark
<1>. QED
  BY <1>2, <1>3 DEF Mark, IInv, Typed
LEMMA AdvanceStep ==
  ASSUME IInv, NEW p \in Polls, Advance(p)
  PROVE  IInv'
BY LockStep, CheckRecordStep, TakeTokenStep, NoTokenStep, CheckpointStep,
   IdentifyStep, PersistResultStep, SaveStep, MarkStep DEF Advance

-----------------------------------------------------------------------------
(* Entry points. *)
LEMMA FreshIs ==
  ASSUME Typed, NEW owner \in Owners, now + LoginTTL + ResultTTL <= MaxTime
  PROVE  /\ Fresh(owner) \in Contexts /\ Fresh(owner) # NoLogin
         /\ Fresh(owner).owner = owner /\ Fresh(owner).created = now
         /\ ~Fresh(owner).token /\ ~Fresh(owner).result /\ ~Fresh(owner).saved
         /\ Fresh(owner).expires = now + LoginTTL
<1>1. now \in Nat /\ now <= MaxTime /\ now \in Instants /\ 0 \in Instants
  BY OAuthPendingAssumption DEF Typed, Instants
<1>2. now + LoginTTL \in Expiries
  BY <1>1, OAuthPendingAssumption DEF Expiries
<1>. QED
  BY <1>1, <1>2 DEF Fresh, NoLogin, Contexts, Owners

LEMMA ConfigureStep ==
  ASSUME IInv, Configure \/ ConfigureBadly
  PROVE  IInv'
<1>1. disk' = disk \/ disk' = Scanned(now) \/ disk' \in Scans(now)
  BY DEF Configure, ConfigureBadly
<1>2. disk' \in [Logins -> Contexts \cup {NoLogin, Bad}]
  BY <1>1, ScanTyped DEF IInv, Typed
<1>3. now' \in Instants /\ now <= now'
  BY OAuthPendingAssumption DEF IInv, Typed, Instants, Configure, ConfigureBadly
<1>4. (\A s \in Logins : Kept(s)') /\ Capped'
  BY <1>1, <1>2, <1>3, ScanRemoves, RecordsFade DEF Configure, ConfigureBadly
<1>5. /\ \A q \in Polls : Working(q)'
      /\ \A t \in Logins : Mutex(t)'
  BY PollsStand DEF Configure, ConfigureBadly, IInv
<1>. QED
  BY <1>2, <1>4, <1>5 DEF Configure, ConfigureBadly, IInv, Typed

LEMMA RegisterStep ==
  ASSUME IInv, NEW s \in Logins, NEW owner \in Owners, Register(s, owner)
  PROVE  IInv'
<1>. DEFINE c == Fresh(owner)
<1>1. /\ c \in Contexts /\ c # NoLogin /\ c.owner = owner /\ c.created = now
      /\ ~c.token /\ ~c.result /\ ~c.saved /\ c.expires = now + LoginTTL
  BY FreshIs DEF Register, IInv
<1>2. /\ mem[s] = NoLogin /\ disk[s] = NoLogin /\ file[s] = "none"
      /\ s \notin got /\ s \notin answered
  BY DEF IInv, Kept, Drawn, Register
<1>3. /\ bound => CanWrite(s, c)
      /\ disk' = IF bound THEN Written(s, c) ELSE disk
      /\ mem' = [mem EXCEPT ![s] = c] /\ mem'[s] = c
      /\ stored' = [stored EXCEPT ![s] = bound] /\ stored'[s] = bound
      /\ now' = now /\ now \in Instants /\ now \in Int
      /\ file' = file /\ got' = got /\ answered' = answered /\ crashes' = crashes
      /\ drawn' = drawn \cup {s} /\ poll' = poll /\ holder' = holder
  BY OAuthPendingAssumption DEF Register, IInv, Typed, Instants
<1>. HIDE DEF c
<1>4. disk' \in [Logins -> Contexts \cup {NoLogin, Bad}]
  BY <1>1, <1>3, ScanTyped DEF IInv, Typed, Written
<1>5. ASSUME NEW t \in Logins, t # s PROVE Kept(t)'
  <2>1. disk'[t] \in {disk[t], NoLogin}
    BY <1>3, <1>5, ScanRemoves, ScanTyped DEF Written
  <2>2. mem'[t] = mem[t] /\ stored'[t] = stored[t] /\ (t \in drawn' <=> t \in drawn)
    BY <1>3, <1>5 DEF IInv, Typed
  <2>. QED
    BY <1>3, <2>1, <2>2, Elsewhere DEF IInv
<1>6. disk'[s] = IF bound THEN c ELSE NoLogin
  BY <1>2, <1>3, ScanTyped DEF IInv, Written
<1>7. Kept(s)'
  <2>1. Drawn(s)' /\ Told(s)'
    BY <1>2, <1>3 DEF Drawn, Told
  <2>2. Ahead(s)'
    <3>1. c.expires \in Int
      BY <1>1, OAuthPendingAssumption DEF Contexts, Expiries
    <3>. QED
      BY <1>1, <1>3, <1>6, <3>1, Sentinels DEF Ahead, Expired
  <2>3. Saver(s)'
    BY <1>1, <1>2, <1>3, <1>6, Sentinels DEF Saver
  <2>4. disk'[s] \in Contexts => Valid(disk'[s]) /\ disk'[s].created <= now'
    BY <1>1, <1>3, <1>6, Sentinels DEF CanWrite
  <2>5. Dated(s)'
    BY <2>4 DEF Dated, Valid
  <2>. QED
    BY <2>1, <2>2, <2>3, <2>4, <2>5 DEF Kept
<1>8. Capped'
  <2>1. InMemory' \subseteq InMemory \cup {s} /\ InMemory \subseteq Logins
    BY <1>3 DEF InMemory, IInv, Typed
  <2>2. Records(disk)' = Records(disk')
    BY DEF Records
  <2>3. Cardinality(Records(disk')) <= Max
    BY <1>3, WriteCapped DEF IInv, Capped
  <2>4. Cardinality(InMemory) < Max
    BY DEF Register, Admits
  <2>5. Cardinality(InMemory') <= Max
    BY <2>1, <2>4, OneMore
  <2>. QED
    BY <2>2, <2>3, <2>5 DEF Capped, InMemory
<1>9. /\ \A q \in Polls : Working(q)'
      /\ \A t \in Logins : Mutex(t)'
  <2>1. holder[s] = None
    BY <1>2, BusyHas, Sentinels DEF IInv, Typed, Mutex
  <2>. QED
    BY <1>3, <2>1, PollsStand DEF IInv, Typed
<1>. QED
  BY <1>1, <1>3, <1>4, <1>5, <1>7, <1>8, <1>9 DEF Register, IInv, Typed

(* A start that fails may leave its record, which nobody has a context of. *)
LEMMA RegisterFailsStep ==
  ASSUME IInv, NEW s \in Logins, NEW owner \in Owners, RegisterFails(s, owner)
  PROVE  IInv'
<1>. DEFINE c == Fresh(owner)
<1>1. /\ c \in Contexts /\ c # NoLogin /\ c.owner = owner
      /\ ~c.token /\ ~c.result /\ ~c.saved
      /\ c.created = now
  BY FreshIs DEF RegisterFails, IInv
<1>2. /\ mem[s] = NoLogin /\ disk[s] = NoLogin /\ file[s] = "none"
      /\ s \notin got /\ s \notin answered
  BY DEF IInv, Kept, Drawn, RegisterFails
<1>3. /\ \/ disk' = disk
         \/ disk' \in Scans(now)
         \/ CanWrite(s, c) /\ disk' = Written(s, c)
      /\ mem' = mem /\ stored' = stored
      /\ now' = now /\ now \in Instants /\ now \in Int
      /\ file' = file /\ got' = got /\ answered' = answered /\ crashes' = crashes
      /\ drawn' = drawn \cup {s} /\ poll' = poll /\ holder' = holder
  BY OAuthPendingAssumption DEF RegisterFails, DiskAfterFailure, IInv, Typed, Instants
<1>. HIDE DEF c
<1>4. disk' \in [Logins -> Contexts \cup {NoLogin, Bad}]
  BY <1>1, <1>3, ScanTyped DEF IInv, Typed, Written
<1>5. ASSUME NEW t \in Logins, t # s PROVE Kept(t)'
  <2>1. disk'[t] \in {disk[t], NoLogin}
    <3>1. CASE disk' = Written(s, c)
      BY <1>5, <3>1, ScanRemoves, ScanTyped DEF Written
    <3>. QED
      BY <1>3, <3>1, ScanRemoves
  <2>2. t \in drawn' <=> t \in drawn
    BY <1>3, <1>5
  <2>. QED
    BY <1>3, <2>1, <2>2, Elsewhere DEF IInv
<1>6. disk'[s] = NoLogin \/ (disk'[s] = c /\ CanWrite(s, c))
  <2>1. CASE CanWrite(s, c) /\ disk' = Written(s, c)
    BY <2>1, ScanTyped DEF IInv, Written
  <2>. QED
    BY <1>2, <1>3, <2>1, ScanRemoves
<1>7. Kept(s)'
  <2>1. Drawn(s)' /\ Told(s)' /\ Ahead(s)'
    BY <1>2, <1>3 DEF Drawn, Told, Ahead
  <2>2. Saver(s)'
    BY <1>1, <1>2, <1>3, <1>6, Sentinels DEF Saver
  <2>3. disk'[s] \in Contexts => Valid(disk'[s]) /\ disk'[s].created <= now'
    BY <1>1, <1>3, <1>6, Sentinels DEF CanWrite
  <2>4. Dated(s)'
    BY <2>3 DEF Dated, Valid
  <2>. QED
    BY <2>1, <2>2, <2>3, <2>4 DEF Kept
<1>8. Capped'
  <2>1. Records(disk)' = Records(disk') /\ InMemory' = InMemory
    BY <1>3 DEF Records, InMemory
  <2>2. CASE disk' = disk \/ disk' \in Scans(now)
    <3>1. Records(disk') \subseteq Records(disk) /\ Records(disk) \subseteq Logins
      BY <2>2, ScanRemoves DEF Records
    <3>. QED
      BY <2>1, <3>1, Fewer DEF IInv, Capped
  <2>3. CASE CanWrite(s, c) /\ disk' = Written(s, c)
    BY <2>1, <2>3, WriteCapped DEF IInv, Capped
  <2>. QED
    BY <1>3, <2>2, <2>3
<1>9. /\ \A q \in Polls : Working(q)'
      /\ \A t \in Logins : Mutex(t)'
  BY <1>3, PollsStand DEF IInv
<1>. QED
  BY <1>3, <1>4, <1>5, <1>7, <1>8, <1>9 DEF RegisterFails, IInv, Typed

(* A context rebuilt from its record is what the record says. *)
LEMMA ArriveStep ==
  ASSUME IInv, NEW p \in Polls, NEW s \in Logins, NEW owner \in Owners,
         Arrive(p, s, owner)
  PROVE  IInv'
<1>. DEFINE job == [at |-> "lock", login |-> s, by |-> owner]
<1>1. /\ poll' = [poll EXCEPT ![p] = job] /\ job \in Jobs
      /\ poll'[p].at = "lock" /\ poll'[p].login = s
      /\ poll' \in [Polls -> Jobs]
      /\ holder' = holder /\ drawn' = drawn /\ s \in drawn /\ s # None
      /\ poll[p].at = "idle" /\ now' = now /\ now' \in Instants /\ now \in Int
      /\ mem[s] = NoLogin => holder[s] = None
      /\ ~Busy(p)
  <2>1. job \in Jobs
    BY DEF Jobs, Steps, Owners
  <2>2. mem[s] = NoLogin => holder[s] = None
    BY BusyHas, Sentinels DEF IInv, Typed, Mutex
  <2>. QED
    BY <2>1, <2>2, OAuthPendingAssumption DEF Arrive, IInv, Typed, Idle, Busy, Instants
<1>2. /\ \A q \in Polls : Working(q)'
      /\ \A t \in Logins : Mutex(t)'
  <2>1. ASSUME NEW q \in Polls PROVE Working(q)'
    <3>1. CASE q = p
      BY <1>1, <3>1 DEF Working, Busy, At
    <3>2. CASE q # p
      <4>1. poll'[q] = poll[q]
        BY <1>1, <3>2 DEF IInv, Typed
      <4>2. Busy(q) => /\ poll[q].login \in Logins
                       /\ mem'[poll[q].login] = mem[poll[q].login]
        BY <1>1, BusyHas DEF Arrive, IInv, Typed
      <4>. QED
        BY <1>1, <4>1, <4>2 DEF IInv, Working, Busy, At
    <3>. QED
      BY <3>1, <3>2
  <2>2. ASSUME NEW t \in Logins PROVE Mutex(t)'
    <3>1. holder[t] # None => holder[t] \in Polls /\ holder[t] # p
      BY <1>1 DEF IInv, Typed, Mutex
    <3>. QED
      BY <1>1, <3>1 DEF IInv, Typed, Mutex, Busy
  <2>. QED
    BY <2>1, <2>2
<1>3. CASE mem' = mem /\ stored' = stored
  <2>1. (\A t \in Logins : Kept(t)') /\ Capped'
    BY <1>1, <1>3, RecordsFade DEF Arrive, IInv, Typed
  <2>. QED
    BY <1>1, <1>2, <1>3, <2>1 DEF Arrive, IInv, Typed
<1>4. CASE /\ mem[s] = NoLogin /\ Restorable(s) /\ Admits
           /\ mem' = [mem EXCEPT ![s] = disk[s]]
           /\ stored' = [stored EXCEPT ![s] = TRUE]
  <2>1. /\ disk[s] \in Contexts /\ mem'[s] = disk[s] /\ stored'[s]
        /\ ~Expired(disk[s]) /\ disk[s].created \in Int /\ disk[s].expires \in Int
    BY <1>4, OAuthPendingAssumption DEF Restorable, IInv, Typed, Contexts, Instants, Expiries
  <2>2. ASSUME NEW t \in Logins, t # s PROVE Kept(t)'
    <3>1. mem'[t] = mem[t] /\ stored'[t] = stored[t]
      BY <1>4, <2>2 DEF IInv, Typed
    <3>. QED
      BY <1>1, <3>1, Elsewhere DEF Arrive, IInv
  <2>3. Kept(s)'
    <3>1. Drawn(s)'
      BY <1>1 DEF Drawn
    <3>2. Told(s)' /\ Saver(s)'
      BY <1>4, <2>1, Sentinels DEF Arrive, IInv, Kept, Told, Saver
    <3>3. Ahead(s)'
      BY <1>1, <2>1 DEF Arrive, Ahead, IInv, Kept, Dated
    <3>4. Dated(s)'
      BY DEF Arrive, IInv, Kept, Dated, Valid
    <3>. QED
      BY <3>1, <3>2, <3>3, <3>4 DEF Kept
  <2>4. Capped'
    <3>1. InMemory' \subseteq InMemory \cup {s} /\ InMemory \subseteq Logins
      BY <1>4 DEF InMemory, IInv, Typed
    <3>2. Records(disk)' = Records(disk)
      BY DEF Arrive, Records
    <3>3. Cardinality(InMemory') <= Max
      BY <1>4, <3>1, OneMore DEF Admits
    <3>. QED
      BY <3>2, <3>3 DEF Capped, InMemory, IInv
  <2>. QED
    BY <1>1, <1>2, <1>4, <2>1, <2>2, <2>3, <2>4 DEF Arrive, IInv, Typed
<1>. QED
  BY <1>3, <1>4 DEF Arrive, Loaded
-----------------------------------------------------------------------------
(* The janitor: what it prunes, nobody holds.                              *)
LEMMA PruneStep ==
  ASSUME IInv, NEW s \in Logins, Prune(s)
  PROVE  IInv'
<1>1. /\ now' = now /\ now \in Instants /\ now \in Int /\ poll' = poll /\ holder' = holder
      /\ drawn' = drawn /\ file' = file /\ got' = got /\ answered' = answered
      /\ crashes' = crashes
      /\ sweep' \in Sweeps /\ sweep'.at <= now'
  BY OAuthPendingAssumption DEF Prune, IInv, Typed, Sweeps, Instants
<1>2. CASE ~Prunable(s)
  <2>1. UNCHANGED <<mem, disk, stored>>
    BY <1>2 DEF Prune
  <2>2. (\A t \in Logins : Kept(t)') /\ Capped'
    BY <1>1, <2>1, RecordsFade DEF IInv, Typed
  <2>3. /\ \A q \in Polls : Working(q)'
        /\ \A t \in Logins : Mutex(t)'
    BY <1>1, <2>1, PollsStand DEF IInv
  <2>. QED
    BY <1>1, <2>1, <2>2, <2>3 DEF Prune, IInv, Typed
<1>3. CASE Prunable(s)
  <2>1. /\ mem' = [mem EXCEPT ![s] = NoLogin] /\ mem'[s] = NoLogin
        /\ stored' = [stored EXCEPT ![s] = FALSE]
        /\ disk' = IF stored[s] THEN [disk EXCEPT ![s] = NoLogin] ELSE disk
        /\ disk' \in [Logins -> Contexts \cup {NoLogin, Bad}]
        /\ mem' \in [Logins -> Contexts \cup {NoLogin}]
        /\ stored' \in [Logins -> BOOLEAN]
    BY <1>3 DEF Prune, IInv, Typed
  <2>2. ASSUME NEW t \in Logins, t # s PROVE Kept(t)'
    <3>1. mem'[t] = mem[t] /\ stored'[t] = stored[t] /\ disk'[t] = disk[t]
      BY <2>1, <2>2 DEF IInv, Typed
    <3>. QED
      BY <1>1, <3>1, Elsewhere DEF IInv
  <2>3. disk'[s] = NoLogin
    BY <1>3, <2>1 DEF Prunable, IInv, Typed, Kept, Ahead
  <2>4. Kept(s)'
    <3>1. Drawn(s)'
      BY <1>1, <2>1, <2>3 DEF IInv, Kept, Drawn
    <3>2. Ahead(s)' /\ Told(s)' /\ Dated(s)'
      BY <2>1, <2>3, Sentinels DEF Ahead, Told, Dated
    <3>3. Saver(s)'
      BY <1>1, <2>1, <2>3, Sentinels DEF IInv, Kept, Saver
    <3>. QED
      BY <3>1, <3>2, <3>3 DEF Kept
  <2>5. Capped'
    <3>1. /\ InMemory' \subseteq InMemory /\ InMemory \subseteq Logins
          /\ Records(disk)' \subseteq Records(disk) /\ Records(disk) \subseteq Logins
      BY <2>1 DEF InMemory, Records, IInv, Typed
    <3>. QED
      BY <3>1, Fewer DEF IInv, Capped, InMemory, Records
  <2>6. /\ \A q \in Polls : Working(q)'
        /\ \A t \in Logins : Mutex(t)'
    BY <1>1, <1>3, <2>1, PollsStand DEF Prunable, IInv, Typed
  <2>. QED
    BY <1>1, <2>1, <2>2, <2>4, <2>5, <2>6 DEF Prune, IInv, Typed
<1>. QED
  BY <1>2, <1>3

LEMMA SweepStep ==
  ASSUME IInv, StartSweep \/ EndSweep
  PROVE  IInv'
<1>1. disk' = disk \/ disk' = Scanned(sweep.at)
  BY DEF StartSweep, EndSweep
<1>2. disk' \in [Logins -> Contexts \cup {NoLogin, Bad}]
  BY <1>1, ScanTyped DEF IInv, Typed
<1>3. now' \in Instants /\ now <= now'
  BY OAuthPendingAssumption DEF StartSweep, EndSweep, IInv, Typed, Instants
<1>4. (\A s \in Logins : Kept(s)') /\ Capped'
  BY <1>1, <1>2, <1>3, ScanRemoves, RecordsFade DEF StartSweep, EndSweep
<1>5. /\ \A q \in Polls : Working(q)'
      /\ \A t \in Logins : Mutex(t)'
  BY PollsStand DEF StartSweep, EndSweep, IInv
<1>6. sweep' \in Sweeps /\ sweep'.at <= now'
  BY <1>3, OAuthPendingAssumption
     DEF StartSweep, EndSweep, IInv, Typed, NoSweep, Sweeps, InMemory, Instants
<1>. QED
  BY <1>2, <1>3, <1>4, <1>5, <1>6 DEF StartSweep, EndSweep, IInv, Typed

-----------------------------------------------------------------------------
(* The world. *)
LEMMA CrashStep ==
  ASSUME IInv, Crash
  PROVE  IInv'
<1>1. /\ mem' \in [Logins -> Contexts \cup {NoLogin}] /\ stored' \in [Logins -> BOOLEAN]
      /\ holder' \in [Logins -> Polls \cup {None}]
      /\ poll' \in [Polls -> Jobs] /\ got' \subseteq spent'
      /\ crashes' \in 0..MaxCrashes /\ crashes' # 0
      /\ disk' = disk /\ file' = file /\ answered' = answered /\ drawn' = drawn
      /\ sweep' \in Sweeps /\ sweep'.at <= now' /\ now' = now
  BY OAuthPendingAssumption
     DEF Crash, IInv, Typed, Idle, Jobs, Steps, Owners, NoSweep, Sweeps, Instants
<1>2. \A p \in Polls : Working(p)'
  BY OAuthPendingAssumption DEF Crash, Working, Idle, Busy, At
<1>3. \A s \in Logins : Mutex(s)'
  BY DEF Crash, Mutex
<1>4. ASSUME NEW s \in Logins PROVE Kept(s)'
  <2>1. mem'[s] = NoLogin /\ (s \in got' => s \in got /\ disk[s].token)
    BY DEF Crash
  <2>2. Drawn(s)'
    BY <1>1, <2>1 DEF IInv, Kept, Drawn
  <2>3. Ahead(s)' /\ Told(s)'
    BY <1>1, <2>1 DEF Ahead, Told
  <2>4. Dated(s)'
    BY <1>1 DEF IInv, Kept, Dated, Valid
  <2>5. Saver(s)'
    BY <1>1, <2>1, Sentinels DEF IInv, Kept, Saver
  <2>. QED
    BY <2>2, <2>3, <2>4, <2>5 DEF Kept
<1>5. Capped'
  <2>1. /\ InMemory' \subseteq {} /\ {} \subseteq InMemory
        /\ InMemory \subseteq Logins /\ Records(disk)' = Records(disk)
    BY <1>1 DEF Crash, InMemory, Records
  <2>2. Cardinality(InMemory') <= Max
    BY <2>1, Fewer DEF IInv, Capped
  <2>. QED
    BY <2>1, <2>2 DEF IInv, Capped, InMemory
<1>. QED
  BY <1>1, <1>2, <1>3, <1>4, <1>5 DEF Crash, IInv, Typed

LEMMA DamageStep ==
  ASSUME IInv, NEW s \in Logins, DamageRecord(s)
  PROVE  IInv'
<1>1. /\ disk' \in [Logins -> Contexts \cup {NoLogin, Bad}]
      /\ \A t \in Logins : disk'[t] = disk[t] \/ (disk'[t] = Bad /\ disk[t] # NoLogin)
  BY DEF DamageRecord, IInv, Typed
<1>2. now' \in Instants /\ now <= now'
  BY OAuthPendingAssumption DEF IInv, Typed, Instants, DamageRecord
<1>3. (\A t \in Logins : Kept(t)') /\ Capped'
  BY <1>1, <1>2, RecordsFade DEF DamageRecord
<1>4. /\ \A q \in Polls : Working(q)'
      /\ \A t \in Logins : Mutex(t)'
  BY PollsStand DEF DamageRecord, IInv
<1>. QED
  BY <1>1, <1>3, <1>4 DEF DamageRecord, IInv, Typed

LEMMA TickStep ==
  ASSUME IInv, Tick
  PROVE  IInv'
<1>1. now' \in Instants /\ now <= now' /\ now \in Int /\ now' \in Int
  BY OAuthPendingAssumption DEF IInv, Typed, Instants, Tick
<1>2. (\A t \in Logins : Kept(t)') /\ Capped'
  BY <1>1, RecordsFade DEF Tick, IInv, Typed
<1>3. /\ \A q \in Polls : Working(q)'
      /\ \A t \in Logins : Mutex(t)'
  BY PollsStand DEF Tick, IInv
<1>4. sweep.at \in Int
  BY DEF IInv, Typed, Sweeps, Instants
<1>. QED
  BY <1>1, <1>2, <1>3, <1>4 DEF Tick, IInv, Typed

LEMMA RewriteStep ==
  ASSUME IInv, NEW s \in Logins, Rewrite(s)
  PROVE  IInv'
<1>1. /\ file' \in [Logins -> {"none", "login", "newer"}]
      /\ \A t \in Logins : file'[t] = "none" <=> file[t] = "none"
  BY DEF Rewrite, IInv, Typed
<1>2. ASSUME NEW t \in Logins PROVE Kept(t)'
  <2>1. Drawn(t)' /\ Ahead(t)' /\ Told(t)' /\ Dated(t)'
    BY <1>1 DEF Rewrite, IInv, Kept, Drawn, Ahead, Told, Dated, Valid, Expired
  <2>2. Saver(t)'
    BY <1>1 DEF Rewrite, IInv, Kept, Saver
  <2>. QED
    BY <2>1, <2>2 DEF Kept
<1>3. /\ \A q \in Polls : Working(q)'
      /\ \A t \in Logins : Mutex(t)'
  BY PollsStand DEF Rewrite, IInv
<1>4. Capped'
  BY DEF Rewrite, IInv, Capped, InMemory, Records
<1>. QED
  BY <1>1, <1>2, <1>3, <1>4 DEF Rewrite, IInv, Typed

-----------------------------------------------------------------------------
LEMMA PendingInitially == Init => IInv
<1>. SUFFICES ASSUME Init PROVE IInv
  OBVIOUS
<1>1. Typed
  <2>1. sweep \in Sweeps /\ sweep.at <= now /\ now \in Instants /\ crashes \in 0..MaxCrashes
    BY OAuthPendingAssumption DEF Init, NoSweep, Sweeps, Instants
  <2>2. poll \in [Polls -> Jobs]
    BY DEF Init, Idle, Jobs, Steps, Owners
  <2>. QED
    BY <2>1, <2>2 DEF Init, Typed
<1>2. \A p \in Polls : Working(p)
  BY OAuthPendingAssumption DEF Init, Working, Idle, Busy, At
<1>3. \A s \in Logins : Mutex(s) /\ Kept(s)
  BY Sentinels DEF Init, Mutex, Kept, Drawn, Ahead, Told, Saver, Dated
<1>4. Capped
  <2>1. InMemory = {} /\ Records(disk) = {}
    BY DEF Init, InMemory, Records
  <2>. QED
    BY <2>1, FS_EmptySet, OAuthPendingAssumption DEF Capped
<1>. QED
  BY <1>1, <1>2, <1>3, <1>4 DEF IInv

LEMMA PendingStep == IInv /\ [Next]_vars => IInv'
<1>. SUFFICES ASSUME IInv, [Next]_vars PROVE IInv'
  OBVIOUS
<1>1. CASE UNCHANGED vars
  BY <1>1 DEF vars, IInv, Typed, Capped, InMemory, Records, Working, Busy, At, Mutex,
              Kept, Drawn, Ahead, Told, Saver, Dated, Valid, Expired
<1>2. CASE Next
  BY <1>2, ConfigureStep, SweepStep, PruneStep, CrashStep, TickStep, DamageStep,
     RewriteStep, RegisterStep, RegisterFailsStep, ArriveStep, AdvanceStep
  DEF Next, Janitor
<1>. QED
  BY <1>1, <1>2

LEMMA Pending == Spec => []IInv
BY PendingInitially, PendingStep, PTL DEF Spec
(* A poll that may ask works on a context without a token, and a login      *)
(* whose token was got has none such (Told).                               *)
THEOREM TokenAskedOnce == Spec => []AskedOnce
<1>1. IInv => AskedOnce
  BY BusyHas, Sentinels DEF IInv, Working, Kept, Told, AskedOnce, Busy, At
<1>. QED
  BY <1>1, Pending, PTL

(* What is called saved was saved, and only the panel's logins are (Saver). *)
THEOREM OneSaver == Spec => []OneWriter
<1>1. IInv => OneWriter
  BY DEF IInv, Kept, Saver, OneWriter
<1>. QED
  BY <1>1, Pending, PTL

(* Types, mutexes, valid records, and both caps.                           *)
THEOREM StaysBounded == Spec => []Bounded
<1>1. IInv => Bounded
  <2>. SUFFICES ASSUME IInv PROVE Bounded
    OBVIOUS
  <2>1. \A p \in Polls :
          /\ poll[p].at \in Steps /\ poll[p].by \in Owners
          /\ At(p, "idle") <=> poll[p].login = None
          /\ ~At(p, "idle") => poll[p].login \in drawn
          /\ poll[p].at \notin {"idle", "lock"} => holder[poll[p].login] = p
    BY DEF IInv, Typed, Jobs, Working, Busy, At
  <2>2. \A s \in Logins : holder[s] # None =>
          poll[holder[s]].login = s /\ poll[holder[s]].at \notin {"idle", "lock"}
    BY DEF IInv, Mutex, Busy
  <2>3. \A s \in Logins : disk[s] \notin {NoLogin, Bad} => Valid(disk[s])
    BY DEF IInv, Typed, Kept, Dated
  <2>4. sweep.at \in Instants \cup {-1} /\ sweep.left \subseteq Logins
    BY DEF IInv, Typed, Sweeps
  <2>5. TypeOK
    BY <2>1, <2>2, <2>3, <2>4 DEF IInv, Typed, TypeOK
  <2>. QED
    BY <2>5 DEF IInv, Capped, Bounded
<1>. QED
  BY <1>1, Pending, PTL

(* What a step may leave of a record that still counts.                    *)
Stands(s) ==
  \/ disk'[s] = Bad
  \/ /\ disk'[s] # NoLogin
     /\ disk[s].token => disk'[s].token
     /\ disk[s].result => disk'[s].result
     /\ disk[s].saved => disk'[s].saved

LEMMA CheckpointKeeps ==
  ASSUME IInv, NEW p \in Polls, Persisted(p) \/ NotPersisted(p), Busy(p),
         NEW s \in Logins, disk[s] \in Contexts, ~Expired(disk[s]),
         now < disk[s].expires, now \in Int, disk[s].expires \in Int
  PROVE  Stands(s)
<1>1. disk' = disk \/ disk' = Scanned(now) => Stands(s)
  BY ScanRemoves, Sentinels DEF Stands
<1>2. CASE Persisted(p) /\ stored[poll[p].login]
  <2>1. CASE s = poll[p].login
    <3>1. disk' = Written(s, mem[s])
      BY <1>2, <2>1 DEF Persisted
    <3>2. disk'[s] = mem[s]
      BY <3>1, ScanTyped DEF IInv, Written
    <3>3. mem[s] \in Contexts
      BY <2>1, BusyHas
    <3>. QED
      BY <3>2, <3>3, Sentinels DEF Stands, IInv, Kept, Ahead
  <2>2. CASE s # poll[p].login
    <3>1. disk'[s] = disk[s]
      BY <1>2, <2>2, ScanRemoves DEF Persisted, Written, Scanned
    <3>. QED
      BY <3>1, Sentinels DEF Stands
  <2>. QED
    BY <2>1, <2>2
<1>. QED
  BY <1>1, <1>2 DEF Persisted, NotPersisted

(* The context that a poll writes is ahead of the record it overwrites     *)
(* (Ahead); a scan and the janitor remove what has expired by the clock.    *)
THEOREM CheckpointsStand == Spec => CheckpointStands
<1>1. ASSUME IInv, [Next]_vars, NEW s \in Logins,
             disk[s] \notin {NoLogin, Bad}, now < disk[s].expires
      PROVE  Stands(s)
  <2>1. /\ disk[s] \in Contexts /\ now \in Int /\ disk[s].expires \in Int
        /\ ~Expired(disk[s])
    BY <1>1, OAuthPendingAssumption DEF IInv, Typed, Contexts, Instants, Expiries, Expired
  <2>2. \A d : d[s] = disk[s] /\ disk' = d => Stands(s)
    BY <1>1 DEF Stands
  <2>3. CASE UNCHANGED vars
    BY <2>2, <2>3 DEF vars
  <2>4. CASE Configure \/ ConfigureBadly
    BY <1>1, <2>1, <2>2, <2>4, ScanRemoves DEF Configure, ConfigureBadly
  <2>5. CASE StartSweep \/ EndSweep
    <3>1. sweep.at < disk[s].expires /\ sweep.at \in Int
      BY <1>1, <2>1 DEF IInv, Typed, Sweeps, Instants
    <3>. QED
      BY <2>1, <2>2, <2>5, <3>1, ScanRemoves DEF StartSweep, EndSweep
  <2>6. ASSUME NEW t \in Logins, Prune(t) PROVE Stands(s)
    <3>1. CASE t = s /\ Prunable(s) /\ stored[s]
      <4>1. disk[s].expires <= mem[s].expires /\ mem[s] \in Contexts
        BY <1>1, <2>1, <3>1 DEF Prunable, IInv, Typed, Kept, Ahead
      <4>2. sweep.at >= mem[s].expires /\ sweep.at <= now /\ mem[s].expires \in Int
            /\ sweep.at \in Int
        BY <1>1, <3>1, <4>1, OAuthPendingAssumption
           DEF Prunable, IInv, Typed, Sweeps, Contexts, Instants, Expiries
      <4>. QED
        BY <1>1, <2>1, <4>1, <4>2
    <3>2. CASE ~(t = s /\ Prunable(s) /\ stored[s])
      BY <1>1, <2>2, <2>6, <3>2 DEF Prune, IInv, Typed
    <3>. QED
      BY <3>1, <3>2
  <2>7. CASE Crash \/ Tick \/ \E t \in Logins : Rewrite(t)
    BY <2>2, <2>7 DEF Crash, Tick, Rewrite
  <2>8. ASSUME NEW t \in Logins, DamageRecord(t) PROVE Stands(s)
    BY <1>1, <2>2, <2>8 DEF DamageRecord, IInv, Typed, Stands
  <2>9. ASSUME NEW t \in Logins, NEW o \in Owners, Register(t, o) \/ RegisterFails(t, o)
        PROVE  Stands(s)
    <3>1. t # s
      BY <1>1, <2>9 DEF Register, RegisterFails, IInv, Kept, Drawn
    <3>2. Written(t, Fresh(o))[s] = disk[s] /\ \A d \in Scans(now) : d[s] = disk[s]
      BY <1>1, <2>1, <3>1, ScanRemoves, ScanTyped DEF Written, Scanned
    <3>. QED
      BY <2>2, <2>9, <3>2 DEF Register, RegisterFails, DiskAfterFailure
  <2>10. ASSUME NEW p \in Polls, NEW t \in Logins, NEW o \in Owners, Arrive(p, t, o)
         PROVE  Stands(s)
    BY <2>2, <2>10 DEF Arrive
  <2>11. ASSUME NEW p \in Polls, Advance(p) PROVE Stands(s)
    <3>1. CASE Checkpoint(p) \/ PersistResult(p) \/ Mark(p)
      BY <1>1, <2>1, <3>1, CheckpointKeeps DEF Checkpoint, PersistResult, Mark, Busy, At
    <3>2. CASE \/ Lock(p) \/ CheckRecord(p) \/ TakeToken(p) \/ NoToken(p)
               \/ Identify(p) \/ Save(p)
      BY <2>2, <3>2 DEF Lock, CheckRecord, TakeToken, NoToken, Identify, Save
    <3>. QED
      BY <2>11, <3>1, <3>2 DEF Advance
  <2>. QED
    BY <1>1, <2>3, <2>4, <2>5, <2>6, <2>7, <2>8, <2>9, <2>10, <2>11 DEF Next, Janitor
<1>2. IInv /\ [Next]_vars =>
        [\A s \in Logins :
           disk[s] \notin {NoLogin, Bad} /\ now < disk[s].expires
             => \/ disk'[s] = Bad
                \/ /\ disk'[s] # NoLogin
                   /\ disk[s].token => disk'[s].token
                   /\ disk[s].result => disk'[s].result
                   /\ disk[s].saved => disk'[s].saved]_vars
  BY <1>1 DEF Stands
<1>. QED
  BY <1>2, Pending, PTL DEF Spec, CheckpointStands

(* Only a save overwrites the file, and a poll saves only what the context *)
(* does not call saved: without a restart, what was never saved (Saver).   *)
THEOREM NewerStands == Spec => NewerKept
<1>1. ASSUME IInv, [Next]_vars, NEW s \in Logins, file[s] = "newer", file'[s] # "newer"
      PROVE  crashes > 0
  <2>1. CASE file' = file
    BY <1>1, <2>1
  <2>2. ASSUME NEW t \in Logins, Rewrite(t) PROVE crashes > 0
    BY <1>1, <2>2 DEF Rewrite, IInv, Typed
  <2>3. ASSUME NEW p \in Polls, Save(p), file' # file PROVE crashes > 0
    <3>1. poll[p].login = s
      BY <1>1, <2>3 DEF Save, IInv, Typed
    <3>2. ~mem[s].saved /\ mem[s] # NoLogin
      BY <1>1, <2>3, <3>1 DEF Save, IInv, Working, Busy, At
    <3>3. crashes # 0
      BY <1>1, <3>2 DEF IInv, Kept, Saver
    <3>. QED
      BY <1>1, <3>3, OAuthPendingAssumption DEF IInv, Typed
  <2>4. \/ file' = file
        \/ \E t \in Logins : Rewrite(t)
        \/ \E p \in Polls : Save(p)
    BY <1>1 DEF Next, Janitor, Configure, ConfigureBadly, StartSweep, Prune, EndSweep, Crash,
       Tick, DamageRecord, Register, RegisterFails, Arrive, Advance, Lock, CheckRecord,
       TakeToken, NoToken, Checkpoint, Identify, PersistResult, Mark, vars
  <2>. QED
    BY <2>1, <2>2, <2>3, <2>4
<1>2. IInv /\ [Next]_vars =>
        [\A s \in Logins : file[s] = "newer" /\ file'[s] # "newer" => crashes > 0]_vars
  BY <1>1
<1>. QED
  BY <1>2, Pending, PTL DEF Spec, NewerKept
=============================================================================
