---------------------------- MODULE OAuthPending ----------------------------
(***************************************************************************)
(* The device logins of oauth_pending.go, from start to a saved credential: *)
(* the contexts in memory (loginStates), their records on disk             *)
(* (oauthPendingStore), the polls of the host and of the panel that advance *)
(* one login in steps under its mutex, the janitor, damaged records, and    *)
(* restarts that keep the disk only.                                       *)
(*                                                                         *)
(* The upstream grant can be exchanged once.  The store's critical sections *)
(* (oauthPending.Mutex) are one step each; an atomic rename makes a write   *)
(* all or nothing.  A poll that looked a context up and waits for its mutex *)
(* is given by the login alone: a context leaves memory only when it has    *)
(* expired, and one that was replaced since is expired too.                 *)
(***************************************************************************)
EXTENDS Integers, FiniteSets

CONSTANTS
  Logins,       \* login states: random, so never drawn twice
  Polls,        \* goroutines of handlePollLogin and handleManagementOAuthPoll
  None,
  Max,          \* oauthPendingMaxFiles
  LoginTTL,     \* loginTTL
  ResultTTL,    \* oauthResultTTL
  DiskFaults,   \* whether a write may fail
  Damage,       \* whether records may be damaged by someone else
  Rewrites,     \* whether others may rewrite a saved credential
  MaxCrashes,   \* bound: restarts of the process
  MaxTime       \* bound: instants explored

ASSUME OAuthPendingAssumption ==
  /\ IsFiniteSet(Logins) /\ IsFiniteSet(Polls)
  /\ None \notin Logins \cup Polls
  /\ {Max, LoginTTL, ResultTTL} \subseteq Nat \ {0}
  /\ LoginTTL <= ResultTTL
  /\ {DiskFaults, Damage, Rewrites} \subseteq BOOLEAN
  /\ {MaxCrashes, MaxTime} \subseteq Nat

VARIABLES
  now,       \* the clock
  bound,     \* oauthPending.store is open
  initErr,   \* oauthPending.initErr is set
  mem,       \* mem[s]: loginStates, a context or NoLogin
  stored,    \* stored[s]: the context's store is set
  disk,      \* disk[s]: the record, NoLogin, or Bad
  holder,    \* holder[s]: the poll that holds the context's mutex, or None
  poll,      \* poll[p]: what the goroutine p does
  sweep,     \* the janitor's round: its instant and the contexts left
  drawn,     \* the login states drawn so far
  crashes,   \* bound: restarts so far
  spent,     \* the grants that upstream has exchanged
  file,      \* file[s]: the auth file: "none", "login" (as saved), "newer"
  answered,  \* history: logins a host poll has answered with a credential
  got        \* history: logins whose token the process has, or can read back

vars == <<now, bound, initErr, mem, stored, disk, holder, poll, sweep, drawn,
          crashes, spent, file, answered, got>>

Owners == {"host", "panel"}
Instants == 0..MaxTime
Expiries == 0..(MaxTime + LoginTTL + ResultTTL)

(* What of loginCtx and oauthPendingRecord the protocol tells apart: the    *)
(* rest (verifier, nonce, region) is set once by startLoginOwned.           *)
Contexts ==
  [owner : Owners, created : Instants, expires : Expiries, token : BOOLEAN,
   tokenAt : Instants, result : BOOLEAN, saved : BOOLEAN]

NoLogin ==
  [owner |-> "none", created |-> 0, expires |-> 0, token |-> FALSE,
   tokenAt |-> 0, result |-> FALSE, saved |-> FALSE]
Bad == [NoLogin EXCEPT !.owner = "bad"]

Fresh(owner) ==
  [NoLogin EXCEPT !.owner = owner, !.created = now, !.expires = now + LoginTTL]

Idle == [at |-> "idle", login |-> None, by |-> "host"]
Steps == {"idle", "lock", "check", "ask", "checkpoint", "identity", "result",
          "save", "marker"}

NoSweep == [at |-> -1, left |-> {}]

Expired(r) == now >= r.expires
InMemory == {s \in Logins : mem[s] # NoLogin}
Records(d) == {s \in Logins : d[s] # NoLogin}

(* validOAuthPendingRecord, of what the fields above can get wrong. *)
Valid(r) ==
  /\ r.expires <= r.created + LoginTTL + ResultTTL
  /\ r.token => r.tokenAt < r.expires /\ r.expires <= r.tokenAt + ResultTTL
  /\ ~r.token => ~r.result /\ ~r.saved /\ r.expires <= r.created + LoginTTL
  /\ r.saved => r.result /\ r.owner = "panel"

(* oauthPendingStore.scan: a damaged record fails it; it deletes the        *)
(* expired records.                                                        *)
ScanFails == \E s \in Logins : disk[s] = Bad

(* Mutated: the first deadline decides. *)
ScannedAtLoginTTL(time) ==
  [s \in Logins |-> IF time >= disk[s].created + LoginTTL THEN NoLogin
                    ELSE disk[s]]

Scanned(time) ==
  [s \in Logins |-> IF time >= disk[s].expires THEN NoLogin ELSE disk[s]]

(* The disks that a scan which fails somewhere may leave. *)
Scans(time) ==
  {[s \in Logins |-> IF s \in gone THEN NoLogin ELSE disk[s]] :
     gone \in SUBSET {s \in Records(disk) : disk[s] # Bad
                                           /\ time >= disk[s].expires}}

(* oauthPendingStore.write: the disk afterwards, if the write succeeds. *)
Fits(s) ==
  \/ disk[s] # NoLogin /\ ~Expired(disk[s])
  \/ Cardinality(Records(Scanned(now))) < Max

CanWrite(s, r) == ~ScanFails /\ Valid(r) /\ Fits(s)

Written(s, r) == [Scanned(now) EXCEPT ![s] = r]

(* A write that reports a failure: refused, or broken at any point, the     *)
(* rename possibly done when the sync of the directory fails.              *)
DiskAfterFailure(s, r) ==
  \/ ~Valid(r) /\ UNCHANGED disk
  \/ Valid(r) /\ (DiskFaults \/ ~CanWrite(s, r)) /\ disk' \in Scans(now)
  \/ DiskFaults /\ CanWrite(s, r) /\ disk' = Written(s, r)

(***************************************************************************)
(* Entry points.                                                           *)
(***************************************************************************)

(* configureOAuthPending with an auth directory: opening the store scans   *)
(* it, and fails on a damaged record or on too many.                       *)
Configure ==
  /\ IF bound \/ (~ScanFails /\ Cardinality(Records(Scanned(now))) <= Max)
     THEN /\ bound' = TRUE
          /\ initErr' = FALSE
          /\ disk' = IF bound THEN disk ELSE Scanned(now)
     ELSE /\ initErr' = TRUE
          /\ disk' \in Scans(now)
          /\ UNCHANGED bound
  /\ UNCHANGED <<now, mem, stored, holder, poll, sweep, drawn, crashes, spent,
                 file, answered, got>>

(* configureOAuthPending with a directory that is relative, unsafe, or not *)
(* the one in use.                                                         *)
ConfigureBadly ==
  /\ initErr' = TRUE
  /\ UNCHANGED <<now, bound, mem, stored, disk, holder, poll, sweep, drawn,
                 crashes, spent, file, answered, got>>

(* Mutated: the cap is off by one. *)
AdmitsOneMore == Cardinality(InMemory) <= Max

Admits == Cardinality(InMemory) < Max

(* startLoginOwned and registerOAuthPending: the record first, then the    *)
(* context.  A login whose write failed is not in memory, whatever is left *)
(* on disk; nobody learns its state.                                       *)
Register(s, owner) ==
  /\ s \notin drawn
  /\ now + LoginTTL + ResultTTL <= MaxTime
  /\ ~initErr /\ Admits
  /\ bound => CanWrite(s, Fresh(owner))
  /\ drawn' = drawn \cup {s}
  /\ disk' = IF bound THEN Written(s, Fresh(owner)) ELSE disk
  /\ mem' = [mem EXCEPT ![s] = Fresh(owner)]
  /\ stored' = [stored EXCEPT ![s] = bound]
  /\ UNCHANGED <<now, bound, initErr, holder, poll, sweep, crashes, spent,
                 file, answered, got>>

RegisterFails(s, owner) ==
  /\ DiskFaults
  /\ s \notin drawn
  /\ now + LoginTTL + ResultTTL <= MaxTime
  /\ ~initErr /\ Admits /\ bound
  /\ DiskAfterFailure(s, Fresh(owner))
  /\ drawn' = drawn \cup {s}
  /\ UNCHANGED <<now, bound, initErr, mem, stored, holder, poll, sweep,
                 crashes, spent, file, answered, got>>

(* Fields of the record that a context is rebuilt from. *)
Loaded(r) == r

Restorable(s) == bound /\ disk[s] \notin {NoLogin, Bad} /\ ~Expired(disk[s])

(* A poll arrives: lookupOAuthPending finds the context, or rebuilds it    *)
(* from its record.  Polls it turns away change nothing.                   *)
Arrive(p, s, owner) ==
  /\ poll[p] = Idle
  /\ s \in drawn
  /\ ~initErr
  /\ \/ mem[s] # NoLogin /\ UNCHANGED <<mem, stored>>
     \/ /\ mem[s] = NoLogin /\ Restorable(s) /\ Admits
        /\ mem' = [mem EXCEPT ![s] = Loaded(disk[s])]
        /\ stored' = [stored EXCEPT ![s] = TRUE]
  /\ poll' = [poll EXCEPT ![p] = [at |-> "lock", login |-> s, by |-> owner]]
  /\ UNCHANGED <<now, bound, initErr, disk, holder, sweep, drawn, crashes,
                 spent, file, answered, got>>

(***************************************************************************)
(* The steps of a poll.                                                    *)
(***************************************************************************)
At(p, step) == poll[p].at = step

Goto(p, step) == poll' = [poll EXCEPT ![p].at = step]

Return(p) ==
  /\ poll' = [poll EXCEPT ![p] = Idle]
  /\ holder' = [holder EXCEPT ![poll[p].login] = None]

(* Mutated: either entry point goes on with the login. *)
OwnedByAnyone(p, c) == TRUE

Owned(p, c) == c.owner = poll[p].by

(* lockOAuthPending, once the mutex is free: another entry point's login   *)
(* and an expired one are turned away.                                     *)
Lock(p) ==
  LET s == poll[p].login
      c == mem[s]
  IN /\ At(p, "lock")
     /\ holder[s] = None
     /\ IF c # NoLogin /\ Owned(p, c) /\ ~Expired(c)
        THEN /\ holder' = [holder EXCEPT ![s] = p]
             /\ Goto(p, IF c.token THEN "checkpoint" ELSE "check")
        ELSE /\ poll' = [poll EXCEPT ![p] = Idle]
             /\ UNCHANGED holder
     /\ UNCHANGED <<now, bound, initErr, mem, stored, disk, sweep, drawn,
                    crashes, spent, file, answered, got>>

(* The record is read back before the grant is spent. *)
RecordGone(s) == stored[s] /\ disk[s] \in {NoLogin, Bad}

CheckRecord(p) ==
  /\ At(p, "check")
  /\ IF RecordGone(poll[p].login)
     THEN Return(p)
     ELSE Goto(p, "ask") /\ UNCHANGED holder
  /\ UNCHANGED <<now, bound, initErr, mem, stored, disk, sweep, drawn,
                 crashes, spent, file, answered, got>>

Granted(c) ==
  LET cap == c.created + LoginTTL + ResultTTL
  IN [c EXCEPT !.token = TRUE, !.tokenAt = now,
               !.expires = IF now + ResultTTL > cap THEN cap
                           ELSE now + ResultTTL]

(* pollDeviceToken or exchangePATForJobToken answers with a token. *)
TakeToken(p) ==
  LET s == poll[p].login
  IN /\ At(p, "ask")
     /\ s \notin spent
     /\ spent' = spent \cup {s}
     /\ mem' = [mem EXCEPT ![s] = Granted(@)]
     /\ got' = got \cup {s}
     /\ Goto(p, "checkpoint")
     /\ UNCHANGED <<now, bound, initErr, stored, disk, holder, sweep, drawn,
                    crashes, file, answered>>

(* No token: the user has not confirmed yet, or the call failed, its       *)
(* answer possibly lost after upstream has spent the grant.                *)
NoToken(p) ==
  LET s == poll[p].login
  IN /\ At(p, "ask")
     /\ spent' \in {spent, spent \cup {s}}
     /\ Return(p)
     /\ UNCHANGED <<now, bound, initErr, mem, stored, disk, sweep, drawn,
                    crashes, file, answered, got>>

(* Mutated: memory goes back to what is on disk. *)
RollsBack(s) == mem' = [mem EXCEPT ![s] =
  [@ EXCEPT !.token = disk[s].token, !.result = disk[s].result,
            !.saved = disk[s].saved]]

(* Mutated: the mark of the save is taken back. *)
UnmarksSave(s) == mem' = [mem EXCEPT ![s].saved = FALSE]

(* persistOAuthPending: memory keeps what it knows when the write fails. *)
KeepsMemory(s) == mem' = mem

Persisted(p) ==
  LET s == poll[p].login
  IN /\ ~initErr
     /\ stored[s] => CanWrite(s, mem[s])
     /\ disk' = IF stored[s] THEN Written(s, mem[s]) ELSE disk
     /\ UNCHANGED mem

NotPersisted(p) ==
  LET s == poll[p].login
  IN /\ \/ initErr
        \/ stored[s] /\ (DiskFaults \/ ~CanWrite(s, mem[s]))
     /\ \/ UNCHANGED disk
        \/ ~initErr /\ ~ScanFails /\ Valid(mem[s]) /\ disk' = Scanned(now)
     /\ KeepsMemory(s)

(* The token's checkpoint, before anything is made of it. *)
Checkpoint(p) ==
  /\ At(p, "checkpoint")
  /\ \/ Persisted(p) /\ UNCHANGED holder
        /\ Goto(p, IF mem[poll[p].login].result THEN "result" ELSE "identity")
     \/ NotPersisted(p) /\ Return(p)
  /\ UNCHANGED <<now, bound, initErr, stored, sweep, drawn, crashes, spent,
                 file, answered, got>>

(* The account's identity: of the grant, or looked up, which may fail. *)
Identify(p) ==
  /\ At(p, "identity")
  /\ \/ /\ mem' = [mem EXCEPT ![poll[p].login].result = TRUE]
        /\ Goto(p, "result") /\ UNCHANGED holder
     \/ Return(p) /\ UNCHANGED mem
  /\ UNCHANGED <<now, bound, initErr, stored, disk, sweep, drawn, crashes,
                 spent, file, answered, got>>

(* The result's checkpoint.  The host's poll then answers with the         *)
(* credential for the host to save; the panel's saves it unless it has.    *)
PersistResult(p) ==
  LET s == poll[p].login
  IN /\ At(p, "result")
     /\ \/ /\ Persisted(p)
           /\ IF poll[p].by = "host"
              THEN Return(p) /\ answered' = answered \cup {s}
              ELSE /\ Goto(p, IF mem[s].saved THEN "marker" ELSE "save")
                   /\ UNCHANGED <<holder, answered>>
        \/ NotPersisted(p) /\ Return(p) /\ UNCHANGED answered
     /\ UNCHANGED <<now, bound, initErr, stored, sweep, drawn, crashes, spent,
                    file, got>>

(* host.auth.save of the panel's credential, and the mark in memory. *)
Save(p) ==
  LET s == poll[p].login
  IN /\ At(p, "save")
     /\ \/ /\ file' = [file EXCEPT ![s] = "login"]
           /\ mem' = [mem EXCEPT ![s].saved = TRUE]
           /\ Goto(p, "marker") /\ UNCHANGED holder
        \/ Return(p) /\ UNCHANGED <<mem, file>>
     /\ UNCHANGED <<now, bound, initErr, stored, disk, sweep, drawn, crashes,
                    spent, answered, got>>

(* The mark's checkpoint; the answer is an error when it fails. *)
Mark(p) ==
  /\ At(p, "marker")
  /\ Persisted(p) \/ NotPersisted(p)
  /\ Return(p)
  /\ UNCHANGED <<now, bound, initErr, stored, sweep, drawn, crashes, spent,
                 file, answered, got>>

(***************************************************************************)
(* The janitor, once a minute: pruneOAuthPending.                          *)
(***************************************************************************)
StartSweep ==
  /\ sweep = NoSweep
  /\ sweep' = [at |-> now, left |-> InMemory]
  /\ UNCHANGED <<now, bound, initErr, mem, stored, disk, holder, poll, drawn,
                 crashes, spent, file, answered, got>>

(* A context whose mutex is taken is left alone. *)
Prunable(s) == mem[s] # NoLogin /\ holder[s] = None /\ sweep.at >= mem[s].expires

Prune(s) ==
  /\ s \in sweep.left
  /\ sweep' = [sweep EXCEPT !.left = @ \ {s}]
  /\ IF Prunable(s)
     THEN /\ mem' = [mem EXCEPT ![s] = NoLogin]
          /\ disk' = IF stored[s] THEN [disk EXCEPT ![s] = NoLogin] ELSE disk
          /\ stored' = [stored EXCEPT ![s] = FALSE]
     ELSE UNCHANGED <<mem, disk, stored>>
  /\ UNCHANGED <<now, bound, initErr, holder, poll, drawn, crashes, spent,
                 file, answered, got>>

EndSweep ==
  /\ sweep # NoSweep /\ sweep.left = {}
  /\ sweep' = NoSweep
  /\ disk' = IF bound /\ ~ScanFails THEN Scanned(sweep.at) ELSE disk
  /\ UNCHANGED <<now, bound, initErr, mem, stored, holder, poll, drawn,
                 crashes, spent, file, answered, got>>

(***************************************************************************)
(* The world.                                                              *)
(***************************************************************************)

(* A restart keeps the records and the auth files. *)
Crash ==
  /\ crashes < MaxCrashes
  /\ crashes' = crashes + 1
  /\ bound' = FALSE /\ initErr' = FALSE
  /\ mem' = [s \in Logins |-> NoLogin]
  /\ stored' = [s \in Logins |-> FALSE]
  /\ holder' = [s \in Logins |-> None]
  /\ poll' = [p \in Polls |-> Idle]
  /\ sweep' = NoSweep
  /\ got' = {s \in got : disk[s].token}
  /\ UNCHANGED <<now, disk, drawn, spent, file, answered>>

(* Someone damages a record. *)
DamageRecord(s) ==
  /\ Damage
  /\ disk[s] \notin {NoLogin, Bad}
  /\ disk' = [disk EXCEPT ![s] = Bad]
  /\ UNCHANGED <<now, bound, initErr, mem, stored, holder, poll, sweep, drawn,
                 crashes, spent, file, answered, got>>

(* The keepalive refreshes a saved credential, or the operator edits it. *)
Rewrite(s) ==
  /\ Rewrites
  /\ file[s] = "login"
  /\ file' = [file EXCEPT ![s] = "newer"]
  /\ UNCHANGED <<now, bound, initErr, mem, stored, disk, holder, poll, sweep,
                 drawn, crashes, spent, answered, got>>

Tick ==
  /\ now < MaxTime
  /\ now' = now + 1
  /\ UNCHANGED <<bound, initErr, mem, stored, disk, holder, poll, sweep, drawn,
                 crashes, spent, file, answered, got>>

Init ==
  /\ now = 0
  /\ bound = FALSE /\ initErr = FALSE
  /\ mem = [s \in Logins |-> NoLogin]
  /\ stored = [s \in Logins |-> FALSE]
  /\ disk = [s \in Logins |-> NoLogin]
  /\ holder = [s \in Logins |-> None]
  /\ poll = [p \in Polls |-> Idle]
  /\ sweep = NoSweep
  /\ drawn = {} /\ crashes = 0 /\ spent = {}
  /\ file = [s \in Logins |-> "none"]
  /\ answered = {} /\ got = {}

Advance(p) ==
  \/ Lock(p) \/ CheckRecord(p) \/ TakeToken(p) \/ NoToken(p) \/ Checkpoint(p)
  \/ Identify(p) \/ PersistResult(p) \/ Save(p) \/ Mark(p)

Janitor == StartSweep \/ (\E s \in Logins : Prune(s)) \/ EndSweep

Next ==
  \/ Configure \/ ConfigureBadly \/ Janitor \/ Crash \/ Tick
  \/ \E s \in Logins : DamageRecord(s) \/ Rewrite(s)
  \/ \E s \in Logins, o \in Owners : Register(s, o) \/ RegisterFails(s, o)
  \/ \E p \in Polls, s \in Logins, o \in Owners : Arrive(p, s, o)
  \/ \E p \in Polls : Advance(p)

Spec == Init /\ [][Next]_vars

(***************************************************************************)
(* Properties.                                                             *)
(***************************************************************************)

(* Types; a poll that advances a login holds its mutex, and a context is a *)
(* valid record once its token is checkpointed.                            *)
TypeOK ==
  /\ now \in Instants /\ {bound, initErr} \subseteq BOOLEAN
  /\ mem \in [Logins -> Contexts \cup {NoLogin}]
  /\ disk \in [Logins -> Contexts \cup {NoLogin, Bad}]
  /\ stored \in [Logins -> BOOLEAN]
  /\ holder \in [Logins -> Polls \cup {None}]
  /\ \A p \in Polls :
       /\ poll[p].at \in Steps /\ poll[p].by \in Owners
       /\ At(p, "idle") <=> poll[p].login = None
       /\ ~At(p, "idle") => poll[p].login \in drawn
       /\ poll[p].at \notin {"idle", "lock"} => holder[poll[p].login] = p
  /\ \A s \in Logins : holder[s] # None =>
       poll[holder[s]].login = s /\ poll[holder[s]].at \notin {"idle", "lock"}
  /\ sweep.at \in Instants \cup {-1} /\ sweep.left \subseteq Logins
  /\ drawn \subseteq Logins /\ crashes \in 0..MaxCrashes
  /\ spent \subseteq Logins /\ got \subseteq spent
  /\ file \in [Logins -> {"none", "login", "newer"}]
  /\ answered \subseteq Logins
  /\ \A s \in Logins : disk[s] \notin {NoLogin, Bad} => Valid(disk[s])

(* docs/reliability.md:25: a login is retried "without requesting a token  *)
(* already obtained".  Whatever write, lookup or save failed, and across   *)
(* restarts once the token is on disk, no poll asks upstream again.        *)
AskedOnce == \A p \in Polls : At(p, "ask") => poll[p].login \notin got

(* docs/reliability.md:29: the panel reports success only after its own     *)
(* save succeeds: neither memory nor disk calls a login saved that was not; *)
(* and host and panel never both save a login: one whose credential the     *)
(* host was handed is not saved by the panel, and the converse, across      *)
(* restarts.                                                                *)
OneWriter ==
  \A s \in Logins :
    /\ mem[s].saved \/ disk[s].saved => file[s] # "none"
    /\ s \in answered => file[s] = "none"

(* Contexts and records stay within oauthPendingMaxFiles, whatever mix of   *)
(* starts, restorations, late checkpoints and restarts fills them; and a    *)
(* context is locked by the poll that works on it.                          *)
Bounded ==
  TypeOK /\ Cardinality(InMemory) <= Max /\ Cardinality(Records(disk)) <= Max

(* What a record has checkpointed stands until the login expires: no stale  *)
(* context, scan, restart or failed write takes back a token, a result or   *)
(* the mark of the save; only damage from outside does.                     *)
CheckpointStands ==
  [][\A s \in Logins :
       disk[s] \notin {NoLogin, Bad} /\ now < disk[s].expires
         => \/ disk'[s] = Bad
            \/ /\ disk'[s] # NoLogin
               /\ disk[s].token => disk'[s].token
               /\ disk[s].result => disk'[s].result
               /\ disk[s].saved => disk'[s].saved]_vars

(* A credential refreshed or edited since the panel saved it is not         *)
(* overwritten with the one of the login, however its polls are repeated.   *)
(* A restart between the save and the checkpoint of its mark is the         *)
(* exception: the next poll of the login saves its credential again.        *)
NewerKept ==
  [][\A s \in Logins :
       file[s] = "newer" /\ file'[s] # "newer" => crashes > 0]_vars
=============================================================================
