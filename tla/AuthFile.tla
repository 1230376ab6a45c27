------------------------------ MODULE AuthFile ------------------------------
(***************************************************************************)
(* The goroutines that read a credential file through host.auth.get and    *)
(* write it back whole through host.auth.save: the panel's switch, delete, *)
(* rename and login, the note of the dashboard, the lifecycle's            *)
(* reconciliation, the daily token refresh, the adoption of legacy files   *)
(* and the re-registration of a refreshed catalog.  Some of them hold the  *)
(* account's lock (checkinLockFor) from the read to the write.             *)
(*                                                                         *)
(* One account, whose file keeps one name (AuthNames has the move of a     *)
(* legacy one).  disableAuth and deleteAuth are not here:                *)
(* lifecycleActionFor always answers none, and nothing calls deleteAuth.   *)
(* Nor is markSessionDead: refreshCall drops the body it is decided from.  *)
(***************************************************************************)
EXTENDS AuthDocument

CONSTANTS
  Workers,    \* goroutines
  None,
  Writers,    \* operations explored
  Found,      \* the documents a start may find
  HostParks,  \* the host itself may flip the flag of a credential
  MaxToken    \* bound: token pairs upstream issues

Operations ==
  {"toggle", "sync", "reconcile", "delete", "rename", "login", "keepalive",
   "adopt", "reregister"}

ASSUME AuthFileAssumption ==
  /\ None \notin Workers
  /\ Writers \subseteq Operations
  /\ HostParks \in BOOLEAN
  /\ MaxToken \in Nat

VARIABLES
  lock,         \* the holder of the account's lock, or None
  work,         \* work[w]: the operation of goroutine w
  remembered,   \* lifecycleState: what the last note wrote, or None
  parked,       \* history: who has the account out of rotation
  deleted,      \* history: the operator has deleted it
  issued,       \* history: the newest token pair upstream has issued
  stored        \* history: the newest token pair a writer has saved

history == <<parked, deleted, issued, stored>>
vars == <<doc, lock, work, remembered, history>>

IdleWork ==
  [op |-> "none", pc |-> "idle", seen |-> Missing, credits |-> "unknown",
   next |-> FALSE, token |-> 0]

Works ==
  [op : Operations \cup {"none", "revive"},
   pc : {"idle", "lock", "read", "reread", "credits", "call", "save"},
   seen : Documents, credits : Notes, next : BOOLEAN, token : Nat]

(* Mutated: the panel's switch does not take the lock. *)
LockedButToggle == {"sync", "revive", "delete"}

(* The operations that run from checkinLockFor to its release. *)
Locked == {"toggle", "sync", "revive", "delete"}

FirstStep(op) ==
  CASE op \in Locked -> "lock"
    [] op = "login" -> "save"
    [] OTHER -> "read"

(* Who parked a document that a start finds on disk. *)
ParkedBy(d) ==
  IF ~d.exists \/ ~d.disabled THEN "none"
  ELSE IF d.reason = "manual" THEN "manual"
  ELSE IF d.note = "dead" THEN "dead"
  ELSE IF LegacyExhausted(d) THEN "exhausted"
  ELSE "host"

AuthInit ==
  /\ doc \in Found
  /\ lock = None
  /\ work = [w \in Workers |-> IdleWork]
  /\ remembered = None
  /\ parked = ParkedBy(doc)
  /\ deleted = FALSE
  /\ issued = doc.token
  /\ stored = doc.token

(* The handler returns, by whatever path, and its deferred unlock runs. *)
Return(w) ==
  /\ work' = [work EXCEPT ![w] = IdleWork]
  /\ lock' = IF lock = w THEN None ELSE lock

(* A request, a tick or a reload starts an operation. *)
Begin(w, op) ==
  /\ work[w].pc = "idle"
  /\ op \in Writers
  /\ \E next \in IF op = "toggle" THEN BOOLEAN ELSE {FALSE},
        credits \in IF op = "sync" THEN Credits \cup {"unknown"}
                                    ELSE {"unknown"} :
       work' = [work EXCEPT ![w] =
                  [IdleWork EXCEPT !.op = op, !.pc = FirstStep(op),
                                   !.next = next, !.credits = credits]]
  /\ UNCHANGED <<doc, lock, remembered, history>>

Acquire(w) ==
  /\ work[w].pc = "lock"
  /\ lock = None
  /\ lock' = w
  /\ work' = [work EXCEPT ![w].pc = "read"]
  /\ UNCHANGED <<doc, remembered, history>>

(* syncAuthNote: nothing to write, or it was written moments ago. *)
Unchanged(d, credits) ==
  remembered = [disabled |-> d.disabled, note |-> NoteOf(credits, d.note)]

(* reenableAuthChanged looks again once it holds the lock. *)
RevivesRead(d) == LegacyExhausted(d)

(* Adoption is for files that are not of this provider yet. *)
Adopts(d) == d.type = "legacy"

(* What a goroutine goes on to once it has read the document; "" when it   *)
(* has nothing to do.                                                      *)
AfterRead(op, credits) ==
  CASE op = "sync" -> IF Unchanged(doc, credits) THEN "" ELSE "save"
    [] op = "revive" -> IF RevivesRead(doc) THEN "save" ELSE ""
    [] op = "adopt" -> IF Adopts(doc) THEN "save" ELSE ""
    [] op \in {"toggle", "rename"} -> "reread"
    [] op = "reconcile" -> "credits"
    [] op \in {"keepalive", "reregister"} -> "call"
    [] op = "delete" -> "save"

(* host.auth.get.  A missing file is an error. *)
Read(w) ==
  LET next == AfterRead(work[w].op, work[w].credits) IN
    /\ work[w].pc = "read"
    /\ IF doc.exists /\ next # ""
         THEN /\ work' = [work EXCEPT ![w].pc = next, ![w].seen = doc]
              /\ lock' = lock
         ELSE Return(w)
    /\ UNCHANGED <<doc, remembered, history>>

(* The second host.auth.get of an operation: existingNoteCredits of the    *)
(* switch and the rename, the physical document of persistAuthTokens.      *)
(* existingNoteCredits answers no segment when the file is gone.           *)
Reread(w) ==
  /\ work[w].pc = "reread"
  /\ IF work[w].op = "keepalive"
       THEN IF doc.exists
              THEN /\ work' = [work EXCEPT ![w].pc = "save", ![w].seen = doc]
                   /\ lock' = lock
              ELSE Return(w)
       ELSE /\ work' = [work EXCEPT
                          ![w].pc = "save",
                          ![w].seen.note = IF doc.exists THEN doc.note
                                                         ELSE "unknown"]
            /\ lock' = lock
  /\ UNCHANGED <<doc, remembered, history>>

(* reconcileOneAccount, once its query for the credits has answered: what  *)
(* it does follows from the document it read before the query.             *)
Decide(w, credits) ==
  LET seen == work[w].seen IN
    /\ work[w].pc = "credits"
    /\ IF credits = "unknown" \/ (seen.disabled /\ seen.note = "dead")
         THEN Return(w)
         ELSE /\ work' = [work EXCEPT
                            ![w].pc = "lock", ![w].credits = credits,
                            ![w].op = IF LegacyExhausted(seen)
                                        THEN "revive" ELSE "sync"]
              /\ lock' = lock
    /\ UNCHANGED <<doc, remembered, history>>

(* Mutated: the pair is not put into the document. *)
NewPairUnkept(w) ==
  /\ work[w].pc = "call" /\ work[w].op = "keepalive"
  /\ issued < MaxToken
  /\ issued' = issued + 1
  /\ work' = [work EXCEPT ![w].pc = "reread",
                         ![w].token = work[w].seen.token]
  /\ UNCHANGED <<doc, lock, remembered, parked, deleted, stored>>

(* The token refresh answers with a new pair. *)
NewPair(w) ==
  /\ work[w].pc = "call" /\ work[w].op = "keepalive"
  /\ issued < MaxToken
  /\ issued' = issued + 1
  /\ work' = [work EXCEPT ![w].pc = "reread", ![w].token = issued + 1]
  /\ UNCHANGED <<doc, lock, remembered, parked, deleted, stored>>

(* The account's catalog has been read again, and its file is to be saved. *)
Catalogued(w) ==
  /\ work[w].pc = "call" /\ work[w].op = "reregister"
  /\ work' = [work EXCEPT ![w].pc = "save"]
  /\ UNCHANGED <<doc, lock, remembered, history>>

(* What the goroutine saves: the document it read, with its change. *)
Written(job) ==
  CASE job.op = "toggle" -> SetDisabled(job.seen, job.next, job.seen.note)
    [] job.op = "sync" -> Noted(job.seen, job.credits)
    [] job.op = "revive" -> Reenabled(job.seen, job.credits)
    [] job.op = "delete" -> Missing
    [] job.op = "rename" -> Renamed(job.seen)
    [] job.op = "keepalive" -> Refreshed(job.seen, job.token)
    [] job.op = "adopt" -> Adopted(job.seen)
    [] job.op = "reregister" -> Reregistered(job.seen)
    [] job.op = "login" -> LoggedIn(issued + 1)

(* Who has the account out of rotation once the write is done: only the    *)
(* switch, a login, a delete and the lifecycle's restoration change it.    *)
ParkedAfter(job) ==
  CASE job.op = "toggle" -> IF job.next THEN "manual" ELSE "none"
    [] job.op \in {"login", "delete"} -> "none"
    [] job.op = "revive" /\ parked = "exhausted" -> "none"
    [] OTHER -> parked

(* host.auth.save, or the removal of the file, and the return. *)
Save(w) ==
  LET op == work[w].op
      written == Written(work[w])
      newest == IF op = "login" THEN issued + 1 ELSE issued
  IN /\ work[w].pc = "save"
     /\ newest <= MaxToken
     /\ doc' = written
     /\ remembered' = IF op \in {"sync", "revive"}
                        THEN [disabled |-> written.disabled,
                              note |-> written.note]
                        ELSE remembered
     /\ parked' = ParkedAfter(work[w])
     /\ deleted' = CASE op = "delete" -> TRUE
                     [] op = "login" -> FALSE
                     [] OTHER -> deleted
     /\ issued' = newest
     /\ stored' = IF op \in {"login", "keepalive"} THEN newest ELSE stored
     /\ Return(w)

(* A host call or the refresh fails, and the operation gives up.  A        *)
(* refresh refused because the session is dead is no exception:            *)
(* refreshCall hands its caller no body with an error, so nothing tells    *)
(* markSessionDead.                                                        *)
GiveUp(w) ==
  /\ work[w].pc \in {"read", "reread", "call", "save"}
  /\ Return(w)
  /\ UNCHANGED <<doc, remembered, history>>

(* The remembered note has outlived lifecycleSaveTTL, or was pruned. *)
Forget ==
  /\ remembered # None
  /\ remembered' = None
  /\ UNCHANGED <<doc, lock, work, history>>

(* CPA's own switch sets the flag of the file and records no reason. *)
HostSets(disabled) ==
  /\ HostParks
  /\ doc.exists /\ doc.disabled # disabled
  /\ doc' = [doc EXCEPT !.disabled = disabled]
  /\ parked' = IF disabled THEN "host" ELSE "none"
  /\ UNCHANGED <<lock, work, remembered, deleted, issued, stored>>

(* The process dies; the file is all that is left of it. *)
Restart ==
  /\ work' = [w \in Workers |-> IdleWork]
  /\ lock' = None
  /\ remembered' = None
  /\ UNCHANGED <<doc, history>>

AuthNext ==
  \/ \E w \in Workers, op \in Operations : Begin(w, op)
  \/ \E w \in Workers :
       \/ Acquire(w) \/ Read(w) \/ Reread(w)
       \/ \E credits \in Credits \cup {"unknown"} : Decide(w, credits)
       \/ NewPair(w) \/ Catalogued(w)
       \/ Save(w) \/ GiveUp(w)
  \/ Forget
  \/ \E disabled \in BOOLEAN : HostSets(disabled)
  \/ Restart

AuthSpec == AuthInit /\ [][AuthNext]_vars
-----------------------------------------------------------------------------
(* An account the operator has parked (by the panel's switch or the        *)
(* host's), or whose session is dead, stays out of rotation until the      *)
(* operator restores it or logs in again: no write made from a document    *)
(* read earlier, no restoration and no restart of the plugin revives it.   *)
ParkedStaysParked ==
  doc.exists /\ parked \in {"manual", "host", "dead"} => doc.disabled

(* The plugin takes no account out of rotation by itself: a document that  *)
(* is disabled was parked by someone, and nobody has restored it since.    *)
OnlyParkedIsDisabled == doc.exists /\ doc.disabled => parked # "none"

(* The intent recorded with a manual disable stays with it, through every  *)
(* rewrite of the document.                                                *)
ReasonKept ==
  doc.exists /\ parked = "manual" => doc.reason = "manual"

(* An account that was deleted exists again only after a login: no         *)
(* goroutine that read its file before writes it back.                     *)
DeletedStaysDeleted == deleted => ~doc.exists

(* No write puts back a token pair older than one already saved: upstream  *)
(* has rotated it away.                                                    *)
TokensKept == doc.exists => doc.token >= stored

(* The operations under the lock are each a step of AuthDocument: what one *)
(* of them writes is its change to the file as it is at that moment.       *)
DocSpec == Spec
=============================================================================
