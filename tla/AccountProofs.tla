---------------------------- MODULE AccountProofs ----------------------------
(***************************************************************************)
(* Theorems about what is held of an account, for any number of            *)
(* goroutines, operations and failures: its file under the account's lock  *)
(* (AuthFile), the names the file moves between (AuthNames), and the cache  *)
(* of upstream's answers, for every capacity, TTL, grace period and length  *)
(* of the day (AccountCache).                                              *)
(*                                                                         *)
(* LockedOnly is what the run Account explores: the panel's switch,        *)
(* delete, note and reconciliation, without the writers that do not take   *)
(* the lock (README.md says what those overwrite), from files whose flag   *)
(* someone accounts for.                                                   *)
(***************************************************************************)
EXTENDS AuthFile, AuthNames, AccountCache, FiniteSetTheorems, TLAPS

LockedOnly ==
  /\ Writers \subseteq {"toggle", "sync", "reconcile", "delete"}
  /\ ~HostParks
  /\ Found \subseteq Documents
  /\ \A d \in Found : d.exists /\ d.disabled => d.reason = "manual" \/ LegacyExhausted(d)

UnderLock == {"none", "toggle", "sync", "reconcile", "delete", "revive"}

(* The types that the argument needs. *)
Typed ==
  /\ doc \in Documents
  /\ lock \in Workers \cup {None}
  /\ work \in [Workers -> Works]
  /\ parked \in {"none", "manual", "exhausted"}
  /\ deleted \in BOOLEAN

(* How far each operation has got, and that it holds the lock by then. *)
Working(w) ==
  /\ work[w].op \in UnderLock
  /\ work[w].pc \in {"idle", "lock", "read", "reread", "credits", "save"}
  /\ work[w].pc = "lock" => work[w].op \in Locked
  /\ work[w].pc = "read" => work[w].op \in Locked \cup {"reconcile"}
  /\ work[w].pc = "reread" => work[w].op = "toggle"
  /\ work[w].pc = "save" => work[w].op \in Locked
  /\ work[w].pc = "credits" => work[w].op = "reconcile"
  /\ work[w].op = "revive" => work[w].credits \in Credits
  /\ work[w].op = "sync" => work[w].credits \in Credits \cup {"unknown"}

Holding(w) ==
  work[w].pc \in {"read", "reread", "save"} /\ work[w].op \in Locked => lock = w

(* What an operation is about to save, it has read from the file as it is. *)
Fresh(w) ==
  work[w].pc \in {"reread", "save"} =>
    /\ doc.exists /\ work[w].seen = doc
    /\ work[w].op = "revive" /\ work[w].pc = "save" => LegacyExhausted(doc)

(* The flag on disk is accounted for. *)
Accounted ==
  /\ deleted => ~doc.exists
  /\ doc.exists /\ doc.disabled => parked # "none"
  /\ doc.exists /\ parked = "manual" => doc.disabled /\ doc.reason = "manual"

FileInv == Typed /\ (\A w \in Workers : Working(w) /\ Holding(w) /\ Fresh(w)) /\ Accounted

-----------------------------------------------------------------------------
(* A start finds nothing at work, and accounts for the file. *)
LEMMA AuthInitially == ASSUME LockedOnly, AuthInit PROVE FileInv
<1>. USE DEF LockedOnly, AuthInit
<1>1. IdleWork \in Works
  BY DEF IdleWork, Works, Missing, Documents, Notes
<1>2. Typed
  BY <1>1 DEF Typed, ParkedBy, LegacyExhausted, Documents
<1>3. \A w \in Workers : Working(w) /\ Holding(w) /\ Fresh(w)
  BY DEF IdleWork, Working, Holding, Fresh, UnderLock
<1>4. Accounted
  BY DEF Accounted, ParkedBy, LegacyExhausted, Documents
<1>. QED
  BY <1>2, <1>3, <1>4 DEF FileInv

(* An operation that only moves on, without a write: it stays in step if   *)
(* its own new state is, and the lock goes to it or to nobody.             *)
LEMMA MovesOn ==
  ASSUME FileInv, NEW w \in Workers, NEW todo \in Works,
         work' = [work EXCEPT ![w] = todo],
         doc' = doc, parked' = parked, deleted' = deleted,
         \/ lock' = lock
         \/ lock = None /\ lock' = w
         \/ lock = w /\ lock' = None,
         Working(w)', Holding(w)', Fresh(w)'
  PROVE  FileInv'
<1>. USE DEF FileInv
<1>1. Typed'
  BY DEF Typed
<1>2. ASSUME NEW v \in Workers PROVE (Working(v) /\ Holding(v) /\ Fresh(v))'
  <2>1. CASE v = w
    BY <2>1
  <2>2. CASE v # w
    <3>1. work'[v] = work[v]
      BY <2>2 DEF Typed
    <3>2. Working(v)'
      BY <3>1 DEF Working
    <3>3. Holding(v)'
      BY <2>2, <3>1, AuthFileAssumption DEF Holding, Working
    <3>4. Fresh(v)'
      BY <3>1 DEF Fresh
    <3>. QED
      BY <3>2, <3>3, <3>4
  <2>. QED
    BY <2>1, <2>2
<1>3. Accounted'
  BY DEF Accounted
<1>. QED
  BY <1>1, <1>2, <1>3

(* A return leaves nothing at work. *)
LEMMA Returns ==
  ASSUME FileInv, NEW w \in Workers, Return(w),
         doc' = doc, parked' = parked, deleted' = deleted
  PROVE  FileInv'
<1>1. IdleWork \in Works
  BY DEF IdleWork, Works, Missing, Documents, Notes
<1>2. work'[w] = IdleWork
  BY DEF Return, FileInv, Typed
<1>3. Working(w)' /\ Holding(w)' /\ Fresh(w)'
  BY <1>2 DEF Working, Holding, Fresh, IdleWork, UnderLock
<1>. QED
  BY <1>1, <1>3, MovesOn DEF Return

(* The write of a holder of the lock: no other goroutine has read, and the *)
(* document it read is the one on disk.                                    *)
LEMMA Saves ==
  ASSUME LockedOnly, FileInv, NEW w \in Workers, Save(w)
  PROVE  FileInv'
<1>. USE DEF FileInv
<1>. DEFINE todo == work[w]
<1>1. /\ todo \in Works /\ todo.pc = "save" /\ todo.op \in Locked /\ lock = w
      /\ todo.seen = doc /\ doc.exists
      /\ doc' = Written(todo) /\ parked' = ParkedAfter(todo)
      /\ work' = [work EXCEPT ![w] = IdleWork] /\ lock' = None
  BY DEF Save, Return, Typed, Working, Holding, Fresh
<1>2. deleted' = (IF todo.op = "delete" THEN TRUE ELSE deleted)
  BY <1>1 DEF Save, Locked
<1>3. IdleWork \in Works
  BY DEF IdleWork, Works, Missing, Documents, Notes
<1>4. Typed' /\ Accounted'
  <2>1. CASE todo.op = "toggle"
    <3>1. doc' = SetDisabled(doc, todo.next, doc.note)
      BY <1>1, <2>1 DEF Written
    <3>2. parked' = IF todo.next THEN "manual" ELSE "none"
      BY <1>1, <2>1 DEF ParkedAfter
    <3>3. todo.next \in BOOLEAN
      BY <1>1 DEF Works
    <3>. QED
      BY <1>1, <1>2, <1>3, <2>1, <3>1, <3>2, <3>3
      DEF Typed, Accounted, SetDisabled, Documents
  <2>2. CASE todo.op = "sync"
    <3>1. doc' = Noted(doc, todo.credits)
      BY <1>1, <2>2 DEF Written
    <3>2. parked' = parked
      BY <1>1, <2>2 DEF ParkedAfter
    <3>3. todo.credits \in Notes
      BY <1>1 DEF Works
    <3>. QED
      BY <1>1, <1>2, <1>3, <2>2, <3>1, <3>2, <3>3
      DEF Typed, Accounted, Noted, NoteOf, Documents
  <2>3. CASE todo.op = "revive"
    <3>1. doc' = Reenabled(doc, todo.credits)
      BY <1>1, <2>3 DEF Written
    <3>2. LegacyExhausted(doc)
      BY <1>1, <2>3 DEF Fresh
    <3>3. parked = "exhausted" /\ parked' = "none"
      BY <1>1, <2>3, <3>2 DEF ParkedAfter, LegacyExhausted, Accounted, Typed
    <3>4. todo.credits \in Notes
      BY <1>1 DEF Works
    <3>. QED
      BY <1>1, <1>2, <1>3, <2>3, <3>1, <3>3, <3>4
      DEF Typed, Accounted, Reenabled, Documents
  <2>4. CASE todo.op = "delete"
    <3>1. doc' = Missing /\ parked' = "none"
      BY <1>1, <2>4 DEF Written, ParkedAfter
    <3>. QED
      BY <1>1, <1>2, <1>3, <2>4, <3>1
      DEF Typed, Accounted, Missing, Documents, Notes
  <2>. QED
    BY <1>1, <2>1, <2>2, <2>3, <2>4 DEF Locked
<1>5. ASSUME NEW v \in Workers PROVE (Working(v) /\ Holding(v) /\ Fresh(v))'
  <2>1. CASE v = w
    <3>1. work'[v] = IdleWork
      BY <1>1, <2>1 DEF Typed
    <3>. QED
      BY <3>1 DEF Working, Holding, Fresh, IdleWork, UnderLock
  <2>2. CASE v # w
    <3>1. work'[v] = work[v]
      BY <1>1, <2>2 DEF Typed
    <3>2. Working(v) /\ ~(work[v].pc \in {"read", "reread", "save"} /\ work[v].op \in Locked)
      BY <1>1, <2>2 DEF Holding
    <3>3. work[v].pc \notin {"reread", "save"}
      BY <3>2 DEF Working, Locked
    <3>. QED
      BY <3>1, <3>2, <3>3 DEF Working, Holding, Fresh
  <2>. QED
    BY <2>1, <2>2
<1>. QED
  BY <1>4, <1>5

(* What each step that does not write makes of its goroutine. *)
LEMMA WorkSteps ==
  ASSUME LockedOnly, FileInv, NEW w \in Workers,
         \/ \E op \in Operations : Begin(w, op)
         \/ Acquire(w) \/ Read(w) \/ Reread(w)
         \/ \E credits \in Credits \cup {"unknown"} : Decide(w, credits)
         \/ GiveUp(w)
  PROVE  FileInv'
<1>. USE DEF FileInv
<1>0. /\ work[w] \in Works /\ IdleWork \in Works
      /\ Working(w) /\ Holding(w) /\ Fresh(w)
  BY DEF Typed, IdleWork, Works, Missing, Documents, Notes
<1>1. ASSUME NEW op \in Operations, Begin(w, op) PROVE FileInv'
  <2>1. PICK next \in (IF op = "toggle" THEN BOOLEAN ELSE {FALSE}),
             credits \in (IF op = "sync" THEN Credits \cup {"unknown"} ELSE {"unknown"}) :
               work' = [work EXCEPT ![w] =
                          [IdleWork EXCEPT !.op = op, !.pc = FirstStep(op),
                                           !.next = next, !.credits = credits]]
    BY <1>1 DEF Begin
  <2>. DEFINE todo == [IdleWork EXCEPT !.op = op, !.pc = FirstStep(op),
                                      !.next = next, !.credits = credits]
  <2>2. op \in {"toggle", "sync", "reconcile", "delete"}
    BY <1>1 DEF Begin, LockedOnly
  <2>3. FirstStep(op) = (IF op = "reconcile" THEN "read" ELSE "lock")
    BY <2>2 DEF FirstStep, Locked
  <2>4. credits \in Notes /\ (op = "sync" => credits \in Credits \cup {"unknown"})
    BY <2>1, CreditsAssumption DEF Notes
  <2>5. todo \in Works
    BY <1>0, <2>1, <2>2, <2>3, <2>4 DEF Works, Operations
  <2>6. work'[w] = todo
    BY <2>1 DEF Typed
  <2>7. /\ work'[w].op = op /\ work'[w].credits = credits
        /\ work'[w].pc = (IF op = "reconcile" THEN "read" ELSE "lock")
    BY <2>3, <2>6 DEF IdleWork
  <2>8. Working(w)'
    BY <2>2, <2>4, <2>7 DEF Working, Locked, UnderLock
  <2>9. Holding(w)' /\ Fresh(w)'
    BY <2>2, <2>7 DEF Holding, Fresh, Locked
  <2>. HIDE DEF todo
  <2>. QED
    BY <1>1, <2>1, <2>5, <2>8, <2>9, MovesOn DEF Begin, history, todo
<1>2. CASE Acquire(w)
  <2>. DEFINE todo == [work[w] EXCEPT !.pc = "read"]
  <2>1. todo \in Works
    BY <1>0 DEF Works
  <2>2. work' = [work EXCEPT ![w] = todo] /\ work'[w] = todo /\ doc' = doc /\ lock' = w
    BY <1>2 DEF Acquire, Typed
  <2>3. Working(w)' /\ Holding(w)' /\ Fresh(w)'
    BY <1>0, <1>2, <2>2 DEF Acquire, Working, Holding, Fresh, Works
  <2>. HIDE DEF todo
  <2>. QED
    BY <1>2, <2>1, <2>2, <2>3, MovesOn DEF Acquire, history
<1>3. CASE Read(w)
  <2>. DEFINE next == AfterRead(work[w].op, work[w].credits)
              todo == [work[w] EXCEPT !.pc = next, !.seen = doc]
  <2>1. CASE doc.exists /\ next # ""
    <3>1. work[w].pc = "read" /\ work[w].op \in Locked \cup {"reconcile"}
      BY <1>0, <1>3 DEF Read, Working
    <3>2. /\ next \in {"save", "reread", "credits"}
          /\ next = "reread" => work[w].op = "toggle"
          /\ next = "credits" <=> work[w].op = "reconcile"
          /\ work[w].op = "revive" => LegacyExhausted(doc)
      BY <2>1, <3>1 DEF AfterRead, Locked, RevivesRead
    <3>3. work' = [work EXCEPT ![w].pc = next, ![w].seen = doc]
          /\ lock' = lock /\ doc' = doc
      BY <1>3, <2>1 DEF Read
    <3>4. work' = [work EXCEPT ![w] = todo] /\ work'[w] = todo
      BY <3>3 DEF Typed
    <3>5. todo \in Works
      BY <1>0, <3>2 DEF Works, Typed
    <3>6. Working(w)' /\ Holding(w)' /\ Fresh(w)'
      BY <1>0, <2>1, <3>1, <3>2, <3>3, <3>4
      DEF Working, Holding, Fresh, Works, Locked, UnderLock
    <3>. HIDE DEF todo
    <3>. QED
      BY <1>3, <3>3, <3>4, <3>5, <3>6, MovesOn DEF Read, history
  <2>2. CASE ~(doc.exists /\ next # "")
    BY <1>3, <2>2, Returns DEF Read, history
  <2>. QED
    BY <2>1, <2>2
<1>4. CASE Reread(w)
  <2>. DEFINE todo == [work[w] EXCEPT !.pc = "save", !.seen.note = doc.note]
  <2>1. /\ work[w].pc = "reread" /\ work[w].op = "toggle"
        /\ doc.exists /\ work[w].seen = doc
    BY <1>0, <1>4 DEF Reread, Working, Fresh
  <2>2. work' = [work EXCEPT ![w] = todo] /\ work'[w] = todo
        /\ lock' = lock /\ doc' = doc
    BY <1>4, <2>1 DEF Reread, Typed
  <2>3. todo.seen = doc /\ todo.pc = "save" /\ todo.op = "toggle" /\ todo \in Works
    BY <1>0, <2>1 DEF Works, Typed, Documents
  <2>4. Working(w)' /\ Holding(w)' /\ Fresh(w)'
    BY <1>0, <2>1, <2>2, <2>3 DEF Working, Holding, Fresh, Locked, UnderLock
  <2>. HIDE DEF todo
  <2>. QED
    BY <1>4, <2>2, <2>3, <2>4, MovesOn DEF Reread, history
<1>5. ASSUME NEW credits \in Credits \cup {"unknown"}, Decide(w, credits) PROVE FileInv'
  <2>. DEFINE seen == work[w].seen
              op == IF LegacyExhausted(seen) THEN "revive" ELSE "sync"
              todo == [work[w] EXCEPT !.pc = "lock", !.credits = credits, !.op = op]
  <2>1. CASE credits = "unknown" \/ (seen.disabled /\ seen.note = "dead")
    BY <1>5, <2>1, Returns DEF Decide, history
  <2>2. CASE ~(credits = "unknown" \/ (seen.disabled /\ seen.note = "dead"))
    <3>1. work' = [work EXCEPT ![w] = todo] /\ work'[w] = todo
          /\ lock' = lock /\ doc' = doc
      BY <1>5, <2>2 DEF Decide, Typed
    <3>2. credits \in Credits /\ credits \in Notes
      BY <1>5, <2>2, CreditsAssumption DEF Notes
    <3>3. todo \in Works
      BY <1>0, <3>2 DEF Works, Operations
    <3>4. /\ todo.pc = "lock" /\ todo.op \in {"revive", "sync"}
          /\ todo.credits = credits
      BY <1>0 DEF Works
    <3>5. Working(w)' /\ Holding(w)' /\ Fresh(w)'
      BY <3>1, <3>2, <3>4 DEF Working, Holding, Fresh, Locked, UnderLock
    <3>. HIDE DEF todo
    <3>. QED
      BY <1>5, <3>1, <3>3, <3>5, MovesOn DEF Decide, history
  <2>. QED
    BY <2>1, <2>2
<1>6. CASE GiveUp(w)
  BY <1>6, Returns DEF GiveUp, history
<1>. QED
  BY <1>1, <1>2, <1>3, <1>4, <1>5, <1>6

(* A restart empties the process and leaves the file. *)
LEMMA Restarts == ASSUME FileInv, Restart PROVE FileInv'
<1>. USE DEF FileInv
<1>1. IdleWork \in Works
  BY DEF IdleWork, Works, Missing, Documents, Notes
<1>2. Typed' /\ Accounted'
  BY <1>1 DEF Restart, history, Typed, Accounted
<1>3. \A w \in Workers : (Working(w) /\ Holding(w) /\ Fresh(w))'
  BY DEF Restart, IdleWork, Working, Holding, Fresh, UnderLock
<1>. QED
  BY <1>2, <1>3

(* Every step keeps the inductive invariant. *)
LEMMA AuthStep == ASSUME LockedOnly, FileInv, [AuthNext]_vars PROVE FileInv'
<1>1. ASSUME NEW w \in Workers, NewPair(w) \/ Catalogued(w)
      PROVE  FALSE
  BY <1>1 DEF FileInv, Working, UnderLock, NewPair, Catalogued
<1>2. ASSUME NEW disabled \in BOOLEAN, HostSets(disabled) PROVE FALSE
  BY <1>2 DEF LockedOnly, HostSets
<1>3. CASE Forget \/ UNCHANGED vars
  BY <1>3 DEF Forget, vars, history, FileInv, Typed, Working, Holding, Fresh, Accounted
<1>. QED
  BY <1>1, <1>2, <1>3, Saves, WorkSteps, Restarts DEF AuthNext

(* The inductive invariant of the operations under the lock. *)
LEMMA AuthInductive == ASSUME LockedOnly PROVE AuthSpec => []FileInv
<1>1. AuthInit => FileInv
  BY AuthInitially
<1>2. FileInv /\ [AuthNext]_vars => FileInv'
  BY AuthStep
<1>. QED
  BY <1>1, <1>2, PTL DEF AuthSpec

-----------------------------------------------------------------------------
(* No account that the operator has parked is put back into rotation by    *)
(* the operations under the lock, however many run and fail.               *)
THEOREM ParkedStands == ASSUME LockedOnly PROVE AuthSpec => []ParkedStaysParked
<1>1. FileInv => ParkedStaysParked
  BY DEF FileInv, Typed, Accounted, ParkedStaysParked
<1>. QED
  BY <1>1, AuthInductive, PTL

(* None of them takes an account out of rotation that nobody parked. *)
THEOREM NoneParkedAlone == ASSUME LockedOnly PROVE AuthSpec => []OnlyParkedIsDisabled
<1>1. FileInv => OnlyParkedIsDisabled
  BY DEF FileInv, Accounted, OnlyParkedIsDisabled
<1>. QED
  BY <1>1, AuthInductive, PTL

(* The recorded reason of a manual disable survives all of them. *)
THEOREM ReasonStands == ASSUME LockedOnly PROVE AuthSpec => []ReasonKept
<1>1. FileInv => ReasonKept
  BY DEF FileInv, Accounted, ReasonKept
<1>. QED
  BY <1>1, AuthInductive, PTL

(* A deleted account is not written back by any of them. *)
THEOREM DeletedStands == ASSUME LockedOnly PROVE AuthSpec => []DeletedStaysDeleted
<1>1. FileInv => DeletedStaysDeleted
  BY DEF FileInv, Accounted, DeletedStaysDeleted
<1>. QED
  BY <1>1, AuthInductive, PTL

(* Each of their steps is one of AuthDocument's, on the file as it stands. *)
LEMMA StepIsWhole == ASSUME LockedOnly, FileInv, [AuthNext]_vars PROVE [Next]_doc
<1>1. ASSUME NEW w \in Workers, Save(w) PROVE Next
  <2>. DEFINE todo == work[w]
  <2>1. /\ todo \in Works /\ todo.op \in Locked /\ Working(w)
        /\ todo.seen = doc /\ doc.exists /\ doc' = Written(todo)
        /\ todo.op = "revive" => LegacyExhausted(doc)
    BY <1>1 DEF Save, FileInv, Typed, Working, Holding, Fresh
  <2>2. CASE todo.op = "toggle"
    <3>1. doc' = SetDisabled(doc, todo.next, doc.note) /\ todo.next \in BOOLEAN
      BY <2>1, <2>2 DEF Written, Works
    <3>. QED
      BY <2>1, <3>1 DEF Next, Set
  <2>3. CASE todo.op = "sync"
    <3>1. doc' = Noted(doc, todo.credits) /\ todo.credits \in Credits \cup {"unknown"}
      BY <2>1, <2>3 DEF Written, Working
    <3>. QED
      BY <2>1, <3>1 DEF Next, Note
  <2>4. CASE todo.op = "revive"
    <3>1. doc' = Reenabled(doc, todo.credits) /\ todo.credits \in Credits
      BY <2>1, <2>4 DEF Written, Working
    <3>. QED
      BY <2>1, <2>4, <3>1 DEF Next, Reenable
  <2>5. CASE todo.op = "delete"
    BY <2>1, <2>5 DEF Written, Next, Remove
  <2>. QED
    BY <2>1, <2>2, <2>3, <2>4, <2>5 DEF Locked
<1>2. ASSUME NEW w \in Workers, NewPair(w) \/ Catalogued(w)
      PROVE  FALSE
  BY <1>2 DEF FileInv, Working, UnderLock, NewPair, Catalogued
<1>3. ASSUME NEW disabled \in BOOLEAN, HostSets(disabled) PROVE FALSE
  BY <1>3 DEF LockedOnly, HostSets
<1>. QED
  BY <1>1, <1>2, <1>3
  DEF AuthNext, Begin, Acquire, Read, Reread, Decide, GiveUp, Forget, Restart, vars

(* So the operations under the lock implement AuthDocument. *)
THEOREM LockImplements == ASSUME LockedOnly PROVE AuthSpec => DocSpec
<1>1. AuthInit => Init
  BY DEF LockedOnly, AuthInit, Init
<1>2. FileInv /\ [AuthNext]_vars => [Next]_doc
  BY StepIsWhole
<1>. QED
  BY <1>1, <1>2, AuthInductive, PTL DEF AuthSpec, DocSpec, Spec

-----------------------------------------------------------------------------
(* One operation at a time, from any file and with the host's own switch:  *)
(* what the run AuthSerial explores.  Two that overlap do put back an      *)
(* older pair (README.md says which).                                      *)
OneAtATime ==
  /\ Found \subseteq Documents
  /\ \A v, w \in Workers : v = w

(* What each operation is doing at each of its steps. *)
StepOf(j) ==
  /\ j.pc = "lock" => j.op \in Locked
  /\ j.pc = "read" => j.op \in Operations \cup {"revive"} /\ j.op # "login"
  /\ j.pc = "reread" => j.op \in {"toggle", "rename", "keepalive"}
  /\ j.pc = "credits" => j.op = "reconcile"
  /\ j.pc = "call" => j.op \in {"keepalive", "reregister"}
  /\ j.pc = "save" => j.op \in Operations \cup {"revive"} /\ j.op # "reconcile"

(* The pair it carries to its write is no older than the one saved: a      *)
(* refresh carries the newest issued, the others what they have read.      *)
CarriesNewest(j) ==
  j.pc \in {"reread", "save"} =>
    IF j.op = "keepalive" THEN j.token >= issued
    ELSE j.op = "login" \/ j.seen.token >= stored

(* A registration saves the document it read before the catalog's call. *)
CarriesRead(j) == j.pc = "call" /\ j.op = "reregister" => j.seen.token >= stored

SerialInv ==
  /\ doc \in Documents
  /\ work \in [Workers -> Works]
  /\ issued \in Nat /\ stored \in Nat /\ stored <= issued
  /\ doc.exists => doc.token >= stored
  /\ \A w \in Workers : StepOf(work[w]) /\ CarriesNewest(work[w]) /\ CarriesRead(work[w])

LEMMA IdleIsWork ==
  /\ IdleWork \in Works
  /\ StepOf(IdleWork) /\ CarriesNewest(IdleWork)' /\ CarriesNewest(IdleWork)
  /\ CarriesRead(IdleWork) /\ CarriesRead(IdleWork)'
BY DEF IdleWork, Works, Missing, Documents, Notes, StepOf, CarriesNewest, CarriesRead

LEMMA SerialInitially == ASSUME OneAtATime, AuthInit PROVE SerialInv
<1>1. doc \in Documents /\ issued = doc.token /\ stored = doc.token /\ doc.token \in Nat
  BY DEF OneAtATime, AuthInit, Documents
<1>2. work \in [Workers -> Works] /\ \A w \in Workers : work[w] = IdleWork
  BY IdleIsWork DEF AuthInit
<1>. QED
  BY <1>1, <1>2, IdleIsWork DEF SerialInv

(* A step that writes nothing and leaves its goroutine in order. *)
LEMMA SerialMove ==
  ASSUME OneAtATime, SerialInv, NEW w \in Workers, NEW j \in Works,
         work' = [work EXCEPT ![w] = j], UNCHANGED <<doc, stored>>,
         issued' \in Nat, issued' >= issued,
         StepOf(j), CarriesNewest(j)', CarriesRead(j)'
  PROVE  SerialInv'
<1>1. work' \in [Workers -> Works] /\ \A v \in Workers : work'[v] = j
  BY DEF SerialInv, OneAtATime
<1>2. stored' <= issued'
  BY DEF SerialInv
<1>3. \A v \in Workers : (StepOf(work[v]) /\ CarriesNewest(work[v]) /\ CarriesRead(work[v]))'
  BY <1>1 DEF StepOf, CarriesNewest, CarriesRead
<1>. QED
  BY <1>1, <1>2, <1>3 DEF SerialInv

LEMMA SerialReturn ==
  ASSUME OneAtATime, SerialInv, NEW w \in Workers, Return(w), UNCHANGED <<doc, issued, stored>>
  PROVE  SerialInv'
<1>1. issued' \in Nat /\ issued' >= issued
  BY DEF SerialInv
<1>. QED
  BY <1>1, IdleIsWork, SerialMove DEF Return

(* What a write leaves on disk is a document, with a pair as new as the    *)
(* one recorded.                                                           *)
LEMMA SerialSave ==
  ASSUME OneAtATime, SerialInv, NEW w \in Workers, Save(w) PROVE SerialInv'
<1>. PICK j : j = work[w]
  OBVIOUS
<1>1. /\ j \in Works /\ j.pc = "save" /\ j.op \in Operations \cup {"revive"} /\ j.op # "reconcile"
      /\ j.seen \in Documents /\ j.credits \in Notes /\ j.next \in BOOLEAN /\ j.token \in Nat
      /\ issued \in Nat /\ stored \in Nat /\ stored <= issued
      /\ j.op = "keepalive" => j.token >= issued
      /\ j.op \notin {"keepalive", "login"} => j.seen.token >= stored
      /\ doc' = Written(j) /\ Return(w)
      /\ issued' = IF j.op = "login" THEN issued + 1 ELSE issued
      /\ stored' = IF j.op \in {"login", "keepalive"} THEN issued' ELSE stored
  BY DEF Save, SerialInv, StepOf, CarriesNewest, Works
<1>2. issued' \in Nat /\ stored' \in Nat /\ stored' <= issued'
  BY <1>1
<1>3. Written(j) \in Documents /\ (Written(j).exists => Written(j).token >= stored')
  <2>. PICK s : s = j.seen
    OBVIOUS
  <2>1. /\ s \in Documents /\ s.token \in Nat /\ s.disabled \in BOOLEAN /\ s.note \in Notes
        /\ "migrated" \in Notes /\ "unknown" \in Notes
    BY <1>1 DEF Documents, Notes
  <2>2. CASE j.op = "toggle"
    <3>1. Written(j) = SetDisabled(s, j.next, s.note) /\ stored' = stored
      BY <1>1, <2>2 DEF Written
    <3>. QED
      BY <1>1, <2>1, <2>2, <3>1 DEF SetDisabled, Documents
  <2>3. CASE j.op = "sync"
    <3>1. Written(j) = Noted(s, j.credits) /\ stored' = stored
      BY <1>1, <2>3 DEF Written
    <3>. QED
      BY <1>1, <2>1, <2>3, <3>1 DEF Noted, NoteOf, Documents
  <2>4. CASE j.op = "revive"
    <3>1. Written(j) = Reenabled(s, j.credits) /\ stored' = stored
      BY <1>1, <2>4 DEF Written
    <3>. QED
      BY <1>1, <2>1, <2>4, <3>1 DEF Reenabled, Documents
  <2>5. CASE j.op = "delete"
    BY <1>1, <2>5 DEF Written, Missing, Documents, Notes
  <2>6. CASE j.op = "rename"
    <3>1. Written(j) = Renamed(s) /\ stored' = stored
      BY <1>1, <2>6 DEF Written
    <3>. QED
      BY <1>1, <2>1, <2>6, <3>1 DEF Renamed, Rebuilt, Documents
  <2>7. CASE j.op = "keepalive"
    <3>1. Written(j) = Refreshed(s, j.token) /\ stored' = issued
      BY <1>1, <2>7 DEF Written
    <3>. QED
      BY <1>1, <2>1, <2>7, <3>1 DEF Refreshed, Rebuilt, Documents
  <2>8. CASE j.op = "adopt"
    <3>1. Written(j) = Adopted(s) /\ stored' = stored
      BY <1>1, <2>8 DEF Written
    <3>. QED
      BY <1>1, <2>1, <2>8, <3>1 DEF Adopted, Rebuilt, Documents
  <2>9. CASE j.op = "reregister"
    <3>1. Written(j) = Reregistered(s) /\ stored' = stored
      BY <1>1, <2>9 DEF Written
    <3>. QED
      BY <1>1, <2>1, <2>9, <3>1 DEF Reregistered, Documents
  <2>10. CASE j.op = "login"
    <3>1. Written(j) = LoggedIn(issued + 1) /\ stored' = issued + 1
      BY <1>1, <2>10 DEF Written
    <3>. QED
      BY <1>1, <2>1, <3>1 DEF LoggedIn, Rebuilt, Documents
  <2>. QED
    BY <1>1, <2>2, <2>3, <2>4, <2>5, <2>6, <2>7, <2>8, <2>9, <2>10 DEF Operations
<1>4. work' \in [Workers -> Works] /\ \A v \in Workers : work'[v] = IdleWork
  BY <1>1, IdleIsWork DEF Return, SerialInv, OneAtATime
<1>5. \A v \in Workers : (StepOf(work[v]) /\ CarriesNewest(work[v]) /\ CarriesRead(work[v]))'
  BY <1>4 DEF IdleWork, StepOf, CarriesNewest, CarriesRead
<1>. QED
  BY <1>1, <1>2, <1>3, <1>4, <1>5 DEF SerialInv

(* Every step keeps the invariant. *)
LEMMA SerialStep == ASSUME OneAtATime, SerialInv, [AuthNext]_vars PROVE SerialInv'
<1>1. ASSUME NEW w \in Workers, NEW op \in Operations, Begin(w, op) PROVE SerialInv'
  <2>1. PICK next \in (IF op = "toggle" THEN BOOLEAN ELSE {FALSE}),
             credits \in (IF op = "sync" THEN Credits \cup {"unknown"} ELSE {"unknown"}) :
               work' = [work EXCEPT ![w] =
                          [IdleWork EXCEPT !.op = op, !.pc = FirstStep(op),
                                           !.next = next, !.credits = credits]]
    BY <1>1 DEF Begin
  <2>. PICK j : j = [IdleWork EXCEPT !.op = op, !.pc = FirstStep(op),
                                     !.next = next, !.credits = credits]
    OBVIOUS
  <2>2. /\ FirstStep(op) \in {"lock", "read", "save"}
        /\ FirstStep(op) = "lock" => op \in Locked
        /\ FirstStep(op) = "save" <=> op = "login"
    BY DEF FirstStep, Locked
  <2>3. next \in BOOLEAN /\ credits \in Notes
    BY <2>1, CreditsAssumption DEF Notes
  <2>4. j \in Works /\ j.op = op /\ j.pc = FirstStep(op)
    BY <2>2, <2>3, IdleIsWork DEF IdleWork, Works
  <2>5. StepOf(j) /\ CarriesNewest(j)' /\ CarriesRead(j)'
    BY <2>2, <2>4 DEF StepOf, CarriesNewest, CarriesRead
  <2>6. UNCHANGED <<doc, issued, stored>> /\ issued' \in Nat /\ issued' >= issued
    BY <1>1 DEF Begin, history, SerialInv
  <2>. QED
    BY <2>1, <2>4, <2>5, <2>6, SerialMove
<1>2. ASSUME NEW w \in Workers, Acquire(w) PROVE SerialInv'
  <2>. PICK j : j = [work[w] EXCEPT !.pc = "read"]
    OBVIOUS
  <2>1. work[w] \in Works /\ StepOf(work[w]) /\ work[w].pc = "lock"
    BY <1>2 DEF Acquire, SerialInv
  <2>2. j \in Works /\ j.pc = "read" /\ j.op = work[w].op /\ j.op \in Locked
    BY <2>1 DEF Works, StepOf
  <2>3. StepOf(j) /\ CarriesNewest(j)' /\ CarriesRead(j)'
    BY <2>2 DEF StepOf, CarriesNewest, CarriesRead, Locked, Operations
  <2>4. /\ UNCHANGED <<doc, issued, stored>> /\ issued' \in Nat /\ issued' >= issued
        /\ work' = [work EXCEPT ![w] = j]
    BY <1>2 DEF Acquire, history, SerialInv
  <2>. QED
    BY <2>2, <2>3, <2>4, SerialMove
<1>3. ASSUME NEW w \in Workers, Read(w), ~Return(w) PROVE SerialInv'
  <2>. PICK next : next = AfterRead(work[w].op, work[w].credits)
    OBVIOUS
  <2>0. /\ work' = [work EXCEPT ![w].pc = next, ![w].seen = doc]
        /\ doc.exists /\ next # "" /\ work[w].pc = "read"
        /\ UNCHANGED <<doc, issued, stored>>
    BY <1>3 DEF Read, history
  <2>1. /\ work[w] \in Works /\ StepOf(work[w]) /\ doc \in Documents
        /\ stored \in Nat /\ doc.token >= stored /\ issued' \in Nat /\ issued' >= issued
    <3>1. doc.exists /\ issued' = issued
      BY <2>0
    <3>. QED
      BY <3>1 DEF SerialInv
  <2>2. /\ next \in {"save", "reread", "credits", "call"}
        /\ next = "reread" => work[w].op \in {"toggle", "rename"}
        /\ next = "credits" => work[w].op = "reconcile"
        /\ next = "call" => work[w].op \in {"keepalive", "reregister"}
        /\ next = "save" => work[w].op \in {"sync", "revive", "adopt", "delete"}
    BY <2>0, <2>1 DEF AfterRead, StepOf, Operations
  <2>. PICK j : j = [work[w] EXCEPT !.pc = next, !.seen = doc]
    OBVIOUS
  <2>3. j \in Works /\ j.pc = next /\ j.op = work[w].op /\ j.seen = doc
    BY <2>1, <2>2 DEF Works
  <2>4. StepOf(j) /\ CarriesNewest(j)' /\ CarriesRead(j)'
    BY <2>0, <2>1, <2>2, <2>3 DEF StepOf, CarriesNewest, CarriesRead, Operations
  <2>5. work' = [work EXCEPT ![w] = j]
    BY <2>0, <2>1 DEF SerialInv
  <2>. QED
    BY <2>0, <2>1, <2>3, <2>4, <2>5, SerialMove
<1>4. ASSUME NEW w \in Workers, Reread(w), ~Return(w) PROVE SerialInv'
  <2>1. /\ work[w] \in Works /\ StepOf(work[w]) /\ work[w].pc = "reread"
        /\ CarriesNewest(work[w]) /\ work[w].seen \in Documents
        /\ doc \in Documents /\ issued \in Nat
        /\ UNCHANGED <<doc, issued, stored>> /\ issued' \in Nat /\ issued' >= issued
    BY <1>4 DEF Reread, history, SerialInv, Works
  <2>2. CASE work[w].op = "keepalive"
    <3>. PICK j : j = [work[w] EXCEPT !.pc = "save", !.seen = doc]
      OBVIOUS
    <3>1. work' = [work EXCEPT ![w] = j]
      BY <1>4, <2>1, <2>2 DEF Reread
    <3>2. j \in Works /\ j.pc = "save" /\ j.op = "keepalive" /\ j.token = work[w].token
      BY <2>1, <2>2 DEF Works
    <3>3. StepOf(j) /\ CarriesNewest(j)' /\ CarriesRead(j)'
      BY <2>1, <2>2, <3>2 DEF StepOf, CarriesNewest, CarriesRead, Operations
    <3>. QED
      BY <2>1, <3>1, <3>2, <3>3, SerialMove
  <2>3. CASE work[w].op # "keepalive"
    <3>. PICK note \in Notes : note = IF doc.exists THEN doc.note ELSE "unknown"
      BY <2>1 DEF Documents, Notes
    <3>. PICK j : j = [work[w] EXCEPT !.pc = "save", !.seen.note = note]
      OBVIOUS
    <3>1. work' = [work EXCEPT ![w] = j]
      BY <1>4, <2>1, <2>3 DEF Reread
    <3>2. /\ j \in Works /\ j.pc = "save" /\ j.op = work[w].op
          /\ j.seen.token = work[w].seen.token
      BY <2>1, <2>3 DEF Works, Documents
    <3>3. StepOf(j) /\ CarriesNewest(j)' /\ CarriesRead(j)'
      BY <2>1, <2>3, <3>2 DEF StepOf, CarriesNewest, CarriesRead, Operations
    <3>. QED
      BY <2>1, <3>1, <3>2, <3>3, SerialMove
  <2>. QED
    BY <2>2, <2>3
<1>5. ASSUME NEW w \in Workers, NEW credits \in Credits \cup {"unknown"},
             Decide(w, credits), ~Return(w)
      PROVE  SerialInv'
  <2>. PICK op \in {"revive", "sync"} : op = IF LegacyExhausted(work[w].seen) THEN "revive" ELSE "sync"
    OBVIOUS
  <2>0. /\ work' = [work EXCEPT ![w].pc = "lock", ![w].credits = credits, ![w].op = op]
        /\ UNCHANGED <<doc, issued, stored>>
    BY <1>5 DEF Decide, history
  <2>1. work[w] \in Works /\ issued' \in Nat /\ issued' >= issued
    <3>1. issued' = issued
      BY <2>0
    <3>. QED
      BY <3>1 DEF SerialInv
  <2>. PICK j : j = [work[w] EXCEPT !.pc = "lock", !.credits = credits, !.op = op]
    OBVIOUS
  <2>. work' = [work EXCEPT ![w] = j]
    BY <2>0
  <2>2. j \in Works /\ j.pc = "lock" /\ j.op = op
    BY <2>1, CreditsAssumption DEF Works, Notes, Operations
  <2>3. StepOf(j) /\ CarriesNewest(j)' /\ CarriesRead(j)'
    BY <2>2 DEF StepOf, CarriesNewest, CarriesRead, Locked
  <2>. QED
    BY <2>0, <2>1, <2>2, <2>3, SerialMove
<1>6. ASSUME NEW w \in Workers, NewPair(w) PROVE SerialInv'
  <2>0. /\ work' = [work EXCEPT ![w].pc = "reread", ![w].token = issued + 1]
        /\ issued' = issued + 1 /\ work[w].op = "keepalive" /\ UNCHANGED <<doc, stored>>
    BY <1>6 DEF NewPair
  <2>1. work[w] \in Works /\ issued \in Nat /\ issued' \in Nat /\ issued' >= issued
    <3>1. issued' = issued + 1
      BY <2>0
    <3>. QED
      BY <3>1 DEF SerialInv
  <2>. PICK j : j = [work[w] EXCEPT !.pc = "reread", !.token = issued + 1]
    OBVIOUS
  <2>. work' = [work EXCEPT ![w] = j]
    BY <2>0
  <2>2. j \in Works /\ j.pc = "reread" /\ j.op = "keepalive" /\ j.token = issued'
    BY <2>0, <2>1 DEF Works
  <2>3. StepOf(j) /\ CarriesNewest(j)' /\ CarriesRead(j)'
    BY <2>0, <2>1, <2>2 DEF StepOf, CarriesNewest, CarriesRead
  <2>. QED
    BY <2>0, <2>1, <2>2, <2>3, SerialMove
<1>7. ASSUME NEW w \in Workers, Catalogued(w) PROVE SerialInv'
  <2>. PICK j : j = [work[w] EXCEPT !.pc = "save"]
    OBVIOUS
  <2>1. /\ work' = [work EXCEPT ![w] = j] /\ work[w] \in Works
        /\ work[w].pc = "call" /\ work[w].op = "reregister" /\ work[w].seen.token >= stored
        /\ UNCHANGED <<doc, issued, stored>> /\ issued' \in Nat /\ issued' >= issued
    BY <1>7 DEF Catalogued, history, SerialInv, CarriesRead
  <2>2. j \in Works /\ j.pc = "save" /\ j.op = "reregister" /\ j.seen = work[w].seen
    BY <2>1 DEF Works
  <2>3. StepOf(j) /\ CarriesNewest(j)' /\ CarriesRead(j)'
    BY <2>1, <2>2 DEF StepOf, CarriesNewest, CarriesRead, Operations
  <2>. QED
    BY <2>1, <2>2, <2>3, SerialMove
\* The host's flag and a forgotten note leave the pair and the goroutine.
<1>8. ASSUME Forget \/ (\E disabled \in BOOLEAN : HostSets(disabled)) \/ UNCHANGED vars
      PROVE  SerialInv'
  <2>1. /\ UNCHANGED <<work, issued, stored>> /\ doc' \in Documents
        /\ doc'.exists = doc.exists /\ doc'.token = doc.token
    BY <1>8 DEF Forget, HostSets, vars, history, SerialInv, Documents
  <2>. QED
    BY <2>1 DEF SerialInv, CarriesNewest, CarriesRead
<1>9. CASE Restart
  <2>1. /\ UNCHANGED <<doc, issued, stored>>
        /\ work' \in [Workers -> Works] /\ \A w \in Workers : work'[w] = IdleWork
    BY <1>9, IdleIsWork DEF Restart, history
  <2>2. \A v \in Workers : (StepOf(work[v]) /\ CarriesNewest(work[v]) /\ CarriesRead(work[v]))'
    BY <2>1 DEF IdleWork, StepOf, CarriesNewest, CarriesRead
  <2>. QED
    BY <2>1, <2>2 DEF SerialInv
<1>10. ASSUME NEW w \in Workers, Return(w), UNCHANGED <<doc, issued, stored>> PROVE SerialInv'
  BY <1>10, SerialReturn
<1>. QED
  BY <1>1, <1>2, <1>3, <1>4, <1>5, <1>6, <1>7, <1>8, <1>9, <1>10, SerialSave
  DEF AuthNext, Read, Reread, Decide, GiveUp, history

(* One operation after the other, whichever fails, no write puts back a    *)
(* pair that a refresh or a login has replaced (persistAuthTokens and the  *)
(* whole-document writes of the others).                                   *)
THEOREM TokensStand == ASSUME OneAtATime PROVE AuthSpec => []TokensKept
<1>1. AuthInit => SerialInv
  BY SerialInitially
<1>2. SerialInv /\ [AuthNext]_vars => SerialInv'
  BY SerialStep
<1>3. SerialInv => TokensKept
  BY DEF SerialInv, TokensKept
<1>. QED
  BY <1>1, <1>2, <1>3, PTL DEF AuthSpec

-----------------------------------------------------------------------------
(* The names of an account's file.                                        *)
MoverJobs == [op : FileOperations \cup {"none"}, pc : {"idle", "lock", "read", "save", "remove"},
         name : Names, seen : FileDocuments \cup {NoFile}, next : BOOLEAN]

NamesTyped ==
  /\ dir \in [Names -> FileDocuments \cup {NoFile}]
  /\ job \in [Movers -> MoverJobs]
  /\ newest \in Nat
  /\ gone \in BOOLEAN

(* Only operations that have read a file come to write it; only deletions    *)
(* and moves come to remove one, and a move once the account has its own.    *)
JobsSound ==
  \A g \in Movers :
    /\ job[g].pc = "save" => job[g].op \in FileOperations \ {"delete"}
    /\ job[g].pc = "save" /\ job[g].op # "login" => job[g].seen # NoFile
    /\ job[g].pc = "save" /\ job[g].op = "login" => job[g].name = "own"
    /\ job[g].pc \in {"lock", "read"} => job[g].op \in FileOperations \ {"login"}
    /\ job[g].pc = "remove" =>
         job[g].op = "delete" \/ (Moves(job[g]) /\ (gone \/ dir["own"] # NoFile))

NamesInv == NamesTyped /\ JobsSound /\ AlwaysAFile

-----------------------------------------------------------------------------
(* What is written is a document. *)
LEMMA MoveWritesType ==
  ASSUME NamesTyped, JobsSound, NEW g \in Movers, job[g].pc = "save"
  PROVE  /\ MoveWrites(job[g]) \in FileDocuments /\ MoveWrites(job[g]) # NoFile
         /\ MoveWrites(job[g]).token \in Nat
         /\ Target(job[g].op, job[g].name) \in Names
         /\ Moves(job[g]) => Target(job[g].op, job[g].name) = "own"
<1>1. /\ job[g] \in MoverJobs /\ job[g].op \in FileOperations \ {"delete"} /\ newest \in Nat
      /\ job[g].op # "login" => job[g].seen \in FileDocuments
  BY DEF NamesTyped, JobsSound, MoverJobs
<1>2. MoveWrites(job[g]) \in FileDocuments
  BY <1>1 DEF MoveWrites, FileDocuments, FileOperations, MoverJobs
<1>3. Target(job[g].op, job[g].name) \in Names
  BY <1>1 DEF Target, Names, MoverJobs
<1>4. Moves(job[g]) => Target(job[g].op, job[g].name) = "own"
  BY DEF Moves, Target
<1>. QED
  BY <1>2, <1>3, <1>4, NamesAssumption DEF FileDocuments

(* To return is to rest. *)
LEMMA MoveReturnsType ==
  ASSUME NamesTyped, NEW g \in Movers, MoveReturns(g)
  PROVE  job' = [job EXCEPT ![g] = Resting] /\ Resting \in MoverJobs /\ Resting.pc = "idle"
BY DEF MoveReturns, Resting, MoverJobs, Names

(* At the start the account has one file, and nothing is under way. *)
LEMMA NamesInitially == NamesInit => NamesInv
<1>1. ASSUME NamesInit PROVE NamesInv
  <2>1. PICK n \in Names, flag \in BOOLEAN :
          dir = [x \in Names |-> IF x = n THEN [disabled |-> flag, token |-> 0] ELSE NoFile]
    BY <1>1 DEF NamesInit
  <2>2. dir \in [Names -> FileDocuments \cup {NoFile}] /\ dir[n] # NoFile
    BY <2>1, NamesAssumption DEF FileDocuments
  <2>3. job \in [Movers -> MoverJobs] /\ \A g \in Movers : job[g].pc = "idle"
    BY <1>1 DEF NamesInit, Resting, MoverJobs, Names
  <2>. QED
    BY <1>1, <2>2, <2>3 DEF NamesInit, NamesInv, NamesTyped, JobsSound, AlwaysAFile, Present
<1>. QED
  BY <1>1

(* A step that leaves the directory alone, and of one goroutine.             *)
LEMMA QuietStep ==
  ASSUME NamesInv, NEW g \in Movers, NEW j \in MoverJobs,
         UNCHANGED <<dir, newest, gone>>, job' = [job EXCEPT ![g] = j],
         j.pc = "save" => j.op \in FileOperations \ {"delete"},
         j.pc = "save" /\ j.op # "login" => j.seen # NoFile,
         j.pc = "save" /\ j.op = "login" => j.name = "own",
         j.pc \in {"lock", "read"} => j.op \in FileOperations \ {"login"},
         j.pc = "remove" => j.op = "delete"
  PROVE  NamesInv'
BY DEF NamesInv, NamesTyped, JobsSound, AlwaysAFile, Present, Moves

(* Every step preserves the invariant. *)
LEMMA NamesPreserved == NamesInv /\ [NamesNext]_namesVars => NamesInv'
<1>. SUFFICES ASSUME NamesInv, [NamesNext]_namesVars PROVE NamesInv'
  OBVIOUS
<1>1. ASSUME NEW g \in Movers, NEW op \in FileOperations, NEW name \in Names,
             NEW next \in BOOLEAN, BeginMove(g, op, name, next)
      PROVE  NamesInv'
  <2>. DEFINE j == [Resting EXCEPT
         !.op = op, !.name = name, !.next = next,
         !.pc = IF op = "login" THEN "save" ELSE IF op \in LockedOps THEN "lock" ELSE "read"]
  <2>1. /\ j \in MoverJobs /\ j.op = op /\ j.pc \in {"save", "lock", "read"}
        /\ j.pc = "save" <=> op = "login"
        /\ op = "login" => j.name = "own"
    BY <1>1 DEF BeginMove, Resting, MoverJobs, Names
  <2>2. UNCHANGED <<dir, newest, gone>> /\ job' = [job EXCEPT ![g] = j]
    BY <1>1 DEF BeginMove
  <2>. HIDE DEF j
  <2>. QED
    BY <2>1, <2>2, QuietStep
<1>2. ASSUME NEW g \in Movers, LockIndex(g) PROVE NamesInv'
  <2>. DEFINE j == [job[g] EXCEPT !.pc = "read"]
  <2>1. /\ j \in MoverJobs /\ j.pc = "read" /\ j.op \in FileOperations \ {"login"}
    BY <1>2 DEF LockIndex, NamesInv, NamesTyped, JobsSound, MoverJobs
  <2>2. UNCHANGED <<dir, newest, gone>> /\ job' = [job EXCEPT ![g] = j]
    BY <1>2 DEF LockIndex
  <2>. HIDE DEF j
  <2>. QED
    BY <2>1, <2>2, QuietStep
<1>3. ASSUME NEW g \in Movers, ReadFile(g) PROVE NamesInv'
  <2>1. CASE MoveReturns(g)
    BY <1>3, <2>1, MoveReturnsType, QuietStep DEF ReadFile, NamesInv
  <2>2. CASE ~MoveReturns(g)
    <3>. DEFINE j == [job[g] EXCEPT !.seen = dir[job[g].name],
                        !.pc = IF job[g].op = "delete" THEN "remove" ELSE "save"]
    <3>1. dir[job[g].name] # NoFile /\ job' = [job EXCEPT ![g] = j]
      BY <1>3, <2>2 DEF ReadFile
    <3>2. /\ job[g] \in MoverJobs /\ job[g].op \in FileOperations \ {"login"}
          /\ dir[job[g].name] \in FileDocuments
      BY <1>3, <3>1 DEF ReadFile, NamesInv, NamesTyped, JobsSound, MoverJobs
    <3>3. /\ j \in MoverJobs /\ j.seen # NoFile /\ j.op = job[g].op
          /\ j.pc = IF job[g].op = "delete" THEN "remove" ELSE "save"
      BY <3>1, <3>2 DEF MoverJobs
    <3>4. UNCHANGED <<dir, newest, gone>>
      BY <1>3 DEF ReadFile
    <3>. HIDE DEF j
    <3>. QED
      BY <3>1, <3>2, <3>3, <3>4, QuietStep
  <2>. QED
    BY <2>1, <2>2
<1>4. ASSUME NEW g \in Movers, SaveFails(g) PROVE NamesInv'
  BY <1>4, MoveReturnsType, QuietStep DEF SaveFails, SaveError, NamesInv
<1>5. ASSUME NEW g \in Movers, SaveFile(g) PROVE NamesInv'
  <2>. DEFINE copy == MoveWrites(job[g])
              target == Target(job[g].op, job[g].name)
  <2>1. /\ copy \in FileDocuments /\ copy # NoFile /\ copy.token \in Nat /\ target \in Names
        /\ Moves(job[g]) => target = "own"
    BY <1>5, MoveWritesType DEF SaveFile, NamesInv
  <2>2. /\ dir' = [dir EXCEPT ![target] = copy]
        /\ newest' \in {newest, copy.token}
        /\ gone' = (gone /\ job[g].op # "login")
    BY <1>5 DEF SaveFile
  <2>3. /\ dir' \in [Names -> FileDocuments \cup {NoFile}] /\ dir'[target] # NoFile
        /\ \A n \in Names : dir[n] # NoFile => dir'[n] # NoFile
        /\ newest' \in Nat /\ gone' \in BOOLEAN /\ (gone' => gone)
    BY <2>1, <2>2 DEF NamesInv, NamesTyped
\* Only a login ends a deletion, and it gives the account its own file.
  <2>4. gone => gone' \/ dir'["own"] # NoFile
    <3>1. CASE job[g].op = "login"
      <4>1. target = "own"
        BY <1>5, <3>1 DEF SaveFile, NamesInv, JobsSound, Target
      <4>. QED
        BY <2>3, <4>1
    <3>2. CASE job[g].op # "login"
      BY <2>2, <3>2
    <3>. QED
      BY <3>1, <3>2
  <2>5. AlwaysAFile'
    BY <2>1, <2>3 DEF AlwaysAFile, Present
  <2>6. /\ job' \in [Movers -> MoverJobs]
        /\ \A h \in Movers \ {g} : job'[h] = job[h]
        /\ \/ job'[g].pc = "idle"
           \/ /\ Moves(job[g]) /\ job'[g].pc = "remove"
              /\ job'[g].op = job[g].op /\ job'[g].name = job[g].name
    <3>. job \in [Movers -> MoverJobs]
      BY DEF NamesInv, NamesTyped
    <3>1. CASE Moves(job[g])
      BY <1>5, <3>1 DEF SaveFile, MoverJobs
    <3>2. CASE ~Moves(job[g])
      BY <1>5, <3>2, MoveReturnsType DEF SaveFile, NamesInv
    <3>. QED
      BY <3>1, <3>2
  <2>. HIDE DEF copy, target
  <2>7. JobsSound'
    BY <2>1, <2>3, <2>4, <2>6 DEF NamesInv, JobsSound, Moves, Names
  <2>. QED
    BY <2>3, <2>5, <2>6, <2>7 DEF NamesInv, NamesTyped
<1>6. ASSUME NEW g \in Movers, RemoveFile(g) PROVE NamesInv'
  <2>1. /\ job' = [job EXCEPT ![g] = Resting] /\ Resting \in MoverJobs /\ Resting.pc = "idle"
        /\ newest' = newest
    BY <1>6, MoveReturnsType DEF RemoveFile, NamesInv
  <2>2. CASE UNCHANGED <<dir, gone>>
    BY <2>1, <2>2, QuietStep
  <2>3. CASE /\ dir' = [dir EXCEPT ![job[g].name] = NoFile]
             /\ gone' = (gone \/ job[g].op = "delete")
    <3>1. job[g].op = "delete" \/ (Moves(job[g]) /\ (gone \/ dir["own"] # NoFile))
      BY <1>6 DEF RemoveFile, NamesInv, JobsSound
\* A move removes another file than the account's own.
    <3>2. /\ dir' \in [Names -> FileDocuments \cup {NoFile}]
          /\ gone' \in BOOLEAN /\ (gone => gone')
          /\ gone' \/ dir'["own"] = dir["own"]
      BY <2>3, <3>1 DEF NamesInv, NamesTyped, Moves, Legacy, Names
    <3>3. AlwaysAFile'
      BY <3>1, <3>2, <2>3 DEF AlwaysAFile, Present, Names
    <3>4. NamesTyped'
      BY <2>1, <3>2 DEF NamesInv, NamesTyped
    <3>5. JobsSound'
      BY <2>1, <3>2 DEF NamesInv, NamesTyped, JobsSound, Moves
    <3>. QED
      BY <3>3, <3>4, <3>5 DEF NamesInv
  <2>. QED
    BY <1>6, <2>2, <2>3 DEF RemoveFile
<1>7. CASE Crash
  <2>1. /\ UNCHANGED <<dir, newest, gone>> /\ job' \in [Movers -> MoverJobs]
        /\ \A g \in Movers : job'[g].pc = "idle"
    BY <1>7 DEF Crash, Resting, MoverJobs, Names
  <2>. QED
    BY <2>1 DEF NamesInv, NamesTyped, JobsSound, AlwaysAFile, Present
<1>8. CASE UNCHANGED namesVars
  BY <1>8 DEF namesVars, NamesInv, NamesTyped, JobsSound, AlwaysAFile, Present, Moves
<1>. QED
  BY <1>1, <1>2, <1>3, <1>4, <1>5, <1>6, <1>7, <1>8 DEF NamesNext, NamesStep

(* Whatever fails of a move and wherever it is cut short, an account that    *)
(* was not deleted has a file.                                            *)
THEOREM NeverWithoutFile == NamesSpec => []AlwaysAFile
<1>1. NamesInv => AlwaysAFile
  BY DEF NamesInv
<1>. QED
  BY <1>1, NamesInitially, NamesPreserved, PTL DEF NamesSpec

-----------------------------------------------------------------------------
(* The last word moves with the file.                                      *)
Word == [disabled |-> setTo, token |-> newest]

(* A file that no move is about to remove. *)
Settled(n) == dir[n] # NoFile /\ \A g \in Movers : Moving(g) => job[g].name # n

IndexHeld ==
  \A g \in Movers :
    /\ job[g].pc \in {"read", "save", "remove"} /\ job[g].op \in LockedOps =>
         indexLock[job[g].name] = g
    /\ job[g].pc = "lock" => job[g].op \in LockedOps

(* What an operation under its lock is about is as it saw it.              *)
Unmoved ==
  \A g \in Movers :
    /\ job[g].pc = "save" /\ job[g].op \in LockedOps => dir[job[g].name] = job[g].seen
    /\ job[g].pc = "remove" => dir[job[g].name] # NoFile

(* One file is settled, and it has the last word; a second one is a move's. *)
OneWord ==
  /\ \A n \in Names : Settled(n) => ~gone /\ dir[n] = Word
  /\ \A m, n \in Names : Settled(m) /\ Settled(n) => m = n
  /\ \A m, n \in Legacy : dir[m] # NoFile /\ dir[n] # NoFile => m = n

WordInv ==
  /\ setTo \in BOOLEAN /\ disturbed \in BOOLEAN
  /\ indexLock \in [Names -> Movers \cup {NoOne}]
  /\ IndexHeld
  /\ ~disturbed => Unmoved /\ OneWord

(* Two files are two. *)
LEMMA NoTwins ==
  ASSUME NEW d, NEW m \in Names, NEW n \in Names, d[m] # NoFile, d[n] # NoFile, m # n
  PROVE  Cardinality(Present(d)) > 1
<1>1. IsFiniteSet(Present(d))
  <2>1. IsFiniteSet(Names)
    <3>1. IsFiniteSet({"bare"}) /\ IsFiniteSet({"bare"} \cup {"regional"})
      BY FS_Singleton, FS_AddElement
    <3>2. Names = ({"bare"} \cup {"regional"}) \cup {"own"}
      BY DEF Names
    <3>. QED
      BY <3>1, <3>2, FS_AddElement
  <2>. QED
    BY <2>1, FS_Subset DEF Present
<1>2. {m, n} \subseteq Present(d)
  BY DEF Present
<1>3. Cardinality({m, n}) = 2
  <2>1. {m, n} = {m} \cup {n} /\ IsFiniteSet({m}) /\ Cardinality({m}) = 1
    BY FS_Singleton
  <2>. QED
    BY <2>1, FS_AddElement
<1>. QED
  BY <1>1, <1>2, <1>3, FS_Subset, FS_CardinalityType

(* Two operations under the lock of one index are one. *)
LEMMA OneAtAnIndex ==
  ASSUME WordInv, NEW g \in Movers, NEW h \in Movers,
         job[g].pc \in {"read", "save", "remove"}, job[g].op \in LockedOps,
         job[h].pc \in {"read", "save", "remove"}, job[h].op \in LockedOps,
         job[g].name = job[h].name
  PROVE  g = h
BY DEF WordInv, IndexHeld

(* What comes to remove a file is under its lock. *)
LEMMA RemoversLock ==
  ASSUME NamesInv, NEW g \in Movers, job[g].pc = "remove"
  PROVE  job[g].op \in LockedOps /\ (Moving(g) => job[g].name \in Legacy /\ job[g].op = "note")
BY DEF NamesInv, JobsSound, Moving, Moves, LockedOps

(* Steps that write no file and end no move. *)
LEMMA SameWord ==
  ASSUME NamesInv, WordInv, NEW g \in Movers, NEW j \in MoverJobs,
         UNCHANGED <<dir, setTo, newest, gone>>, job' = [job EXCEPT ![g] = j],
         disturbed' \in BOOLEAN, disturbed => disturbed',
         job[g].pc # "remove" \/ job[g].op = "delete", j.pc # "remove" \/ j.op = "delete",
         indexLock' \in [Names -> Movers \cup {NoOne}],
         \A n \in Names : indexLock[n] # g /\ indexLock[n] # NoOne => indexLock'[n] = indexLock[n],
         j.pc \in {"read", "save", "remove"} /\ j.op \in LockedOps => indexLock'[j.name] = g,
         j.pc = "lock" => j.op \in LockedOps,
         j.pc = "save" /\ j.op \in LockedOps => dir[j.name] = j.seen,
         j.pc = "remove" => dir[j.name] # NoFile
  PROVE  WordInv'
<1>1. /\ job \in [Movers -> MoverJobs] /\ job' \in [Movers -> MoverJobs] /\ job'[g] = j
      /\ \A h \in Movers \ {g} : job'[h] = job[h]
  BY DEF NamesInv, NamesTyped
<1>2. IndexHeld'
  <2>. SUFFICES ASSUME NEW h \in Movers
                PROVE  /\ job'[h].pc \in {"read", "save", "remove"} /\ job'[h].op \in LockedOps =>
                            indexLock'[job'[h].name] = h
                       /\ job'[h].pc = "lock" => job'[h].op \in LockedOps
    BY DEF IndexHeld
  <2>1. CASE h = g
    BY <1>1, <2>1
  <2>2. CASE h # g
    <3>1. job'[h] = job[h] /\ job[h].name \in Names
      BY <1>1, <2>2 DEF MoverJobs
    <3>. QED
      BY <2>2, <3>1, NamesAssumption DEF WordInv, IndexHeld
  <2>. QED
    BY <2>1, <2>2
<1>3. ~disturbed => Unmoved'
  BY <1>1 DEF WordInv, Unmoved
<1>4. \A h \in Movers : Moving(h)' <=> Moving(h) /\ job'[h].name = job[h].name
  BY <1>1 DEF Moving, Moves
<1>5. ~disturbed => OneWord'
  <2>1. \A h \in Movers : Moving(h) <=> Moving(h)'
    BY <1>1 DEF Moving, Moves
  <2>2. \A n \in Names : Settled(n)' <=> Settled(n)
    BY <1>4, <2>1 DEF Settled
  <2>. QED
    BY <2>2 DEF WordInv, OneWord, Word
<1>. QED
  BY <1>2, <1>3, <1>5 DEF WordInv

(* A goroutine that returns gives back its locks, and no other.            *)
LEMMA ReturnsLocks ==
  ASSUME NamesInv, WordInv, NEW g \in Movers, MoveReturns(g)
  PROVE  /\ indexLock' \in [Names -> Movers \cup {NoOne}]
         /\ \A n \in Names : indexLock[n] # g => indexLock'[n] = indexLock[n]
         /\ job' = [job EXCEPT ![g] = Resting] /\ Resting \in MoverJobs
         /\ Resting.pc = "idle" /\ job'[g] = Resting
         /\ \A h \in Movers \ {g} : job'[h] = job[h]
BY MoveReturnsType DEF MoveReturns, WordInv, NamesInv, NamesTyped

(* The locks after a goroutine has moved on or returned. *)
LEMMA LocksAfter ==
  ASSUME NamesInv, WordInv, NEW g \in Movers,
         indexLock' \in [Names -> Movers \cup {NoOne}],
         \A n \in Names : indexLock[n] # g => indexLock'[n] = indexLock[n],
         \A h \in Movers \ {g} : job'[h] = job[h],
         \/ job'[g].pc = "idle"
         \/ /\ UNCHANGED indexLock /\ job'[g].op = job[g].op /\ job'[g].name = job[g].name
            /\ job[g].pc \in {"read", "save", "remove"} /\ job'[g].pc # "lock"
  PROVE  IndexHeld'
<1>. SUFFICES ASSUME NEW h \in Movers
              PROVE  /\ job'[h].pc \in {"read", "save", "remove"} /\ job'[h].op \in LockedOps =>
                          indexLock'[job'[h].name] = h
                     /\ job'[h].pc = "lock" => job'[h].op \in LockedOps
  BY DEF IndexHeld
<1>1. CASE h = g
  BY <1>1 DEF WordInv, IndexHeld
<1>2. CASE h # g
  <2>1. job'[h] = job[h] /\ job[h].name \in Names
    BY <1>2 DEF NamesInv, NamesTyped, MoverJobs
  <2>. QED
    BY <1>2, <2>1, NamesAssumption DEF WordInv, IndexHeld
<1>. QED
  BY <1>1, <1>2

(* A file written under its lock keeps the last word, as a move's new file  *)
(* or as the settled one.                                                  *)
LEMMA LockedSave ==
  ASSUME NamesInv, WordInv, ~disturbed, NEW g \in Movers, SaveFile(g), job[g].op \in LockedOps
  PROVE  Unmoved' /\ OneWord'
<1>. PICK j : j = job[g]
  OBVIOUS
<1>. PICK d : d = MoveWrites(j)
  OBVIOUS
<1>1. /\ j \in MoverJobs /\ j.pc = "save" /\ j.op \in {"note", "toggle"} /\ j.name \in Names
      /\ dir[j.name] = j.seen /\ j.seen # NoFile /\ j.seen \in FileDocuments
      /\ d \in FileDocuments /\ d # NoFile
      /\ dir \in [Names -> FileDocuments \cup {NoFile}]
      /\ job \in [Movers -> MoverJobs]
  BY MoveWritesType DEF SaveFile, NamesInv, NamesTyped, JobsSound, WordInv, Unmoved, MoverJobs,
                        LockedOps, FileOperations
<1>2. /\ gone' = gone /\ newest' = newest
      /\ setTo' = IF j.op = "toggle" THEN d.disabled ELSE setTo
  BY <1>1 DEF SaveFile, NamesInv, NamesTyped
<1>3. \A h \in Movers : job[h].pc \in {"read", "save", "remove"} /\ job[h].op \in LockedOps
                        /\ job[h].name = j.name => h = g
  BY <1>1, OneAtAnIndex
<1>4. Settled(j.name)
  BY <1>1, <1>3, RemoversLock DEF Settled, Moving
<1>5. ~gone /\ j.seen = Word
  BY <1>1, <1>4 DEF WordInv, OneWord
<1>6. d = Word'
  <2>1. Word' = [disabled |-> setTo', token |-> newest]
    BY <1>2 DEF Word
  <2>2. j.seen.disabled = setTo /\ j.seen.token = newest
    BY <1>5 DEF Word
  <2>3. CASE j.op = "note"
    <3>1. d = j.seen
      BY <2>3 DEF MoveWrites
    <3>. QED
      BY <1>2, <1>5, <2>1, <2>3, <3>1 DEF Word
  <2>4. CASE j.op = "toggle"
    <3>1. d = [j.seen EXCEPT !.disabled = j.next]
      BY <2>4 DEF MoveWrites
    <3>2. d = [disabled |-> j.next, token |-> newest]
      BY <1>1, <2>2, <3>1 DEF FileDocuments
    <3>. QED
      BY <1>2, <2>1, <2>4, <3>2
  <2>. QED
    BY <1>1, <2>3, <2>4
<1>7. \A n \in Names : Settled(n) => n = j.name
  BY <1>1, <1>4 DEF WordInv, OneWord
<1>8. \A h \in Movers \ {g} : job'[h] = job[h]
  BY <1>1, MoveReturnsType DEF SaveFile, NamesInv
<1>9. CASE Moves(j)
  <2>1. /\ dir' = [dir EXCEPT !["own"] = d] /\ "own" \in Names /\ j.name # "own"
        /\ j.name \in Legacy
    BY <1>1, <1>9 DEF SaveFile, Moves, Target, Names, Legacy
  <2>2. job'[g].pc = "remove" /\ job'[g].op = j.op /\ job'[g].name = j.name
    BY <1>1, <1>9 DEF SaveFile, MoverJobs
\* No other move is under way: it would be one of the same file.
  <2>3. \A h \in Movers : ~Moving(h)
    <3>. SUFFICES ASSUME NEW h \in Movers, Moving(h) PROVE FALSE
      OBVIOUS
    <3>1. job[h].name \in Legacy /\ job[h].op \in LockedOps /\ job[h].pc = "remove"
          /\ dir[job[h].name] # NoFile
      BY RemoversLock DEF Moving, WordInv, Unmoved
    <3>2. job[h].name = j.name
      BY <1>1, <2>1, <3>1 DEF WordInv, OneWord
    <3>. QED
      BY <1>1, <1>3, <3>1, <3>2
  <2>4. dir["own"] = NoFile
    BY <1>7, <2>1, <2>3 DEF Settled
  <2>5. Unmoved'
    <3>. SUFFICES ASSUME NEW h \in Movers
                  PROVE  /\ job'[h].pc = "save" /\ job'[h].op \in LockedOps =>
                              dir'[job'[h].name] = job'[h].seen
                         /\ job'[h].pc = "remove" => dir'[job'[h].name] # NoFile
      BY DEF Unmoved
    <3>1. CASE h = g
      BY <1>1, <2>1, <2>2, <3>1
    <3>2. CASE h # g
      <4>1. job'[h] = job[h] /\ job[h].name \in Names
        BY <1>1, <1>8, <3>2 DEF MoverJobs
      <4>2. job[h].pc = "save" /\ job[h].op \in LockedOps =>
              dir[job[h].name] = job[h].seen /\ job[h].seen # NoFile
        BY DEF WordInv, Unmoved, NamesInv, JobsSound, LockedOps
      <4>3. job[h].pc = "remove" => dir[job[h].name] # NoFile
        BY DEF WordInv, Unmoved
      <4>. QED
        BY <1>1, <2>1, <2>4, <4>1, <4>2, <4>3
    <3>. QED
      BY <3>1, <3>2
  <2>6. Moving(g)'
    BY <1>9, <2>2 DEF Moving, Moves
  <2>7. \A n \in Names : Settled(n)' => n = "own"
    <3>. SUFFICES ASSUME NEW n \in Names, Settled(n)', n # "own" PROVE FALSE
      OBVIOUS
    <3>1. n # j.name /\ dir[n] # NoFile
      BY <1>1, <2>1, <2>2, <2>6 DEF Settled
    <3>. QED
      BY <1>7, <2>3, <3>1 DEF Settled
  <2>8. \A m, n \in Legacy : dir'[m] # NoFile /\ dir'[n] # NoFile => m = n
    BY <1>1, <2>1 DEF WordInv, OneWord, Legacy, Names
  <2>9. dir'["own"] = Word'
    BY <1>1, <1>6, <2>1
  <2>. QED
    BY <1>2, <1>5, <2>5, <2>7, <2>8, <2>9 DEF OneWord
<1>10. CASE ~Moves(j)
  <2>1. dir' = [dir EXCEPT ![j.name] = d]
    BY <1>1, <1>10 DEF SaveFile, Moves, Target, LockedOps
  <2>2. job'[g].pc = "idle"
    BY <1>1, <1>10, MoveReturnsType DEF SaveFile, NamesInv
  <2>3. \A h \in Movers : Moving(h)' <=> Moving(h)
    BY <1>1, <1>8, <2>2 DEF Moving, Moves
  <2>4. Unmoved'
    BY <1>1, <1>3, <1>8, <2>1, <2>2 DEF WordInv, Unmoved
  <2>5. \A n \in Names : dir'[n] # NoFile <=> dir[n] # NoFile
    BY <1>1, <2>1
  <2>6. \A n \in Names : Settled(n)' => Settled(n)
    BY <1>1, <1>8, <2>2, <2>3, <2>5 DEF Settled, Moving
  <2>7. dir'[j.name] = Word'
    BY <1>1, <1>6, <2>1
  <2>8. \A m, n \in Legacy : dir'[m] # NoFile /\ dir'[n] # NoFile => m = n
    BY <2>5 DEF WordInv, OneWord, Legacy, Names
  <2>. QED
    BY <1>2, <1>5, <1>7, <2>4, <2>6, <2>7, <2>8 DEF OneWord
<1>. QED
  BY <1>9, <1>10

(* A file written without a lock, and beside no other operation, keeps it  *)
(* too, or is a second file.                                               *)
LEMMA LoneSave ==
  ASSUME NamesInv, WordInv, ~disturbed, NEW g \in Movers, SaveFile(g), job[g].op \notin LockedOps,
         ~Meets(g), ~Twins'
  PROVE  Unmoved' /\ OneWord'
<1>. PICK j : j = job[g]
  OBVIOUS
<1>. PICK d : d = MoveWrites(j)
  OBVIOUS
<1>1. /\ j \in MoverJobs /\ j.pc = "save" /\ j.op \in {"rename", "refresh", "login"}
      /\ j.name \in Names /\ Target(j.op, j.name) \in Names
      /\ d \in FileDocuments /\ d # NoFile
      /\ dir \in [Names -> FileDocuments \cup {NoFile}] /\ newest \in Nat
      /\ job \in [Movers -> MoverJobs]
      /\ dir' = [dir EXCEPT ![Target(j.op, j.name)] = d]
      /\ j.op # "login" => dir[j.name] = j.seen /\ j.seen # NoFile /\ j.seen \in FileDocuments
      /\ \A h \in Movers \ {g} : job[h].pc \in {"idle", "lock"}
  BY MoveWritesType DEF SaveFile, NamesInv, NamesTyped, JobsSound, MoverJobs,
                        LockedOps, FileOperations, Meets
<1>2. /\ gone' = (gone /\ j.op # "login")
      /\ newest' = IF j.op \in {"refresh", "login"} THEN d.token ELSE newest
      /\ setTo' = IF j.op = "login" THEN d.disabled ELSE setTo
  BY <1>1 DEF SaveFile
<1>3. /\ job'[g].pc = "idle"
      /\ \A h \in Movers \ {g} : job'[h] = job[h]
  BY <1>1, MoveReturnsType DEF SaveFile, NamesInv, Moves
<1>4. \A h \in Movers : ~Moving(h) /\ ~Moving(h)'
  BY <1>1, <1>3 DEF Moving
<1>5. Unmoved'
  BY <1>1, <1>3 DEF Unmoved
<1>6. \A m, n \in Names : dir'[m] # NoFile /\ dir'[n] # NoFile => m = n
  <2>. SUFFICES ASSUME NEW m \in Names, NEW n \in Names, dir'[m] # NoFile, dir'[n] # NoFile, m # n
                PROVE  FALSE
    OBVIOUS
  <2>. PICK e : e = dir'
    OBVIOUS
  <2>1. Cardinality(Present(e)) > 1
    BY NoTwins
  <2>. QED
    BY <1>4, <2>1 DEF Twins
<1>7. Word' = [disabled |-> setTo', token |-> newest'] /\ Word = [disabled |-> setTo, token |-> newest]
  BY DEF Word
<1>8. ~gone' /\ d = Word'
  <2>1. CASE j.op = "login"
    BY <1>2, <1>7, <2>1 DEF MoveWrites
  <2>2. CASE j.op # "login"
    <3>1. Settled(j.name)
      BY <1>1, <1>4, <2>2 DEF Settled
    <3>2. ~gone /\ j.seen = Word
      BY <1>1, <2>2, <3>1 DEF WordInv, OneWord
    <3>3. CASE j.op = "rename"
      BY <1>2, <1>7, <3>2, <3>3 DEF MoveWrites
    <3>4. CASE j.op = "refresh"
      <4>1. d = [j.seen EXCEPT !.token = newest + 1]
        BY <3>4 DEF MoveWrites
      <4>2. d = [disabled |-> setTo, token |-> newest + 1]
        BY <1>7, <3>2, <4>1
      <4>3. newest' = newest + 1 /\ setTo' = setTo
        BY <1>2, <3>4, <4>2
      <4>4. ~gone'
        BY <1>2, <3>2
      <4>. QED
        BY <1>7, <4>2, <4>3, <4>4
    <3>. QED
      BY <1>1, <2>2, <3>3, <3>4
  <2>. QED
    BY <2>1, <2>2
<1>9. \A n \in Names : Settled(n)' => n = Target(j.op, j.name)
  BY <1>1, <1>6 DEF Settled
<1>. QED
  BY <1>1, <1>5, <1>6, <1>8, <1>9 DEF OneWord, Legacy, Names

(* A removal takes the settled file of an account that is deleted, or the  *)
(* file that a move has left.                                              *)
LEMMA RemovalKeepsWord ==
  ASSUME NamesInv, WordInv, ~disturbed, NEW g \in Movers, RemoveFile(g), ~LeftBehind(g)
  PROVE  Unmoved' /\ OneWord'
<1>. PICK j : j = job[g]
  OBVIOUS
<1>1. /\ j \in MoverJobs /\ j.pc = "remove" /\ j.op \in LockedOps /\ j.name \in Names
      /\ dir[j.name] # NoFile
      /\ dir \in [Names -> FileDocuments \cup {NoFile}] /\ gone \in BOOLEAN
      /\ job \in [Movers -> MoverJobs]
      /\ newest' = newest /\ setTo' = setTo
      /\ j.op = "delete" \/ Moving(g)
  BY RemoversLock DEF RemoveFile, NamesInv, NamesTyped, WordInv, Unmoved, MoverJobs, JobsSound, Moving
<1>2. /\ job'[g].pc = "idle"
      /\ \A h \in Movers \ {g} : job'[h] = job[h]
  BY <1>1, MoveReturnsType DEF RemoveFile, NamesInv
<1>3. \A h \in Movers : job[h].pc \in {"read", "save", "remove"} /\ job[h].op \in LockedOps
                        /\ job[h].name = j.name => h = g
  BY <1>1, OneAtAnIndex
<1>4. Word' = Word
  BY <1>1 DEF Word
<1>5. \A h \in Movers \ {g} : Moving(h)' <=> Moving(h)
  BY <1>2 DEF Moving, Moves
<1>6. ~Moving(g)'
  BY <1>2 DEF Moving
<1>7. CASE /\ dir' = [dir EXCEPT ![j.name] = NoFile]
           /\ gone' = (gone \/ j.op = "delete")
  <2>1. Unmoved'
    <3>. SUFFICES ASSUME NEW h \in Movers
                  PROVE  /\ job'[h].pc = "save" /\ job'[h].op \in LockedOps =>
                              dir'[job'[h].name] = job'[h].seen
                         /\ job'[h].pc = "remove" => dir'[job'[h].name] # NoFile
      BY DEF Unmoved
    <3>1. CASE h = g
      BY <1>2, <3>1
    <3>2. CASE h # g
      <4>1. job'[h] = job[h] /\ job[h].name \in Names
        BY <1>1, <1>2, <3>2 DEF MoverJobs
      <4>2. job[h].pc = "save" /\ job[h].op \in LockedOps =>
              dir[job[h].name] = job[h].seen /\ job[h].name # j.name
        BY <1>3, <3>2 DEF WordInv, Unmoved
      <4>3. job[h].pc = "remove" => dir[job[h].name] # NoFile /\ job[h].name # j.name
        BY <1>3, <3>2, RemoversLock DEF WordInv, Unmoved
      <4>. QED
        BY <1>1, <1>7, <4>1, <4>2, <4>3
    <3>. QED
      BY <3>1, <3>2
  <2>2. \A n \in Names : Settled(n)' => Settled(n) /\ n # j.name
    <3>. SUFFICES ASSUME NEW n \in Names, Settled(n)' PROVE Settled(n) /\ n # j.name
      OBVIOUS
    <3>1. dir'[n] # NoFile /\ n # j.name /\ dir[n] # NoFile
      BY <1>1, <1>7 DEF Settled
    <3>2. ASSUME NEW h \in Movers, Moving(h) PROVE job[h].name # n
      BY <1>2, <1>5, <3>1, <3>2 DEF Settled
    <3>. QED
      BY <3>1, <3>2 DEF Settled
\* What is deleted is the settled file, and there is no other.
  <2>3. CASE j.op = "delete"
    <3>1. Settled(j.name)
      BY <1>1, <1>3, <2>3, RemoversLock DEF Settled, Moving, Moves
    <3>2. \A n \in Names : ~Settled(n)'
      BY <1>1, <2>2, <3>1 DEF WordInv, OneWord
    <3>. QED
      BY <1>1, <1>7, <2>1, <3>2 DEF WordInv, OneWord, Legacy, Names
  <2>4. CASE j.op # "delete"
    <3>1. gone' = gone
      BY <1>1, <1>7, <2>4
    <3>2. \A n \in Names : Settled(n)' => ~gone' /\ dir'[n] = Word'
      BY <1>1, <1>4, <1>7, <2>2, <3>1 DEF WordInv, OneWord
    <3>. QED
      BY <1>1, <1>7, <2>1, <2>2, <3>2 DEF WordInv, OneWord, Legacy, Names
  <2>. QED
    BY <2>3, <2>4
<1>8. CASE UNCHANGED <<dir, gone>>
  <2>1. ~Moving(g)
    BY <1>1, <1>6, <1>8 DEF LeftBehind
  <2>2. Unmoved'
    BY <1>1, <1>2, <1>8 DEF WordInv, Unmoved
  <2>3. \A n \in Names : Settled(n)' => Settled(n)
    BY <1>2, <1>5, <1>8, <2>1 DEF Settled
  <2>. QED
    BY <1>4, <1>8, <2>2, <2>3 DEF WordInv, OneWord
<1>. QED
  BY <1>7, <1>8 DEF RemoveFile

LEMMA WordInitially == NamesInit => WordInv
<1>1. ASSUME NamesInit PROVE WordInv
  <2>1. PICK n \in Names, flag \in BOOLEAN :
          /\ dir = [x \in Names |-> IF x = n THEN [disabled |-> flag, token |-> 0] ELSE NoFile]
          /\ setTo = flag
    BY <1>1 DEF NamesInit
  <2>2. \A g \in Movers : job[g].pc = "idle"
    BY <1>1 DEF NamesInit, Resting
  <2>3. Word = [disabled |-> flag, token |-> 0] /\ ~gone /\ disturbed = FALSE
        /\ indexLock \in [Names -> Movers \cup {NoOne}]
    BY <1>1, <2>1 DEF NamesInit, Word
  <2>4. \A m \in Names : dir[m] # NoFile => m = n /\ dir[m] = Word
    BY <2>1, <2>3
  <2>. QED
    BY <2>1, <2>2, <2>3, <2>4
    DEF WordInv, IndexHeld, Unmoved, OneWord, Settled, Legacy, Names
<1>. QED
  BY <1>1

(* Every step preserves the invariant. *)
LEMMA WordPreserved == NamesInv /\ WordInv /\ [NamesNext]_namesVars => WordInv'
<1>. SUFFICES ASSUME NamesInv, WordInv, [NamesNext]_namesVars PROVE WordInv'
  OBVIOUS
<1>1. CASE UNCHANGED namesVars
  BY <1>1 DEF namesVars, WordInv, IndexHeld, Unmoved, OneWord, Settled, Moving, Moves, Word
<1>2. CASE NamesNext
  <2>1. /\ disturbed' \in BOOLEAN /\ (disturbed => disturbed')
        /\ ~disturbed' => ~disturbed /\ ~Twins' /\ \A g \in Movers : ~LeftBehind(g) /\ ~Meets(g)
    BY <1>2 DEF NamesNext, WordInv
  <2>2. ASSUME NEW g \in Movers, NEW op \in FileOperations, NEW name \in Names,
               NEW next \in BOOLEAN, BeginMove(g, op, name, next)
        PROVE  WordInv'
    <3>. PICK j : j = [Resting EXCEPT
           !.op = op, !.name = name, !.next = next,
           !.pc = IF op = "login" THEN "save" ELSE IF op \in LockedOps THEN "lock" ELSE "read"]
      OBVIOUS
    <3>1. /\ j \in MoverJobs /\ j.op = op /\ j.pc \in {"save", "lock", "read"}
          /\ j.pc = "lock" <=> op \in LockedOps
          /\ j.pc = "save" => op = "login"
      BY <2>2 DEF BeginMove, Resting, MoverJobs, Names, LockedOps
    <3>2. /\ UNCHANGED <<dir, setTo, newest, gone, indexLock>> /\ job' = [job EXCEPT ![g] = j]
          /\ job[g].pc = "idle"
      BY <2>2 DEF BeginMove
    <3>3. "login" \notin LockedOps /\ indexLock \in [Names -> Movers \cup {NoOne}]
      BY DEF LockedOps, WordInv
    <3>. QED
      BY <2>1, <3>1, <3>2, <3>3, SameWord
  <2>3. ASSUME NEW g \in Movers, LockIndex(g) PROVE WordInv'
    <3>. PICK j : j = [job[g] EXCEPT !.pc = "read"]
      OBVIOUS
    <3>1. /\ j \in MoverJobs /\ j.pc = "read" /\ j.name = job[g].name /\ job[g].name \in Names
          /\ job[g].pc = "lock"
      BY <2>3 DEF LockIndex, NamesInv, NamesTyped, MoverJobs
    <3>2. /\ UNCHANGED <<dir, setTo, newest, gone>> /\ job' = [job EXCEPT ![g] = j]
          /\ indexLock[j.name] = NoOne /\ indexLock' = [indexLock EXCEPT ![j.name] = g]
      BY <2>3, <3>1 DEF LockIndex
    <3>3. /\ indexLock' \in [Names -> Movers \cup {NoOne}] /\ indexLock'[j.name] = g
          /\ \A n \in Names : indexLock[n] # g /\ indexLock[n] # NoOne => indexLock'[n] = indexLock[n]
      BY <3>1, <3>2 DEF WordInv
    <3>. QED
      BY <2>1, <3>1, <3>2, <3>3, SameWord
  <2>4. ASSUME NEW g \in Movers, MoveReturns(g), job[g].pc \in {"read", "save"},
               UNCHANGED <<dir, setTo, newest, gone>>
        PROVE  WordInv'
    BY <2>1, <2>4, ReturnsLocks, SameWord
  <2>5. ASSUME NEW g \in Movers, ReadFile(g), ~MoveReturns(g) PROVE WordInv'
    <3>. PICK j : j = [job[g] EXCEPT !.seen = dir[job[g].name],
                         !.pc = IF job[g].op = "delete" THEN "remove" ELSE "save"]
      OBVIOUS
    <3>1. dir[job[g].name] # NoFile /\ job' = [job EXCEPT ![g] = j] /\ UNCHANGED indexLock
          /\ UNCHANGED <<dir, setTo, newest, gone>> /\ job[g].pc = "read"
      BY <2>5 DEF ReadFile
    <3>2. job[g] \in MoverJobs /\ dir[job[g].name] \in FileDocuments
      BY <3>1 DEF NamesInv, NamesTyped, MoverJobs
    <3>3. /\ j \in MoverJobs /\ j.seen = dir[j.name] /\ j.op = job[g].op /\ j.name = job[g].name
          /\ j.pc = IF job[g].op = "delete" THEN "remove" ELSE "save"
      BY <3>1, <3>2 DEF MoverJobs
    <3>4. indexLock \in [Names -> Movers \cup {NoOne}]
          /\ (job[g].op \in LockedOps => indexLock[job[g].name] = g)
      BY <3>1 DEF WordInv, IndexHeld
    <3>5. /\ j.pc # "remove" \/ j.op = "delete"
          /\ j.pc \in {"save", "remove"} /\ dir[j.name] # NoFile
          /\ j.op \in LockedOps => indexLock'[j.name] = g
      BY <3>1, <3>3, <3>4
    <3>. QED
      BY <2>1, <3>1, <3>3, <3>4, <3>5, SameWord
  <2>6. ASSUME NEW g \in Movers, SaveFile(g) PROVE WordInv'
    <3>1. setTo' \in BOOLEAN
      BY <2>6, MoveWritesType DEF SaveFile, NamesInv, WordInv, FileDocuments
    <3>2. indexLock' \in [Names -> Movers \cup {NoOne}] /\ IndexHeld'
      <4>1. CASE Moves(job[g])
        <5>1. /\ UNCHANGED indexLock /\ job' = [job EXCEPT ![g].pc = "remove"]
              /\ job[g].pc = "save" /\ job \in [Movers -> MoverJobs]
          BY <2>6, <4>1 DEF SaveFile, NamesInv, NamesTyped
        <5>2. /\ job'[g].op = job[g].op /\ job'[g].name = job[g].name /\ job'[g].pc = "remove"
              /\ \A h \in Movers \ {g} : job'[h] = job[h]
          BY <5>1 DEF MoverJobs
        <5>3. indexLock \in [Names -> Movers \cup {NoOne}]
          BY DEF WordInv
        <5>. QED
          BY <5>1, <5>2, <5>3, LocksAfter
      <4>2. CASE ~Moves(job[g])
        BY <2>6, <4>2, ReturnsLocks, LocksAfter DEF SaveFile
      <4>. QED
        BY <4>1, <4>2
    <3>3. ~disturbed' => Unmoved' /\ OneWord'
      BY <2>1, <2>6, LockedSave, LoneSave
    <3>. QED
      BY <2>1, <3>1, <3>2, <3>3 DEF WordInv
  <2>7. ASSUME NEW g \in Movers, RemoveFile(g) PROVE WordInv'
    <3>1. MoveReturns(g) /\ setTo' = setTo
      BY <2>7 DEF RemoveFile
    <3>2. indexLock' \in [Names -> Movers \cup {NoOne}] /\ IndexHeld'
      BY <3>1, ReturnsLocks, LocksAfter
    <3>3. ~disturbed' => Unmoved' /\ OneWord'
      BY <2>1, <2>7, RemovalKeepsWord
    <3>. QED
      BY <2>1, <3>1, <3>2, <3>3 DEF WordInv
\* A restart in the middle of a move leaves the old file behind.
  <2>8. CASE Crash
    <3>1. /\ \A g \in Movers : job'[g].pc = "idle"
          /\ UNCHANGED <<dir, setTo, newest, gone>>
          /\ indexLock' \in [Names -> Movers \cup {NoOne}]
      BY <2>8 DEF Crash, Resting
    <3>2. ~disturbed' => \A g \in Movers : ~Moving(g)
      BY <2>1, <3>1 DEF LeftBehind, Moving, WordInv, Unmoved
    <3>3. ~disturbed' => \A n \in Names : Settled(n)' => Settled(n)
      BY <3>1, <3>2 DEF Settled
    <3>4. ~disturbed' => OneWord'
      BY <2>1, <3>1, <3>3 DEF WordInv, OneWord, Word
    <3>5. Unmoved' /\ IndexHeld'
      BY <3>1 DEF Unmoved, IndexHeld
    <3>. QED
      BY <2>1, <3>1, <3>4, <3>5 DEF WordInv
  <2>. QED
    BY <1>2, <2>2, <2>3, <2>4, <2>5, <2>6, <2>7, <2>8 DEF NamesNext, NamesStep, ReadFile, SaveFails, SaveError
<1>. QED
  BY <1>1, <1>2

(* While only the lifecycle moves files, the flag and the newest pair move *)
(* with them, and a deleted account has no file (hostAuthPersistMigrate).  *)
THEOREM LastWordStands == NamesSpec => []LastWordMoves
<1>1. ASSUME NamesInv, WordInv PROVE LastWordMoves
  <2>. SUFFICES ASSUME Rest, ~disturbed
                PROVE  IF gone THEN Present(dir) = {}
                       ELSE \E n \in Names :
                              Present(dir) = {n} /\ dir[n] = [disabled |-> setTo, token |-> newest]
    BY DEF LastWordMoves
  <2>1. \A n \in Names : dir[n] # NoFile => Settled(n)
    BY DEF Rest, Settled, Moving
  <2>2. /\ \A n \in Names : dir[n] # NoFile => ~gone /\ dir[n] = Word
        /\ \A m, n \in Names : dir[m] # NoFile /\ dir[n] # NoFile => m = n
    BY <1>1, <2>1 DEF WordInv, OneWord
  <2>3. CASE gone
    BY <2>2, <2>3 DEF Present
  <2>4. CASE ~gone
    <3>1. PICK n \in Names : dir[n] # NoFile
      BY <1>1, <2>4 DEF NamesInv, AlwaysAFile, Present
    <3>2. Present(dir) = {n} /\ dir[n] = Word
      BY <2>2, <3>1 DEF Present
    <3>. QED
      BY <2>4, <3>2 DEF Word
  <2>. QED
    BY <2>3, <2>4
<1>. QED
  BY <1>1, NamesInitially, NamesPreserved, WordInitially, WordPreserved, PTL DEF NamesSpec

(***************************************************************************)
(* The account cache.  What it promises of an account is about its past:   *)
(* when a confirmation was stored, when a refusal was, which balance the   *)
(* check-in found.  EntrySound says what the entry owes to each of these,  *)
(* and holds of an absent entry too.                                       *)
(***************************************************************************)

CallerSteps == {"idle", "fetch", "prune", "close", "release", "wait", "woken"}
Fetches == {"fetch", "prune", "close", "release"}

CacheTasks ==
  [pc : CallerSteps \cup {"card", "drop"}, account : Accounts \cup {Nobody},
   started : Instants, joined : Callers \cup {Nobody}, seen : Entries \cup {NoEntry}]

CacheTyped ==
  /\ now \in Instants
  /\ cache \in [Accounts -> Entries \cup {NoEntry}]
  /\ flight \in [Accounts -> Callers \cup {Nobody}]
  /\ task \in [CacheWorkers -> CacheTasks]
  /\ checkins \in [Accounts -> [pc : {"idle", "ask", "credits", "answer"}, started : Instants]]
  /\ receipt \in [Accounts -> Instants] /\ claimed \in [Accounts -> Instants]
  /\ rejected \in [Accounts -> Instants] /\ balance \in [Accounts -> Instants]

(* Who is at work, on an account, from an instant that has passed. *)
TaskSound(w) ==
  /\ task[w].pc \in CallerSteps => w \in Callers \/ task[w].pc = "idle"
  /\ task[w].pc # "idle" => task[w].account \in Accounts
  /\ task[w].pc = "fetch" => task[w].started # 0
  /\ task[w].started <= now
  /\ task[w].seen.confirmedAt <= now /\ task[w].seen.checkinFetched <= now

(* A flight is its caller's, who is at work on the account of it. *)
FlightSound ==
  /\ \A a \in Accounts : flight[a] # Nobody =>
       task[flight[a]].account = a /\ task[flight[a]].pc \in Fetches
  /\ \A c \in Callers : task[c].pc \in Fetches => flight[task[c].account] = c

(* What the entry owes to the history of the account. *)
EntrySound(a) ==
  LET entry == cache[a]
  IN  /\ receipt[a] <= claimed[a] /\ claimed[a] <= now /\ entry.confirmedAt <= now
      /\ entry.checkinFetched >= rejected[a] /\ entry.checkinFetched <= now
      /\ claimed[a] # 0 => entry.checkinAt >= claimed[a]
      /\ claimed[a] # 0 /\ entry.credits =>
           entry.creditsFetched \in {balance[a]} \cup claimed[a] .. now
      /\ receipt[a] > rejected[a] =>
           /\ entry.confirmedAt >= receipt[a] /\ entry.checkinFetched >= receipt[a]
           /\ Day(receipt[a]) = Day(now) => entry.checkin = "claimed"

CacheInv ==
  /\ CacheTyped /\ FlightSound
  /\ \A w \in CacheWorkers : TaskSound(w)
  /\ \A a \in Accounts : EntrySound(a) /\ checkins[a].started <= now

-----------------------------------------------------------------------------
Snapshots == [entry : Entries, invalidate : BOOLEAN]

(* Time passes from one instant to the next, or stands still. *)
OneInstant == now' \in {now, now + 1} /\ now' \in Instants

LEMMA Clock ==
  /\ MaxTime \in Nat /\ Instants = 0 .. MaxTime /\ DayLength \in Nat \ {0} /\ Grace \in Nat \ {0}
  /\ \A t \in Instants : t \in Nat /\ t <= MaxTime
  /\ EmptyEntry \in Entries
BY AccountCacheAssumption DEF Instants, EmptyEntry, Entries

(* Later instants are of no earlier day. *)
LEMMA DaysGrow ==
  ASSUME NEW s \in Nat, NEW t \in Nat, s <= t
  PROVE  Day(s) \in Int /\ Day(t) \in Int /\ Day(s) <= Day(t)
<1>1. DayLength \in Nat \ {0}
  BY Clock
<1>2. s \div DayLength \in Int /\ t \div DayLength \in Int
  BY <1>1
<1>3. s \div DayLength <= t \div DayLength
  BY <1>1, <1>2, SMTT(30)
<1>. QED
  BY <1>2, <1>3 DEF Day

LEMMA MergedType ==
  ASSUME NEW old \in Entries \cup {NoEntry}, NEW snapshot \in Snapshots, NEW time
  PROVE  Merged(old, snapshot, time) \in Entries
<1>. DEFINE s == snapshot.entry
            entry == IF old = NoEntry THEN EmptyEntry ELSE old
            checkinAt == Later(s.checkinAt, entry.checkinAt)
            confirmedAt == Later(s.confirmedAt, entry.confirmedAt)
            checks == /\ TakesCheckin(s, entry)
                      /\ ~KeepsReceipt(snapshot, entry, confirmedAt, time)
            spends == TakesCredits(s, entry, checkinAt)
<1>1. s \in Entries /\ entry \in Entries /\ 0 \in Instants
  BY Clock DEF Snapshots
<1>2. checkinAt \in Instants /\ confirmedAt \in Instants
  BY <1>1 DEF Later, Entries
<1>3. Merged(old, snapshot, time) =
        [checkin |-> IF checks THEN s.checkin ELSE entry.checkin,
         checkinFetched |-> IF checks THEN s.checkinFetched ELSE entry.checkinFetched,
         checkinAt |-> checkinAt,
         confirmedAt |-> IF checks /\ snapshot.invalidate THEN 0 ELSE confirmedAt,
         credits |-> IF spends THEN s.credits ELSE entry.credits,
         creditsFetched |-> IF spends THEN s.creditsFetched ELSE entry.creditsFetched,
         fetched |-> IF snapshot.invalidate THEN 0
                     ELSE IF s.fetched > entry.fetched /\ s.fetched >= checkinAt
                            THEN s.fetched ELSE entry.fetched]
  BY DEF Merged
<1>. HIDE DEF s, entry, checkinAt, confirmedAt, checks, spends
<1>. QED
  BY <1>1, <1>2, <1>3 DEF Entries
(* An account whose history stands, and whose entry does but for a balance *)
(* that may be dropped.                                                    *)
LEMMA EntryKeeps ==
  ASSUME CacheInv, NEW a \in Accounts, OneInstant,
         cache'[a].checkin = cache[a].checkin, cache'[a].checkinAt = cache[a].checkinAt,
         cache'[a].checkinFetched = cache[a].checkinFetched,
         cache'[a].confirmedAt = cache[a].confirmedAt,
         cache'[a].creditsFetched = cache[a].creditsFetched,
         cache'[a].credits => cache[a].credits,
         receipt'[a] = receipt[a], claimed'[a] = claimed[a],
         rejected'[a] = rejected[a], balance'[a] = balance[a]
  PROVE  EntrySound(a)'
<1>1. /\ now \in Nat /\ now' \in Nat /\ now <= now'
      /\ receipt[a] \in Nat /\ claimed[a] \in Nat /\ rejected[a] \in Nat /\ balance[a] \in Nat
  BY Clock DEF CacheInv, CacheTyped, OneInstant
<1>3. /\ cache[a].confirmedAt \in Nat /\ cache[a].creditsFetched \in Nat
      /\ cache[a].checkinFetched \in Nat
  <2>1. cache[a] \in Entries \/ cache[a] = NoEntry
    BY DEF CacheInv, CacheTyped
  <2>2. CASE cache[a] \in Entries
    BY <2>2, Clock DEF Entries
  <2>3. NoEntry.confirmedAt = 0 /\ NoEntry.creditsFetched = 0 /\ NoEntry.checkinFetched = 0
    BY DEF NoEntry, EmptyEntry
  <2>. QED
    BY <2>1, <2>2, <2>3
<1>2. Day(receipt[a]) = Day(now') => Day(receipt[a]) = Day(now)
  <2>1. receipt[a] <= now
    BY <1>1 DEF CacheInv, EntrySound
  <2>. QED
    BY <1>1, <2>1, DaysGrow
<1>. QED
  BY <1>1, <1>2, <1>3 DEF CacheInv, EntrySound

LEMMA EntryStands ==
  ASSUME CacheInv, NEW a \in Accounts, OneInstant, cache'[a] = cache[a],
         receipt'[a] = receipt[a], claimed'[a] = claimed[a],
         rejected'[a] = rejected[a], balance'[a] = balance[a]
  PROVE  EntrySound(a)'
BY EntryKeeps

(* An account whose history begins again. *)
LEMMA EntryStartsOver ==
  ASSUME CacheInv, NEW a \in Accounts, OneInstant,
         cache'[a] \in Entries \cup {NoEntry}, cache'[a].confirmedAt <= now',
         cache'[a].checkinFetched <= now',
         receipt'[a] = 0, claimed'[a] = 0, rejected'[a] = 0, balance'[a] = 0
  PROVE  EntrySound(a)'
<1>1. now' \in Nat /\ cache'[a].checkinFetched \in Nat
  <2>1. CASE cache'[a] \in Entries
    BY <2>1, Clock DEF Entries, OneInstant
  <2>2. NoEntry.checkinFetched = 0
    BY DEF NoEntry, EmptyEntry
  <2>. QED
    BY <2>1, <2>2, Clock DEF OneInstant
<1>. QED
  BY <1>1 DEF EntrySound

(* The answer of a query is merged; it may refuse the credential. *)
LEMMA AnswerStored ==
  ASSUME CacheInv, NEW a \in Accounts, NEW snapshot \in Snapshots, OneInstant,
         cache'[a] = Merged(cache[a], snapshot, now'),
         snapshot.entry.checkinAt = 0, snapshot.entry.confirmedAt = 0,
         snapshot.entry.creditsFetched <= now', snapshot.entry.checkinFetched <= now',
         snapshot.invalidate => snapshot.entry.checkinFetched # 0,
         receipt'[a] = receipt[a], claimed'[a] = claimed[a], balance'[a] = balance[a],
         rejected'[a] = IF snapshot.invalidate
                        THEN Later(rejected[a], snapshot.entry.checkinFetched)
                        ELSE rejected[a]
  PROVE  EntrySound(a)'
<1>. DEFINE old == cache[a]
            s == snapshot.entry
            entry == IF old = NoEntry THEN EmptyEntry ELSE old
            confirmedAt == Later(s.confirmedAt, entry.confirmedAt)
            checks == /\ TakesCheckin(s, entry)
                      /\ ~KeepsReceipt(snapshot, entry, confirmedAt, now')
<1>1. /\ now \in Nat /\ now' \in Nat /\ now <= now' /\ now' <= now + 1
      /\ receipt[a] \in Nat /\ claimed[a] \in Nat /\ rejected[a] \in Nat /\ balance[a] \in Nat
  BY Clock DEF CacheInv, CacheTyped, OneInstant
<1>2. s \in Entries /\ entry \in Entries /\ snapshot.invalidate \in BOOLEAN
  BY Clock DEF Snapshots, CacheInv, CacheTyped
<1>3. /\ s.checkinFetched \in Nat /\ s.creditsFetched \in Nat /\ s.checkin \in {"nil", "open", "claimed"}
      /\ entry.checkinFetched \in Nat /\ entry.creditsFetched \in Nat /\ entry.confirmedAt \in Nat
      /\ entry.checkinAt \in Nat /\ s.credits \in BOOLEAN /\ entry.credits \in BOOLEAN
  BY <1>2, Clock DEF Entries
<1>4. confirmedAt = entry.confirmedAt /\ Later(s.checkinAt, entry.checkinAt) = entry.checkinAt
  BY <1>3 DEF Later
<1>5. /\ cache'[a].checkin = (IF checks THEN s.checkin ELSE entry.checkin)
      /\ cache'[a].checkinFetched = (IF checks THEN s.checkinFetched ELSE entry.checkinFetched)
      /\ cache'[a].checkinAt = entry.checkinAt
      /\ cache'[a].confirmedAt = (IF checks /\ snapshot.invalidate THEN 0 ELSE entry.confirmedAt)
      /\ cache'[a].credits =
           (IF TakesCredits(s, entry, entry.checkinAt) THEN s.credits ELSE entry.credits)
      /\ cache'[a].creditsFetched =
           (IF TakesCredits(s, entry, entry.checkinAt) THEN s.creditsFetched
            ELSE entry.creditsFetched)
  BY <1>4 DEF Merged
<1>6. /\ entry.checkin = old.checkin /\ entry.checkinFetched = old.checkinFetched
      /\ entry.checkinAt = old.checkinAt /\ entry.confirmedAt = old.confirmedAt
      /\ entry.credits = old.credits /\ entry.creditsFetched = old.creditsFetched
  BY DEF NoEntry, EmptyEntry
<1>7. /\ receipt[a] <= claimed[a] /\ claimed[a] <= now /\ entry.confirmedAt <= now
      /\ entry.checkinFetched >= rejected[a] /\ entry.checkinFetched <= now
      /\ claimed[a] # 0 => entry.checkinAt >= claimed[a]
      /\ claimed[a] # 0 /\ entry.credits =>
           entry.creditsFetched \in {balance[a]} \cup claimed[a] .. now
      /\ receipt[a] > rejected[a] =>
           /\ entry.confirmedAt >= receipt[a] /\ entry.checkinFetched >= receipt[a]
           /\ Day(receipt[a]) = Day(now) => entry.checkin = "claimed"
  BY <1>6 DEF CacheInv, EntrySound
<1>8. checks =>
        /\ s.checkinFetched >= entry.checkinFetched
        /\ ~snapshot.invalidate /\ entry.checkin = "claimed" /\ entry.confirmedAt # 0
           /\ Day(entry.confirmedAt) = Day(now') => s.checkin = "claimed"
  BY <1>4 DEF TakesCheckin, KeepsReceipt
<1>9. snapshot.invalidate /\ ~checks => entry.checkinFetched > s.checkinFetched
  BY <1>3 DEF TakesCheckin, KeepsReceipt
<1>10. TakesCredits(s, entry, entry.checkinAt) =>
         s.creditsFetched >= entry.checkinAt /\ s.creditsFetched <= now'
  BY DEF TakesCredits
<1>. HIDE DEF old, s, entry, confirmedAt, checks
<1>11. cache'[a].checkinFetched >= rejected'[a] /\ cache'[a].checkinFetched <= now'
  BY <1>1, <1>3, <1>5, <1>7, <1>8, <1>9 DEF Later, s
<1>12. claimed[a] # 0 /\ cache'[a].credits =>
         cache'[a].creditsFetched \in {balance[a]} \cup claimed[a] .. now'
  BY <1>1, <1>3, <1>5, <1>7, <1>10
<1>13. ASSUME receipt[a] > rejected'[a]
       PROVE  /\ cache'[a].confirmedAt >= receipt[a] /\ cache'[a].checkinFetched >= receipt[a]
              /\ Day(receipt[a]) = Day(now') => cache'[a].checkin = "claimed"
  <2>1. receipt[a] > rejected[a]
    BY <1>1, <1>3, <1>13 DEF Later, s
  <2>2. ~(checks /\ snapshot.invalidate)
    <3> SUFFICES ASSUME checks, snapshot.invalidate PROVE FALSE
      OBVIOUS
    <3>1. /\ rejected'[a] \in Nat /\ rejected'[a] >= s.checkinFetched
          /\ s.checkinFetched >= entry.checkinFetched
      BY <1>1, <1>3, <1>8 DEF Later, s
    <3>. QED
      BY <1>1, <1>3, <1>7, <1>13, <2>1, <3>1
  <2>3. ASSUME Day(receipt[a]) = Day(now') PROVE cache'[a].checkin = "claimed"
    <3>1. Day(receipt[a]) = Day(now) /\ Day(entry.confirmedAt) = Day(now')
      BY <1>1, <1>3, <1>7, <2>1, <2>3, DaysGrow
    <3>2. entry.confirmedAt # 0
      BY <1>1, <1>3, <1>7, <2>1
    <3>. QED
      BY <1>5, <1>7, <1>8, <2>1, <2>2, <3>1, <3>2
  <2>. QED
    BY <1>1, <1>3, <1>5, <1>7, <1>8, <2>1, <2>2, <2>3
<1>. QED
  BY <1>1, <1>3, <1>5, <1>7, <1>11, <1>12, <1>13 DEF EntrySound
(* A confirmation is merged, with a summary or without one. *)
LEMMA ConfirmationStored ==
  ASSUME CacheInv, NEW a \in Accounts, NEW checkin \in {"nil", "claimed"}, OneInstant,
         now' = now + 1,
         cache'[a] = Merged(cache[a], Confirmation(checkin, now'), now'),
         claimed'[a] = now', rejected'[a] = rejected[a],
         receipt'[a] = (IF checkin = "nil" THEN receipt[a] ELSE now'),
         balance'[a] = cache[a].creditsFetched
  PROVE  EntrySound(a)'
<1>. DEFINE snapshot == Confirmation(checkin, now')
            s == snapshot.entry
            entry == IF cache[a] = NoEntry THEN EmptyEntry ELSE cache[a]
            checks == checkin = "claimed"
<1>1. /\ now \in Nat /\ now' \in Nat /\ now <= now' /\ now' # 0
      /\ receipt[a] \in Nat /\ claimed[a] \in Nat /\ rejected[a] \in Nat /\ balance[a] \in Nat
  BY Clock DEF CacheInv, CacheTyped, OneInstant
<1>2. entry \in Entries
  BY Clock DEF CacheInv, CacheTyped
<1>3. /\ entry.checkinFetched \in Nat /\ entry.creditsFetched \in Nat /\ entry.confirmedAt \in Nat
      /\ entry.checkinAt \in Nat /\ entry.credits \in BOOLEAN
  BY <1>2, Clock DEF Entries
<1>4. /\ entry.checkin = cache[a].checkin /\ entry.checkinFetched = cache[a].checkinFetched
      /\ entry.checkinAt = cache[a].checkinAt /\ entry.confirmedAt = cache[a].confirmedAt
      /\ entry.credits = cache[a].credits /\ entry.creditsFetched = cache[a].creditsFetched
  BY DEF NoEntry, EmptyEntry
<1>5. /\ receipt[a] <= claimed[a] /\ claimed[a] <= now /\ entry.confirmedAt <= now
      /\ entry.checkinFetched >= rejected[a] /\ entry.checkinFetched <= now
      /\ claimed[a] # 0 => entry.checkinAt >= claimed[a]
      /\ receipt[a] > rejected[a] =>
           /\ entry.confirmedAt >= receipt[a] /\ entry.checkinFetched >= receipt[a]
           /\ Day(receipt[a]) = Day(now) => entry.checkin = "claimed"
  BY <1>4 DEF CacheInv, EntrySound
<1>6. /\ s.checkin = checkin /\ s.checkinAt = now' /\ s.confirmedAt = now'
      /\ s.checkinFetched = (IF checkin = "nil" THEN 0 ELSE now')
      /\ s.creditsFetched = 0 /\ snapshot.invalidate = FALSE
  BY DEF Confirmation, Snapshot, EmptyEntry
<1>7. /\ ~TakesCredits(s, entry, Later(s.checkinAt, entry.checkinAt))
      /\ TakesCheckin(s, entry) <=> checks
      /\ checks => ~KeepsReceipt(snapshot, entry, Later(s.confirmedAt, entry.confirmedAt), now')
  BY <1>1, <1>3, <1>5, <1>6 DEF TakesCredits, TakesCheckin, KeepsReceipt
<1>8. /\ Later(s.confirmedAt, entry.confirmedAt) = now'
      /\ Later(s.checkinAt, entry.checkinAt) >= now'
  BY <1>1, <1>3, <1>5, <1>6 DEF Later
<1>9. /\ cache'[a].checkin = (IF checks THEN "claimed" ELSE entry.checkin)
      /\ cache'[a].checkinFetched = (IF checks THEN now' ELSE entry.checkinFetched)
      /\ cache'[a].checkinAt = Later(s.checkinAt, entry.checkinAt)
      /\ cache'[a].confirmedAt = now'
      /\ cache'[a].credits = entry.credits
      /\ cache'[a].creditsFetched = entry.creditsFetched
  BY <1>6, <1>7, <1>8 DEF Merged
<1>. HIDE DEF snapshot, s, entry
<1>10. Day(receipt[a]) = Day(now') /\ receipt[a] > rejected[a] => Day(receipt[a]) = Day(now)
  BY <1>1, <1>5, DaysGrow
<1>. QED
  BY <1>1, <1>3, <1>4, <1>5, <1>8, <1>9, <1>10 DEF EntrySound

-----------------------------------------------------------------------------
(* What no step of the others disturbs. *)
LEMMA EntriesStand ==
  ASSUME CacheInv, OneInstant, UNCHANGED <<cache, cacheHistory>>
  PROVE  \A a \in Accounts : EntrySound(a)'
BY EntryStands DEF cacheHistory

LEMMA FlightStands ==
  ASSUME CacheInv, flight' = flight,
         \A c \in Callers :
           /\ task'[c].pc \in Fetches <=> task[c].pc \in Fetches
           /\ task[c].pc \in Fetches => task'[c].account = task[c].account
  PROVE  FlightSound'
<1>1. flight \in [Accounts -> Callers \cup {Nobody}]
  BY DEF CacheInv, CacheTyped
<1>. QED
  BY <1>1 DEF CacheInv, FlightSound

(* One goroutine moves. *)
LEMMA TaskMoves ==
  ASSUME CacheInv, OneInstant, NEW w \in CacheWorkers, NEW t \in CacheTasks,
         task' = [task EXCEPT ![w] = t],
         t.pc \in CallerSteps => w \in Callers \/ t.pc = "idle",
         t.pc # "idle" => t.account \in Accounts,
         t.pc = "fetch" => t.started # 0,
         t.started <= now', t.seen.confirmedAt <= now', t.seen.checkinFetched <= now'
  PROVE  /\ task' \in [CacheWorkers -> CacheTasks]
         /\ \A v \in CacheWorkers : TaskSound(v)'
         /\ task'[w] = t
         /\ \A v \in CacheWorkers \ {w} : task'[v] = task[v]
<1>1. task \in [CacheWorkers -> CacheTasks]
  BY DEF CacheInv, CacheTyped
<1>2. task' \in [CacheWorkers -> CacheTasks] /\ task'[w] = t
      /\ \A v \in CacheWorkers \ {w} : task'[v] = task[v]
  BY <1>1
<1>3. ASSUME NEW v \in CacheWorkers, v # w PROVE TaskSound(v)'
  <2>1. TaskSound(v) /\ task'[v] = task[v] /\ task[v] \in CacheTasks
    BY <1>1, <1>2, <1>3 DEF CacheInv
  <2>2. task[v].seen.confirmedAt \in Nat /\ task[v].seen.checkinFetched \in Nat
    <3>1. task[v].seen \in Entries \/ task[v].seen = NoEntry
      BY <2>1 DEF CacheTasks
    <3>2. CASE task[v].seen \in Entries
      BY <3>2, Clock DEF Entries
    <3>3. NoEntry.confirmedAt = 0 /\ NoEntry.checkinFetched = 0
      BY DEF NoEntry, EmptyEntry
    <3>. QED
      BY <3>1, <3>2, <3>3
  <2>3. task[v].started \in Nat /\ now \in Nat /\ now' \in Nat /\ now <= now'
    BY <2>1, Clock DEF CacheTasks, OneInstant, CacheInv, CacheTyped
  <2>. QED
    BY <2>1, <2>2, <2>3 DEF TaskSound
<1>4. TaskSound(w)'
  BY <1>2 DEF TaskSound
<1>. QED
  BY <1>2, <1>3, <1>4
(* A check-in moves on, from an instant that has passed. *)
LEMMA AskMoves ==
  ASSUME CacheInv, OneInstant,
         \/ checkins' = checkins
         \/ \E a \in Accounts, pc \in {"idle", "ask", "credits", "answer"},
               started \in Instants :
              started <= now' /\ checkins' = [checkins EXCEPT ![a] = [pc |-> pc, started |-> started]]
  PROVE  /\ checkins' \in [Accounts -> [pc : {"idle", "ask", "credits", "answer"},
                                        started : Instants]]
         /\ \A a \in Accounts : checkins'[a].started <= now'
<1>1. /\ checkins \in [Accounts -> [pc : {"idle", "ask", "credits", "answer"},
                                    started : Instants]]
      /\ \A a \in Accounts : checkins[a].started <= now
  BY DEF CacheInv, CacheTyped
<1>2. \A a \in Accounts : checkins[a].started <= now'
  <2>1. \A a \in Accounts : checkins[a].started \in Nat
    BY <1>1, Clock
  <2>. QED
    BY <1>1, <2>1, Clock DEF OneInstant, CacheInv, CacheTyped
<1>. QED
  BY <1>1, <1>2

(* The answer of a query changes the entry of its account alone. *)
LEMMA AnswerKeeps ==
  ASSUME CacheInv, OneInstant, NEW a \in Accounts, NEW snapshot \in Snapshots,
         Store(a, snapshot, now'),
         snapshot.entry.checkinAt = 0, snapshot.entry.confirmedAt = 0,
         snapshot.entry.creditsFetched <= now', snapshot.entry.checkinFetched <= now',
         snapshot.invalidate => snapshot.entry.checkinFetched # 0,
         UNCHANGED <<receipt, claimed, balance>>,
         rejected' = [rejected EXCEPT ![a] =
           IF snapshot.invalidate THEN Later(@, snapshot.entry.checkinFetched) ELSE @]
  PROVE  /\ cache' \in [Accounts -> Entries \cup {NoEntry}]
         /\ rejected' \in [Accounts -> Instants]
         /\ \A b \in Accounts : EntrySound(b)'
<1>1. cache \in [Accounts -> Entries \cup {NoEntry}] /\ rejected \in [Accounts -> Instants]
  BY DEF CacheInv, CacheTyped
<1>2. Merged(cache[a], snapshot, now') \in Entries
  BY <1>1, MergedType
<1>3. cache' \in [Accounts -> Entries \cup {NoEntry}]
      /\ cache'[a] = Merged(cache[a], snapshot, now')
      /\ \A b \in Accounts \ {a} : cache'[b] = cache[b]
  BY <1>1, <1>2 DEF Store
<1>4. /\ rejected' \in [Accounts -> Instants]
      /\ rejected'[a] = IF snapshot.invalidate
                        THEN Later(rejected[a], snapshot.entry.checkinFetched) ELSE rejected[a]
      /\ \A b \in Accounts \ {a} : rejected'[b] = rejected[b]
  <2>1. snapshot.entry.checkinFetched \in Instants
    BY DEF Snapshots, Entries
  <2>. QED
    BY <1>1, <2>1 DEF Later
<1>5. EntrySound(a)'
  BY <1>3, <1>4, AnswerStored
<1>6. \A b \in Accounts \ {a} : EntrySound(b)'
  BY <1>3, <1>4, EntryStands
<1>. QED
  BY <1>3, <1>4, <1>5, <1>6

(* Entries are forgotten, or replaced: their history begins again, and the *)
(* rest stands.                                                            *)
LEMMA ForgetKeeps ==
  ASSUME CacheInv, OneInstant, NEW forgotten \in SUBSET Accounts, StartOver(forgotten),
         cache' \in [Accounts -> Entries \cup {NoEntry}],
         \A a \in Accounts : cache'[a].confirmedAt <= now' /\ cache'[a].checkinFetched <= now',
         \A a \in Accounts \ forgotten : cache'[a] = cache[a] \/ EntrySound(a)'
  PROVE  /\ receipt' \in [Accounts -> Instants] /\ claimed' \in [Accounts -> Instants]
         /\ rejected' \in [Accounts -> Instants] /\ balance' \in [Accounts -> Instants]
         /\ \A a \in Accounts : EntrySound(a)'
<1>1. /\ receipt \in [Accounts -> Instants] /\ claimed \in [Accounts -> Instants]
      /\ rejected \in [Accounts -> Instants] /\ balance \in [Accounts -> Instants]
  BY DEF CacheInv, CacheTyped
<1>2. /\ receipt' = [a \in Accounts |-> IF a \in forgotten THEN 0 ELSE receipt[a]]
      /\ claimed' = [a \in Accounts |-> IF a \in forgotten THEN 0 ELSE claimed[a]]
      /\ rejected' = [a \in Accounts |-> IF a \in forgotten THEN 0 ELSE rejected[a]]
      /\ balance' = [a \in Accounts |-> IF a \in forgotten THEN 0 ELSE balance[a]]
  BY DEF StartOver
<1>3. ASSUME NEW a \in forgotten PROVE EntrySound(a)'
  BY <1>2, EntryStartsOver
<1>4. ASSUME NEW a \in Accounts \ forgotten PROVE EntrySound(a)'
  BY <1>2, EntryStands
<1>. QED
  BY <1>1, <1>2, <1>3, <1>4, Clock

-----------------------------------------------------------------------------
LEMMA CacheInitially == CacheInit => CacheInv
<1>. SUFFICES ASSUME CacheInit PROVE CacheInv
  OBVIOUS
<1>. USE DEF CacheInit
<1>1. 0 \in Instants /\ NoEntry.confirmedAt = 0 /\ NoEntry.checkinFetched = 0
      /\ NoEntry.credits = FALSE /\ NoEntry.checkinAt = 0
  BY Clock DEF NoEntry, EmptyEntry
<1>2. Free \in CacheTasks
  BY <1>1 DEF Free, CacheTasks, CallerSteps
<1>3. CacheTyped
  BY <1>1, <1>2 DEF CacheTyped, IdleCheckin
<1>4. FlightSound
  BY DEF FlightSound, Free, Fetches, CacheWorkers
<1>5. \A w \in CacheWorkers : TaskSound(w)
  BY <1>1 DEF TaskSound, Free
<1>6. \A a \in Accounts : EntrySound(a) /\ checkins[a].started <= now
  BY <1>1 DEF EntrySound, IdleCheckin
<1>. QED
  BY <1>3, <1>4, <1>5, <1>6 DEF CacheInv

(* An entry of a goroutine that has nothing to do. *)
LEMMA FreeTask ==
  /\ Free \in CacheTasks /\ Free.pc = "idle" /\ Free.started = 0 /\ Free.account = Nobody
  /\ Free.seen = NoEntry /\ NoEntry.confirmedAt = 0 /\ NoEntry.checkinFetched = 0
BY Clock DEF Free, CacheTasks, CallerSteps, NoEntry, EmptyEntry
(* Steps that leave entries and their history as they are. *)
LEMMA QuietSteps ==
  ASSUME CacheInv, OneInstant, UNCHANGED <<cache, cacheHistory>>,
         flight' \in [Accounts -> Callers \cup {Nobody}], FlightSound',
         task' \in [CacheWorkers -> CacheTasks], \A w \in CacheWorkers : TaskSound(w)',
         \/ checkins' = checkins
         \/ \E a \in Accounts, pc \in {"idle", "ask", "credits", "answer"},
               started \in Instants :
              started <= now' /\ checkins' = [checkins EXCEPT ![a] = [pc |-> pc, started |-> started]]
  PROVE  CacheInv'
<1>1. \A a \in Accounts : EntrySound(a)'
  BY EntriesStand
<1>2. CacheTyped'
  BY AskMoves DEF CacheInv, CacheTyped, OneInstant, cacheHistory
<1>. QED
  BY <1>1, <1>2, AskMoves DEF CacheInv

(* The clock does not move. *)
LEMMA NoTime == CacheInv /\ now' = now => OneInstant
BY DEF OneInstant, CacheInv, CacheTyped

LEMMA ATime == CacheInv /\ Stamp => OneInstant /\ now' = now + 1 /\ now + 1 \in Instants
BY Clock DEF OneInstant, CacheInv, CacheTyped, Stamp

LEMMA TasksStand ==
  ASSUME CacheInv, OneInstant, task' = task
  PROVE  task' \in [CacheWorkers -> CacheTasks] /\ \A w \in CacheWorkers : TaskSound(w)'
<1>1. task \in [CacheWorkers -> CacheTasks]
  BY DEF CacheInv, CacheTyped
<1>2. ASSUME NEW w \in CacheWorkers PROVE TaskSound(w)'
  <2>1. task' = [task EXCEPT ![w] = task[w]] /\ task[w] \in CacheTasks /\ TaskSound(w)
    BY <1>1 DEF CacheInv
  <2>2. task[w].seen.confirmedAt \in Nat /\ task[w].seen.checkinFetched \in Nat
    <3>1. task[w].seen \in Entries \/ task[w].seen = NoEntry
      BY <2>1 DEF CacheTasks
    <3>2. CASE task[w].seen \in Entries
      BY <3>2, Clock DEF Entries
    <3>3. NoEntry.confirmedAt = 0 /\ NoEntry.checkinFetched = 0
      BY DEF NoEntry, EmptyEntry
    <3>. QED
      BY <3>1, <3>2, <3>3
  <2>3. task[w].started \in Nat /\ now \in Nat /\ now' \in Nat /\ now <= now'
    BY <2>1, Clock DEF CacheTasks, OneInstant, CacheInv, CacheTyped
  <2>. QED
    BY <2>1, <2>2, <2>3 DEF TaskSound
<1>. QED
  BY <1>1, <1>2

(* A caller becomes the fetcher of an account that has none, or waits. *)
LEMMA CallStep ==
  ASSUME CacheInv, NEW c \in Callers, NEW a \in Accounts, Call(c, a)
  PROVE  CacheInv'
<1>1. /\ task[c].pc = "idle" /\ UNCHANGED <<cache, checkins, cacheHistory>>
      /\ c \in CacheWorkers /\ Nobody \notin CacheWorkers
  BY AccountCacheAssumption DEF Call, CacheWorkers
<1>2. /\ flight \in [Accounts -> Callers \cup {Nobody}] /\ task \in [CacheWorkers -> CacheTasks]
      /\ \A b \in Accounts : flight[b] # c
  BY <1>1 DEF CacheInv, CacheTyped, FlightSound, Fetches
<1>3. CASE flight[a] = Nobody
  <2>. DEFINE t == [Free EXCEPT !.pc = "fetch", !.account = a, !.started = now + 1]
  <2>1. /\ Stamp /\ flight' = [flight EXCEPT ![a] = c] /\ task' = [task EXCEPT ![c] = t]
    BY <1>3 DEF Call
  <2>2. OneInstant /\ now' = now + 1 /\ now + 1 \in Instants /\ now \in Nat
    BY <2>1, ATime, Clock DEF CacheInv, CacheTyped
  <2>3. /\ t \in CacheTasks /\ t.pc = "fetch" /\ t.account = a /\ t.started = now + 1
        /\ t.seen = NoEntry
    BY <2>2, FreeTask DEF CacheTasks, CallerSteps
  <2>. HIDE DEF t
  <2>4. /\ task' \in [CacheWorkers -> CacheTasks]
        /\ \A v \in CacheWorkers : TaskSound(v)'
        /\ task'[c] = t
        /\ \A v \in CacheWorkers \ {c} : task'[v] = task[v]
    <3>1. /\ t.pc \in CallerSteps => c \in Callers \/ t.pc = "idle"
          /\ t.pc # "idle" => t.account \in Accounts
          /\ t.pc = "fetch" => t.started # 0
          /\ t.started <= now' /\ t.seen.confirmedAt <= now' /\ t.seen.checkinFetched <= now'
      BY <2>2, <2>3, FreeTask
    <3>. QED
      BY ONLY CacheInv, <1>1, <2>1, <2>2, <2>3, <3>1, TaskMoves
  <2>5. FlightSound'
    <3>1. ASSUME NEW b \in Accounts, flight'[b] # Nobody
          PROVE  task'[flight'[b]].account = b /\ task'[flight'[b]].pc \in Fetches
      <4>1. CASE b = a
        BY <1>2, <2>1, <2>3, <2>4, <4>1 DEF Fetches
      <4>2. CASE b # a
        <5>1. flight'[b] = flight[b] /\ flight[b] \in CacheWorkers \ {c}
          BY <1>2, <2>1, <3>1, <4>2 DEF CacheWorkers
        <5>. QED
          BY <2>4, <3>1, <5>1 DEF CacheInv, FlightSound
      <4>. QED
        BY <4>1, <4>2
    <3>2. ASSUME NEW d \in Callers, task'[d].pc \in Fetches
          PROVE  flight'[task'[d].account] = d
      <4>1. CASE d = c
        BY <1>2, <2>1, <2>3, <2>4, <4>1
      <4>2. CASE d # c
        <5>1. task'[d] = task[d] /\ flight[task[d].account] = d /\ d # Nobody
          BY <1>1, <2>4, <3>2, <4>2 DEF CacheWorkers, CacheInv, FlightSound
        <5>2. task[d].account # a /\ task[d].account \in Accounts
          BY <1>1, <1>3, <3>2, <5>1 DEF CacheInv, TaskSound, Fetches, CacheWorkers
        <5>. QED
          BY <1>2, <2>1, <5>1, <5>2
      <4>. QED
        BY <4>1, <4>2
    <3>. QED
      BY <3>1, <3>2 DEF FlightSound
  <2>6. flight' \in [Accounts -> Callers \cup {Nobody}]
    BY <1>2, <2>1
  <2>. QED
    BY <1>1, <2>2, <2>4, <2>5, <2>6, QuietSteps
<1>4. CASE flight[a] # Nobody
  <2>. DEFINE pc == IF task[flight[a]].pc = "release" THEN "woken" ELSE "wait"
              t == [Free EXCEPT !.pc = pc, !.account = a, !.joined = flight[a]]
  <2>1. now' = now /\ flight' = flight /\ task' = [task EXCEPT ![c] = t]
    BY <1>4 DEF Call
  <2>2. OneInstant /\ now \in Nat
    BY <2>1, NoTime, Clock DEF CacheInv, CacheTyped
  <2>3. /\ t \in CacheTasks /\ t.pc \in {"wait", "woken"} /\ t.account = a /\ t.started = 0
        /\ t.seen = NoEntry
    BY <1>2, <1>4, FreeTask DEF CacheTasks, CallerSteps
  <2>. HIDE DEF t, pc
  <2>4. /\ task' \in [CacheWorkers -> CacheTasks]
        /\ \A v \in CacheWorkers : TaskSound(v)'
        /\ task'[c] = t
        /\ \A v \in CacheWorkers \ {c} : task'[v] = task[v]
    <3>1. /\ t.pc \in CallerSteps => c \in Callers \/ t.pc = "idle"
          /\ t.pc # "idle" => t.account \in Accounts
          /\ t.pc = "fetch" => t.started # 0
          /\ t.started <= now' /\ t.seen.confirmedAt <= now' /\ t.seen.checkinFetched <= now'
      BY <2>1, <2>2, <2>3, FreeTask
    <3>. QED
      BY ONLY CacheInv, <1>1, <2>1, <2>2, <2>3, <3>1, TaskMoves
  <2>5. FlightSound'
    BY <1>1, <2>1, <2>3, <2>4, FlightStands DEF Fetches, CacheWorkers
  <2>. QED
    BY <1>1, <1>2, <2>1, <2>2, <2>4, <2>5, QuietSteps
<1>. QED
  BY <1>3, <1>4
(* A goroutine's own task, with another step next. *)
LEMMA TaskSteps ==
  ASSUME CacheInv, OneInstant, NEW w \in CacheWorkers,
         NEW pc \in {"idle", "fetch", "prune", "close", "release", "woken"},
         task' = [task EXCEPT ![w].pc = pc],
         pc = "idle" \/ (w \in Callers /\ task[w].pc # "idle"),
         pc = "fetch" => task[w].pc = "fetch"
  PROVE  /\ task' \in [CacheWorkers -> CacheTasks]
         /\ \A v \in CacheWorkers : TaskSound(v)'
         /\ task'[w] = [task[w] EXCEPT !.pc = pc]
         /\ \A v \in CacheWorkers \ {w} : task'[v] = task[v]
<1>. DEFINE t == [task[w] EXCEPT !.pc = pc]
<1>1. task \in [CacheWorkers -> CacheTasks] /\ TaskSound(w) /\ TaskSound(w)
  BY DEF CacheInv, CacheTyped
<1>2. task' = [task EXCEPT ![w] = t] /\ t \in CacheTasks
  BY <1>1 DEF CacheTasks, CallerSteps
<1>3. /\ t.pc = pc /\ t.account = task[w].account /\ t.started = task[w].started
      /\ t.seen = task[w].seen
  BY <1>1 DEF CacheTasks
<1>4. /\ t.started <= now' /\ t.seen.confirmedAt <= now' /\ t.seen.checkinFetched <= now'
  <2>1. task[w].seen.confirmedAt \in Nat /\ task[w].seen.checkinFetched \in Nat
    <3>1. task[w].seen \in Entries \/ task[w].seen = NoEntry
      BY <1>1 DEF CacheTasks
    <3>2. CASE task[w].seen \in Entries
      BY <3>2, Clock DEF Entries
    <3>3. NoEntry.confirmedAt = 0 /\ NoEntry.checkinFetched = 0
      BY DEF NoEntry, EmptyEntry
    <3>. QED
      BY <3>1, <3>2, <3>3
  <2>2. task[w].started \in Nat /\ now \in Nat /\ now' \in Nat /\ now <= now'
    BY <1>1, Clock DEF CacheTasks, OneInstant, CacheInv, CacheTyped
  <2>. QED
    BY <1>1, <1>3, <2>1, <2>2 DEF TaskSound
<1>5. /\ t.pc \in CallerSteps => w \in Callers \/ t.pc = "idle"
      /\ t.pc # "idle" => t.account \in Accounts
      /\ t.pc = "fetch" => t.started # 0
  BY <1>1, <1>3 DEF TaskSound
<1>. HIDE DEF t
<1>6. /\ task' \in [CacheWorkers -> CacheTasks]
      /\ \A v \in CacheWorkers : TaskSound(v)'
      /\ task'[w] = t
      /\ \A v \in CacheWorkers \ {w} : task'[v] = task[v]
  BY ONLY CacheInv, OneInstant, w \in CacheWorkers, <1>2, <1>4, <1>5, TaskMoves
<1>. QED
  BY <1>6 DEF t

(* The entry of a fetch. *)
FetchedOf(checkin, credits, s, t, u) ==
  [EmptyEntry EXCEPT !.checkin = checkin, !.credits = credits,
                     !.checkinFetched = s, !.creditsFetched = t, !.fetched = u]

LEMMA FetchedEntry ==
  ASSUME NEW checkin \in {"nil", "open", "claimed"}, NEW credits \in BOOLEAN,
         NEW s \in Instants, NEW t \in Instants, NEW u \in Instants
  PROVE  LET e == FetchedOf(checkin, credits, s, t, u)
         IN  /\ e \in Entries /\ e.checkinAt = 0 /\ e.confirmedAt = 0
             /\ e.creditsFetched = t /\ e.checkinFetched = s
<1>. DEFINE half == [EmptyEntry EXCEPT !.checkin = checkin, !.credits = credits,
                    !.checkinFetched = s]
            e == FetchedOf(checkin, credits, s, t, u)
<1>1. /\ half \in Entries /\ half.checkinAt = 0 /\ half.confirmedAt = 0
      /\ half.checkinFetched = s
  BY Clock DEF EmptyEntry, Entries
<1>2. e = [half EXCEPT !.creditsFetched = t, !.fetched = u]
  BY DEF FetchedOf
<1>. HIDE DEF half, e
<1>3. e \in Entries
  BY <1>1, <1>2 DEF Entries
<1>4. e.checkinAt = 0 /\ e.confirmedAt = 0 /\ e.creditsFetched = t /\ e.checkinFetched = s
  BY <1>1, <1>2 DEF Entries
<1>. QED
  BY <1>3, <1>4 DEF e

(* The answers of a fetch are merged. *)
LEMMA MergeStep ==
  ASSUME CacheInv, NEW c \in Callers, NEW checkin \in {"nil", "open", "claimed"},
         NEW credits \in BOOLEAN, NEW refused \in BOOLEAN, Merge(c, checkin, credits, refused)
  PROVE  CacheInv'
<1>. DEFINE a == task[c].account
            started == task[c].started
            snapshot == Fetched(checkin, credits, refused, started)
<1>1. /\ task[c].pc = "fetch" /\ Store(a, snapshot, now)
      /\ task' = [task EXCEPT ![c].pc = "prune"]
      /\ rejected' = [rejected EXCEPT ![a] = IF refused THEN Later(@, started) ELSE @]
      /\ now' = now /\ UNCHANGED <<flight, checkins, receipt, claimed, balance>>
      /\ c \in CacheWorkers
  BY DEF Merge, CacheWorkers
<1>2. /\ OneInstant /\ task \in [CacheWorkers -> CacheTasks]
  BY <1>1, NoTime DEF CacheInv, CacheTyped
<1>3. /\ a \in Accounts /\ started \in Instants /\ started # 0 /\ started <= now /\ 0 \in Instants
      /\ started \in Nat /\ now \in Nat
  BY <1>1, <1>2, Clock DEF CacheInv, CacheTyped, TaskSound, CacheTasks
<1>4. /\ snapshot \in Snapshots /\ snapshot.invalidate = refused
      /\ snapshot.entry.checkinAt = 0 /\ snapshot.entry.confirmedAt = 0
      /\ snapshot.entry.creditsFetched \in {0, started}
      /\ snapshot.entry.checkinFetched \in {0, started}
      /\ refused => snapshot.entry.checkinFetched = started
  <2>1. CASE refused
    BY <1>3, <2>1 DEF Fetched, Snapshots, Entries, EmptyEntry
  <2>2. CASE ~refused
    <3>. DEFINE t == IF checkin = "nil" THEN 0 ELSE started
                u == IF credits THEN started ELSE 0
                v == IF checkin # "nil" /\ credits THEN started ELSE 0
                s == FetchedOf(checkin, credits, t, u, v)
    <3>1. snapshot = [entry |-> s, invalidate |-> FALSE]
      BY <2>2 DEF Fetched, Snapshot, FetchedOf
    <3>2. /\ s \in Entries /\ s.checkinAt = 0 /\ s.confirmedAt = 0
          /\ s.creditsFetched \in {0, started} /\ s.checkinFetched \in {0, started}
      <4>1. t \in Instants /\ u \in Instants /\ v \in Instants
            /\ t \in {0, started} /\ u \in {0, started}
        BY <1>3
      <4>. HIDE DEF t, u, v
      <4>2. /\ s \in Entries /\ s.checkinAt = 0 /\ s.confirmedAt = 0
            /\ s.creditsFetched = u /\ s.checkinFetched = t
        BY <4>1, FetchedEntry
      <4>. QED
        BY <4>1, <4>2
    <3>. HIDE DEF s, t, u, v, snapshot, started
    <3>. QED
      BY <2>2, <3>1, <3>2 DEF Snapshots
  <2>. QED
    BY <2>1, <2>2
<1>. HIDE DEF snapshot, a, started
<1>5. /\ cache' \in [Accounts -> Entries \cup {NoEntry}]
      /\ rejected' \in [Accounts -> Instants]
      /\ \A b \in Accounts : EntrySound(b)'
  <2>1. /\ Store(a, snapshot, now')
        /\ snapshot.entry.creditsFetched <= now' /\ snapshot.entry.checkinFetched <= now'
        /\ snapshot.invalidate => snapshot.entry.checkinFetched # 0
    BY <1>1, <1>3, <1>4 DEF Store
  <2>2. rejected' = [rejected EXCEPT ![a] =
          IF snapshot.invalidate THEN Later(@, snapshot.entry.checkinFetched) ELSE @]
    <3>1. CASE refused
      BY <1>1, <1>4, <3>1
    <3>2. CASE ~refused
      BY <1>1, <1>4, <3>2
    <3>. QED
      BY <3>1, <3>2
  <2>. QED
    BY <1>1, <1>2, <1>3, <1>4, <2>1, <2>2, AnswerKeeps
<1>6. /\ task' \in [CacheWorkers -> CacheTasks]
      /\ \A v \in CacheWorkers : TaskSound(v)'
      /\ task'[c] = [task[c] EXCEPT !.pc = "prune"]
      /\ \A v \in CacheWorkers \ {c} : task'[v] = task[v]
  BY <1>1, <1>2, TaskSteps
<1>7. FlightSound'
  <2>1. task'[c].pc = "prune" /\ task'[c].account = task[c].account
    BY <1>1, <1>2, <1>6 DEF CacheTasks
  <2>. QED
    BY <1>1, <1>6, <2>1, FlightStands DEF Fetches, CacheWorkers
<1>8. CacheTyped'
  BY <1>1, <1>2, <1>5, <1>6 DEF CacheInv, CacheTyped, OneInstant
<1>. QED
  BY <1>1, <1>2, <1>5, <1>6, <1>7, <1>8, AskMoves DEF CacheInv

(* The cap evicts entries: none whose confirmation is within its grace. *)
LEMMA EvictStep ==
  ASSUME CacheInv, NEW c \in Callers, Evict(c)
  PROVE  CacheInv'
<1>1. /\ task[c].pc = "prune" /\ task' = [task EXCEPT ![c].pc = "close"]
      /\ now' = now /\ UNCHANGED <<flight, checkins>> /\ c \in CacheWorkers
  BY DEF Evict, CacheWorkers
<1>2. OneInstant /\ task \in [CacheWorkers -> CacheTasks]
  BY <1>1, NoTime DEF CacheInv, CacheTyped
<1>3. PICK evicted \in Pruned :
        /\ cache' = [a \in Accounts |-> IF a \in evicted THEN NoEntry ELSE cache[a]]
        /\ StartOver({a \in evicted : claimed[a] = 0 \/ now - claimed[a] >= Grace})
  BY DEF Evict
<1>4. evicted \subseteq {a \in Accounts : Held(a) /\ ~InGrace(a)}
  BY <1>3 DEF Pruned
<1>5. \A a \in evicted : claimed[a] = 0 \/ now - claimed[a] >= Grace
  <2> SUFFICES ASSUME NEW a \in evicted, claimed[a] # 0, ~(now - claimed[a] >= Grace)
               PROVE  FALSE
    OBVIOUS
  <2>1. a \in Accounts /\ ~InGrace(a) /\ Held(a)
    BY <1>4
  <2>2. cache[a] \in Entries
    BY <2>1 DEF Held, CacheInv, CacheTyped
  <2>3. /\ cache[a].checkinAt \in Nat /\ claimed[a] \in Nat /\ now \in Nat /\ Grace \in Nat
        /\ cache[a].checkinAt >= claimed[a]
    BY <2>1, <2>2, Clock DEF CacheInv, CacheTyped, EntrySound, Entries
  <2>. QED
    BY <2>1, <2>3 DEF InGrace
<1>6. StartOver(evicted)
  <2>1. {a \in evicted : claimed[a] = 0 \/ now - claimed[a] >= Grace} = evicted
    BY <1>5
  <2>. QED
    BY <1>3, <2>1
<1>7. /\ cache' \in [Accounts -> Entries \cup {NoEntry}]
      /\ \A a \in Accounts : cache'[a].confirmedAt <= now' /\ cache'[a].checkinFetched <= now'
      /\ \A a \in Accounts \ evicted : cache'[a] = cache[a]
  <2>1. cache \in [Accounts -> Entries \cup {NoEntry}] /\ now \in Nat
    BY Clock DEF CacheInv, CacheTyped
  <2>2. \A a \in Accounts : cache[a].confirmedAt <= now /\ cache[a].checkinFetched <= now
    BY DEF CacheInv, EntrySound
  <2>. QED
    BY <1>1, <1>3, <2>1, <2>2, FreeTask
<1>8. /\ receipt' \in [Accounts -> Instants] /\ claimed' \in [Accounts -> Instants]
      /\ rejected' \in [Accounts -> Instants] /\ balance' \in [Accounts -> Instants]
      /\ \A a \in Accounts : EntrySound(a)'
  <2>1. evicted \in SUBSET Accounts
    BY <1>4
  <2>. QED
    BY <1>2, <1>6, <1>7, <2>1, ForgetKeeps
<1>9. /\ task' \in [CacheWorkers -> CacheTasks]
      /\ \A v \in CacheWorkers : TaskSound(v)'
      /\ task'[c] = [task[c] EXCEPT !.pc = "close"]
      /\ \A v \in CacheWorkers \ {c} : task'[v] = task[v]
  BY <1>1, <1>2, TaskSteps
<1>10. FlightSound'
  <2>1. task'[c].pc = "close" /\ task'[c].account = task[c].account
    BY <1>1, <1>2, <1>9 DEF CacheTasks
  <2>. QED
    BY <1>1, <1>9, <2>1, FlightStands DEF Fetches, CacheWorkers
<1>11. CacheTyped'
  BY <1>1, <1>2, <1>7, <1>8, <1>9 DEF CacheInv, CacheTyped, OneInstant
<1>. QED
  BY <1>1, <1>2, <1>8, <1>9, <1>10, <1>11, AskMoves DEF CacheInv
(* A fetch is over for those who wait on it. *)
LEMMA CloseStep ==
  ASSUME CacheInv, NEW c \in Callers, Close(c)
  PROVE  CacheInv'
<1>1. /\ task[c].pc = "close" /\ c \in CacheWorkers
      /\ task' = [w \in CacheWorkers |->
           IF w = c THEN [task[w] EXCEPT !.pc = "release"]
           ELSE IF Woken(c, w) THEN [task[w] EXCEPT !.pc = "woken"] ELSE task[w]]
      /\ now' = now /\ UNCHANGED <<cache, flight, checkins, cacheHistory>>
  BY DEF Close, CacheWorkers
<1>2. /\ OneInstant /\ task \in [CacheWorkers -> CacheTasks]
      /\ \A w \in CacheWorkers : TaskSound(w)
  BY <1>1, NoTime DEF CacheInv, CacheTyped
<1>3. ASSUME NEW w \in CacheWorkers
      PROVE  /\ task'[w] \in CacheTasks
             /\ task'[w].account = task[w].account /\ task'[w].started = task[w].started
             /\ task'[w].seen = task[w].seen
             /\ \/ task'[w].pc = task[w].pc
                \/ w = c /\ task'[w].pc = "release"
                \/ task[w].pc = "wait" /\ task'[w].pc = "woken"
  <2>1. CASE w = c
    BY <1>1, <1>2, <2>1 DEF CacheTasks, CallerSteps
  <2>2. CASE w # c /\ Woken(c, w)
    BY <1>1, <1>2, <2>2 DEF CacheTasks, CallerSteps, Woken
  <2>3. CASE w # c /\ ~Woken(c, w)
    BY <1>1, <1>2, <2>3
  <2>. QED
    BY <2>1, <2>2, <2>3
<1>4. task' \in [CacheWorkers -> CacheTasks]
  <2>1. task' = [w \in CacheWorkers |-> task'[w]]
    BY <1>1
  <2>. QED
    BY <1>3, <2>1
<1>5. ASSUME NEW w \in CacheWorkers PROVE TaskSound(w)'
  <2>1. TaskSound(w) /\ now' = now
    BY <1>1, <1>2
  <2>2. CASE task'[w].pc = task[w].pc
    BY <1>3, <2>1, <2>2 DEF TaskSound
  <2>3. CASE w = c /\ task'[w].pc = "release"
    BY <1>1, <1>3, <2>1, <2>3 DEF TaskSound
  <2>4. CASE task[w].pc = "wait" /\ task'[w].pc = "woken"
    BY <1>3, <2>1, <2>4 DEF TaskSound, CallerSteps
  <2>. QED
    BY <1>3, <2>2, <2>3, <2>4
<1>6. FlightSound'
  BY <1>1, <1>3, FlightStands DEF Fetches, CacheWorkers
<1>7. flight' \in [Accounts -> Callers \cup {Nobody}]
  BY <1>1 DEF CacheInv, CacheTyped
<1>. QED
  BY <1>1, <1>2, <1>4, <1>5, <1>6, <1>7, QuietSteps

(* A goroutine is free again. *)
LEMMA TaskFreed ==
  ASSUME CacheInv, OneInstant, NEW w \in CacheWorkers, task' = [task EXCEPT ![w] = Free]
  PROVE  /\ task' \in [CacheWorkers -> CacheTasks]
         /\ \A v \in CacheWorkers : TaskSound(v)'
         /\ task'[w].pc = "idle"
         /\ \A v \in CacheWorkers \ {w} : task'[v] = task[v]
<1>1. now' \in Nat
  BY Clock DEF OneInstant
<1>2. /\ Free.started <= now' /\ Free.seen.confirmedAt <= now' /\ Free.seen.checkinFetched <= now'
  BY <1>1, FreeTask
<1>3. Free.pc = "idle" /\ Free \in CacheTasks
  BY FreeTask
<1>4. /\ task' \in [CacheWorkers -> CacheTasks]
      /\ \A v \in CacheWorkers : TaskSound(v)'
      /\ task'[w] = Free
      /\ \A v \in CacheWorkers \ {w} : task'[v] = task[v]
  BY <1>2, <1>3, TaskMoves
<1>. QED
  BY <1>3, <1>4

(* The flight is deleted. *)
LEMMA ReleaseStep ==
  ASSUME CacheInv, NEW c \in Callers, Release(c)
  PROVE  CacheInv'
<1>. DEFINE a == task[c].account
<1>1. /\ task[c].pc = "release" /\ flight' = [flight EXCEPT ![a] = Nobody]
      /\ task' = [task EXCEPT ![c] = Free]
      /\ now' = now /\ UNCHANGED <<cache, checkins, cacheHistory>>
      /\ c \in CacheWorkers /\ c # Nobody
  BY AccountCacheAssumption DEF Release, CacheWorkers
<1>2. OneInstant /\ flight \in [Accounts -> Callers \cup {Nobody}]
  BY <1>1, NoTime DEF CacheInv, CacheTyped
<1>3. a \in Accounts /\ flight[a] = c
  BY <1>1 DEF CacheInv, TaskSound, FlightSound, Fetches
<1>4. /\ task' \in [CacheWorkers -> CacheTasks]
      /\ \A v \in CacheWorkers : TaskSound(v)'
      /\ task'[c].pc = "idle"
      /\ \A v \in CacheWorkers \ {c} : task'[v] = task[v]
  BY <1>1, <1>2, TaskFreed
<1>5. flight' \in [Accounts -> Callers \cup {Nobody}]
      /\ flight'[a] = Nobody /\ \A b \in Accounts \ {a} : flight'[b] = flight[b]
  BY <1>1, <1>2, <1>3
<1>. HIDE DEF a
<1>6. FlightSound'
  <2>1. ASSUME NEW b \in Accounts, flight'[b] # Nobody
        PROVE  task'[flight'[b]].account = b /\ task'[flight'[b]].pc \in Fetches
    <3>1. b # a /\ flight'[b] = flight[b] /\ task[flight[b]].account = b
          /\ task[flight[b]].pc \in Fetches /\ flight[b] \in CacheWorkers
      BY <1>2, <1>5, <2>1 DEF CacheInv, FlightSound, CacheWorkers
    <3>2. flight[b] # c
      BY <1>3, <3>1 DEF a
    <3>. QED
      BY <1>4, <3>1, <3>2
  <2>2. ASSUME NEW d \in Callers, task'[d].pc \in Fetches
        PROVE  flight'[task'[d].account] = d
    <3>1. d # c /\ d \in CacheWorkers
      BY <1>4, <2>2 DEF Fetches, CacheWorkers
    <3>2. task'[d] = task[d] /\ flight[task[d].account] = d
      BY <1>4, <2>2, <3>1 DEF CacheInv, FlightSound
    <3>3. task[d].account \in Accounts /\ task[d].account # a
      BY <1>3, <2>2, <3>1, <3>2 DEF CacheInv, TaskSound, Fetches
    <3>. QED
      BY <1>5, <3>2, <3>3
  <2>. QED
    BY <2>1, <2>2 DEF FlightSound
<1>. QED
  BY <1>1, <1>2, <1>4, <1>5, <1>6, QuietSteps

(* A waiter returns. *)
LEMMA AnswerStep ==
  ASSUME CacheInv, NEW w \in Callers, Answer(w)
  PROVE  CacheInv'
<1>1. /\ task[w].pc = "woken" /\ task' = [task EXCEPT ![w] = Free]
      /\ now' = now /\ UNCHANGED <<cache, flight, checkins, cacheHistory>>
      /\ w \in CacheWorkers
  BY DEF Answer, CacheWorkers
<1>2. OneInstant /\ flight' \in [Accounts -> Callers \cup {Nobody}]
  BY <1>1, NoTime DEF CacheInv, CacheTyped
<1>3. /\ task' \in [CacheWorkers -> CacheTasks]
      /\ \A v \in CacheWorkers : TaskSound(v)'
      /\ task'[w].pc = "idle"
      /\ \A v \in CacheWorkers \ {w} : task'[v] = task[v]
  BY <1>1, <1>2, TaskFreed
<1>4. FlightSound'
  BY <1>1, <1>3, FlightStands DEF Fetches, CacheWorkers
<1>. QED
  BY <1>1, <1>2, <1>3, <1>4, QuietSteps

-----------------------------------------------------------------------------
(* The steps of a check-in. *)
LEMMA CheckingStep ==
  ASSUME CacheInv, NEW a \in Accounts, Checking(a)
  PROVE  CacheInv'
<1>. DEFINE q == checkins[a]
<1>1. q \in [pc : {"idle", "ask", "credits", "answer"}, started : Instants]
      /\ q.started <= now /\ now \in Instants /\ 0 \in Instants /\ now \in Nat
  BY Clock DEF CacheInv, CacheTyped
<1>2. flight' = flight /\ task' = task
  BY DEF Checking, StartCheckin, Confirm, Observe, EndCheckin, AskCredits, StoreCredits
<1>3. \A c \in Callers :
        /\ task'[c].pc \in Fetches <=> task[c].pc \in Fetches
        /\ task[c].pc \in Fetches => task'[c].account = task[c].account
  BY <1>2
<1>4. FlightSound' /\ flight' \in [Accounts -> Callers \cup {Nobody}]
  BY <1>2, <1>3, FlightStands DEF CacheInv, CacheTyped
<1>5. \* It only moves on.
      ASSUME OneInstant, UNCHANGED <<cache, cacheHistory>>,
             NEW pc \in {"idle", "ask", "credits", "answer"}, NEW started \in Instants,
             started <= now', checkins' = [checkins EXCEPT ![a] = [pc |-> pc, started |-> started]]
      PROVE  CacheInv'
  BY <1>2, <1>4, <1>5, QuietSteps, TasksStand
<1>6. \* It stores an answer.
      ASSUME OneInstant, NEW snapshot \in Snapshots, Store(a, snapshot, now'),
             snapshot.entry.checkinAt = 0, snapshot.entry.confirmedAt = 0,
             snapshot.entry.creditsFetched <= now', snapshot.entry.checkinFetched <= now',
             ~snapshot.invalidate, UNCHANGED cacheHistory,
             NEW pc \in {"idle", "ask", "credits", "answer"}, NEW started \in Instants,
             started <= now', checkins' = [checkins EXCEPT ![a] = [pc |-> pc, started |-> started]]
      PROVE  CacheInv'
  <2>1. rejected \in [Accounts -> Instants]
    BY DEF CacheInv, CacheTyped
  <2>2. UNCHANGED <<receipt, claimed, balance>>
        /\ rejected' = [rejected EXCEPT ![a] =
             IF snapshot.invalidate THEN Later(@, snapshot.entry.checkinFetched) ELSE @]
    BY <1>6, <2>1 DEF cacheHistory
  <2>3. /\ cache' \in [Accounts -> Entries \cup {NoEntry}]
        /\ rejected' \in [Accounts -> Instants]
        /\ \A b \in Accounts : EntrySound(b)'
    BY <1>6, <2>2, AnswerKeeps
  <2>4. /\ checkins' \in [Accounts -> [pc : {"idle", "ask", "credits", "answer"},
                                       started : Instants]]
        /\ \A b \in Accounts : checkins'[b].started <= now'
    BY <1>6, AskMoves
  <2>5. task' \in [CacheWorkers -> CacheTasks] /\ \A w \in CacheWorkers : TaskSound(w)'
    BY <1>2, <1>6, TasksStand
  <2>6. CacheTyped'
    BY <1>4, <1>6, <2>2, <2>3, <2>4, <2>5 DEF CacheInv, CacheTyped, OneInstant
  <2>. QED
    BY <1>4, <2>3, <2>4, <2>5, <2>6 DEF CacheInv
<1>7. CASE StartCheckin(a) \/ AskCredits(a)
  <2>1. /\ Stamp /\ UNCHANGED <<cache, cacheHistory>>
    BY <1>7 DEF StartCheckin, AskCredits
  <2>2. OneInstant /\ now' = now + 1 /\ now + 1 \in Instants /\ now + 1 <= now'
    BY <1>1, <2>1, ATime
  <2>3. PICK pc \in {"idle", "ask", "credits", "answer"} :
          checkins' = [checkins EXCEPT ![a] = [pc |-> pc, started |-> now + 1]]
    BY <1>7 DEF StartCheckin, AskCredits
  <2>. QED
    BY <1>5, <2>1, <2>2, <2>3
<1>8. CASE EndCheckin(a)
  <2>1. /\ now' = now /\ UNCHANGED <<cache, cacheHistory>>
        /\ checkins' = [checkins EXCEPT ![a] = [pc |-> "idle", started |-> 0]]
    BY <1>8 DEF EndCheckin, IdleCheckin
  <2>2. OneInstant /\ 0 <= now' /\ 0 \in Instants
        /\ "idle" \in {"idle", "ask", "credits", "answer"}
    BY <1>1, <2>1, NoTime
  <2>. QED
    BY <1>5, <2>1, <2>2
<1>9. ASSUME NEW checkin \in {"open", "claimed"}, NEW again \in BOOLEAN, Observe(a, checkin, again)
      PROVE  CacheInv'
  <2>. DEFINE snapshot == CheckinSnapshot(checkin, q.started)
              e == [EmptyEntry EXCEPT !.checkin = checkin, !.checkinFetched = q.started]
  <2>1. /\ Store(a, snapshot, now) /\ now' = now /\ UNCHANGED cacheHistory
        /\ checkins' = [checkins EXCEPT
             ![a] = IF again THEN [@ EXCEPT !.pc = "credits"] ELSE IdleCheckin]
    BY <1>9 DEF Observe
  <2>2. OneInstant
    BY <2>1, NoTime
  <2>3. /\ e \in Entries /\ e.checkinAt = 0 /\ e.confirmedAt = 0 /\ e.creditsFetched = 0
        /\ e.checkinFetched = q.started
    BY <1>1 DEF Entries, EmptyEntry
  <2>4. snapshot = [entry |-> e, invalidate |-> FALSE]
    BY DEF CheckinSnapshot, Snapshot
  <2>. HIDE DEF e, snapshot
  <2>5. /\ snapshot \in Snapshots /\ snapshot.entry = e /\ ~snapshot.invalidate
        /\ Store(a, snapshot, now')
        /\ snapshot.entry.creditsFetched <= now' /\ snapshot.entry.checkinFetched <= now'
    BY <1>1, <2>1, <2>3, <2>4 DEF Snapshots
  <2>6. checkins' = [checkins EXCEPT ![a] = [pc |-> IF again THEN "credits" ELSE "idle",
                                             started |-> IF again THEN q.started ELSE 0]]
    <3>1. [q EXCEPT !.pc = "credits"] = [pc |-> "credits", started |-> q.started]
      BY <1>1
    <3>2. CASE again
      BY <2>1, <3>1, <3>2
    <3>3. CASE ~again
      BY <2>1, <3>3 DEF IdleCheckin
    <3>. QED
      BY <3>2, <3>3
  <2>7. (IF again THEN q.started ELSE 0) \in Instants /\ (IF again THEN q.started ELSE 0) <= now'
        /\ (IF again THEN "credits" ELSE "idle") \in {"idle", "ask", "credits", "answer"}
    BY <1>1, <2>1
  <2>. QED
    BY <1>6, <2>1, <2>2, <2>3, <2>5, <2>6, <2>7
<1>10. CASE StoreCredits(a)
  <2>. DEFINE snapshot == CreditsSnapshot(q.started)
              e == [EmptyEntry EXCEPT !.credits = TRUE, !.creditsFetched = q.started]
  <2>1. /\ Store(a, snapshot, now) /\ now' = now /\ UNCHANGED cacheHistory
        /\ checkins' = [checkins EXCEPT ![a] = [pc |-> "idle", started |-> 0]]
    BY <1>10 DEF StoreCredits, IdleCheckin
  <2>2. OneInstant
    BY <2>1, NoTime
  <2>3. /\ e \in Entries /\ e.checkinAt = 0 /\ e.confirmedAt = 0 /\ e.checkinFetched = 0
        /\ e.creditsFetched = q.started
    BY <1>1 DEF Entries, EmptyEntry
  <2>4. snapshot = [entry |-> e, invalidate |-> FALSE]
    BY DEF CreditsSnapshot, Snapshot
  <2>. HIDE DEF e, snapshot
  <2>5. /\ snapshot \in Snapshots /\ snapshot.entry = e /\ ~snapshot.invalidate
        /\ Store(a, snapshot, now')
        /\ snapshot.entry.creditsFetched <= now' /\ snapshot.entry.checkinFetched <= now'
    BY <1>1, <2>1, <2>3, <2>4 DEF Snapshots
  <2>. QED
    BY <1>1, <1>6, <2>1, <2>2, <2>3, <2>5
<1>11. ASSUME NEW checkin \in {"nil", "claimed"}, Confirm(a, checkin)
       PROVE  CacheInv'
  <2>1. /\ Stamp /\ Store(a, Confirmation(checkin, now + 1), now + 1)
        /\ claimed' = [claimed EXCEPT ![a] = now + 1]
        /\ receipt' = [receipt EXCEPT ![a] = IF checkin = "nil" THEN @ ELSE now + 1]
        /\ balance' = [balance EXCEPT ![a] = cache[a].creditsFetched]
        /\ checkins' = [checkins EXCEPT ![a].pc = "credits"] /\ rejected' = rejected
    BY <1>11 DEF Confirm
  <2>2. OneInstant /\ now' = now + 1 /\ now + 1 \in Instants
    BY <2>1, ATime
  <2>3. /\ cache \in [Accounts -> Entries \cup {NoEntry}]
        /\ receipt \in [Accounts -> Instants] /\ claimed \in [Accounts -> Instants]
        /\ rejected \in [Accounts -> Instants] /\ balance \in [Accounts -> Instants]
    BY DEF CacheInv, CacheTyped
  <2>4. Confirmation(checkin, now + 1) \in Snapshots
    <3>. DEFINE t == IF checkin = "nil" THEN 0 ELSE now + 1
                e == [EmptyEntry EXCEPT !.checkinAt = now + 1, !.confirmedAt = now + 1,
                                        !.checkin = checkin, !.checkinFetched = t]
    <3>1. e \in Entries
      <4>1. t \in Instants
        BY <1>1, <2>2
      <4>. HIDE DEF t
      <4>. QED
        BY <2>2, <4>1, Clock DEF Entries, EmptyEntry
    <3>2. Confirmation(checkin, now + 1) = [entry |-> e, invalidate |-> FALSE]
      BY Zenon DEF Confirmation, Snapshot
    <3>. HIDE DEF e, t
    <3>3. [entry |-> e, invalidate |-> FALSE] \in Snapshots
      BY <3>1 DEF Snapshots
    <3>. QED
      BY <3>2, <3>3, Zenon
  <2>5. Merged(cache[a], Confirmation(checkin, now + 1), now + 1) \in Entries
    BY <2>3, <2>4, MergedType
  <2>6. /\ cache' \in [Accounts -> Entries \cup {NoEntry}]
        /\ cache'[a] = Merged(cache[a], Confirmation(checkin, now'), now')
        /\ \A b \in Accounts \ {a} : cache'[b] = cache[b]
    BY <2>1, <2>2, <2>3, <2>5 DEF Store
  <2>7. cache[a].creditsFetched \in Instants
    <3>1. NoEntry.creditsFetched = 0
      BY DEF NoEntry, EmptyEntry
    <3>2. cache[a] \in Entries => cache[a].creditsFetched \in Instants
      BY DEF Entries
    <3>. QED
      BY <1>1, <2>3, <3>1, <3>2
  <2>8. /\ receipt' \in [Accounts -> Instants] /\ claimed' \in [Accounts -> Instants]
        /\ balance' \in [Accounts -> Instants]
        /\ receipt'[a] = (IF checkin = "nil" THEN receipt[a] ELSE now') /\ claimed'[a] = now'
        /\ balance'[a] = cache[a].creditsFetched
        /\ \A b \in Accounts \ {a} : receipt'[b] = receipt[b] /\ claimed'[b] = claimed[b]
                                     /\ balance'[b] = balance[b]
    BY <2>1, <2>2, <2>3, <2>7
  <2>9. EntrySound(a)'
    BY <2>1, <2>2, <2>6, <2>8, ConfirmationStored
  <2>10. \A b \in Accounts \ {a} : EntrySound(b)'
    BY <2>1, <2>2, <2>6, <2>8, EntryStands
  <2>11. checkins' = [checkins EXCEPT ![a] = [pc |-> "credits", started |-> q.started]]
         /\ q.started \in Instants /\ q.started <= now'
    <3>1. [q EXCEPT !.pc = "credits"] = [pc |-> "credits", started |-> q.started]
      BY <1>1
    <3>2. q.started \in Nat
      BY <1>1, Clock
    <3>3. checkins' = [checkins EXCEPT ![a] = [q EXCEPT !.pc = "credits"]]
      BY <2>1
    <3>4. q.started \in Instants /\ q.started <= now'
      BY <1>1, <2>2, <3>2
    <3>. HIDE DEF q
    <3>. QED
      BY <3>1, <3>3, <3>4
  <2>12. /\ checkins' \in [Accounts -> [pc : {"idle", "ask", "credits", "answer"},
                                        started : Instants]]
         /\ \A b \in Accounts : checkins'[b].started <= now'
    BY <2>2, <2>11, AskMoves
  <2>13. task' \in [CacheWorkers -> CacheTasks] /\ \A w \in CacheWorkers : TaskSound(w)'
    BY <1>2, <2>2, TasksStand
  <2>14. CacheTyped'
    BY <1>4, <2>1, <2>2, <2>3, <2>6, <2>8, <2>12, <2>13 DEF CacheTyped
  <2>. QED
    BY <1>4, <2>9, <2>10, <2>12, <2>13, <2>14 DEF CacheInv
<1>. QED
  BY <1>7, <1>8, <1>9, <1>10, <1>11 DEF Checking
-----------------------------------------------------------------------------
(* A card asks, and is answered. *)
LEMMA CardStep ==
  ASSUME CacheInv, NEW w \in Cards,
         \/ \E a \in Accounts : AskCard(w, a)
         \/ \E credits \in BOOLEAN : AnswerCard(w, credits)
  PROVE  CacheInv'
<1>1. /\ w \in CacheWorkers /\ w \notin Callers
      /\ task \in [CacheWorkers -> CacheTasks]
      /\ flight \in [Accounts -> Callers \cup {Nobody}]
  BY AccountCacheAssumption DEF CacheWorkers, CacheInv, CacheTyped
<1>2. now \in Nat /\ 0 \in Instants
  BY Clock DEF CacheInv, CacheTyped
<1>3. ASSUME NEW a \in Accounts, AskCard(w, a) PROVE CacheInv'
  <2>. DEFINE t == [Free EXCEPT !.pc = "card", !.account = a, !.started = now + 1]
  <2>1. /\ Stamp /\ task' = [task EXCEPT ![w] = t]
        /\ UNCHANGED <<cache, flight, checkins, cacheHistory>>
    BY <1>3 DEF AskCard
  <2>2. OneInstant /\ now' = now + 1 /\ now + 1 \in Instants
    BY <2>1, ATime
  <2>3. /\ t \in CacheTasks /\ t.pc = "card" /\ t.account = a /\ t.started = now + 1
        /\ t.seen = NoEntry
    BY <2>2, FreeTask DEF CacheTasks, CallerSteps
  <2>. HIDE DEF t
  <2>4. /\ t.pc \in CallerSteps => w \in Callers \/ t.pc = "idle"
        /\ t.pc # "idle" => t.account \in Accounts
        /\ t.pc = "fetch" => t.started # 0
        /\ t.started <= now' /\ t.seen.confirmedAt <= now' /\ t.seen.checkinFetched <= now'
    BY <1>2, <2>2, <2>3, FreeTask DEF CallerSteps
  <2>5. /\ task' \in [CacheWorkers -> CacheTasks]
        /\ \A v \in CacheWorkers : TaskSound(v)'
        /\ \A v \in CacheWorkers \ {w} : task'[v] = task[v]
    BY ONLY CacheInv, <1>1, <2>1, <2>2, <2>3, <2>4, TaskMoves
  <2>6. FlightSound'
    BY <1>1, <2>1, <2>5, FlightStands DEF CacheWorkers
  <2>. QED
    BY <1>1, <2>1, <2>2, <2>5, <2>6, QuietSteps
<1>4. ASSUME NEW credits \in BOOLEAN, AnswerCard(w, credits) PROVE CacheInv'
  <2>. DEFINE a == task[w].account
              started == task[w].started
              e == [EmptyEntry EXCEPT !.credits = TRUE, !.creditsFetched = started,
                                      !.fetched = now + 1]
              snapshot == Snapshot(e)
  <2>1. /\ task[w].pc = "card" /\ task' = [task EXCEPT ![w] = Free]
        /\ UNCHANGED <<flight, checkins, cacheHistory>>
        /\ \/ now' = now /\ cache' = cache
           \/ Stamp /\ Store(a, snapshot, now + 1)
    BY <1>4 DEF AnswerCard
  <2>2. OneInstant /\ flight' \in [Accounts -> Callers \cup {Nobody}]
    BY <1>1, <2>1, NoTime, ATime
  <2>3. /\ task' \in [CacheWorkers -> CacheTasks]
        /\ \A v \in CacheWorkers : TaskSound(v)'
        /\ \A v \in CacheWorkers \ {w} : task'[v] = task[v]
    BY <1>1, <2>1, <2>2, TaskFreed
  <2>4. FlightSound'
    BY <1>1, <2>1, <2>3, FlightStands DEF CacheWorkers
  <2>5. CASE cache' = cache
    BY <2>1, <2>2, <2>3, <2>4, <2>5, QuietSteps
  <2>6. CASE Stamp /\ Store(a, snapshot, now + 1)
    <3>1. a \in Accounts /\ started \in Instants /\ started <= now /\ started \in Nat
      BY <1>1, <2>1, Clock DEF CacheInv, TaskSound, CacheTasks
    <3>2. now' = now + 1 /\ now + 1 \in Instants
      BY <2>6, ATime
    <3>3. /\ e \in Entries /\ e.checkinAt = 0 /\ e.confirmedAt = 0 /\ e.checkinFetched = 0
          /\ e.creditsFetched = started
      BY <1>2, <3>1, <3>2 DEF Entries, EmptyEntry
    <3>4. snapshot = [entry |-> e, invalidate |-> FALSE]
      BY DEF Snapshot
    <3>. HIDE DEF e, snapshot
    <3>5. /\ snapshot \in Snapshots /\ snapshot.entry = e /\ ~snapshot.invalidate
          /\ Store(a, snapshot, now')
      BY <2>6, <3>2, <3>3, <3>4 DEF Snapshots
    <3>6. snapshot.entry.creditsFetched <= now' /\ snapshot.entry.checkinFetched <= now'
      BY <1>2, <3>1, <3>2, <3>3, <3>5
    <3>7. rejected \in [Accounts -> Instants]
      BY DEF CacheInv, CacheTyped
    <3>8. UNCHANGED <<receipt, claimed, balance>>
          /\ rejected' = [rejected EXCEPT ![a] =
               IF snapshot.invalidate THEN Later(@, snapshot.entry.checkinFetched) ELSE @]
      BY <2>1, <3>5, <3>7 DEF cacheHistory
    <3>. HIDE DEF a, started
    <3>9. /\ cache' \in [Accounts -> Entries \cup {NoEntry}]
          /\ rejected' \in [Accounts -> Instants]
          /\ \A b \in Accounts : EntrySound(b)'
      BY <2>2, <3>1, <3>3, <3>5, <3>6, <3>8, AnswerKeeps
    <3>10. CacheTyped'
      BY <2>1, <2>2, <2>3, <3>8, <3>9 DEF CacheInv, CacheTyped, OneInstant
    <3>. QED
      BY <2>1, <2>2, <2>3, <2>4, <3>9, <3>10, AskMoves DEF CacheInv
  <2>. QED
    BY <2>1, <2>5, <2>6
<1>. QED
  BY <1>3, <1>4

(* A chat loads an entry, and stores its copy without the credits. *)
LEMMA ChatStep ==
  ASSUME CacheInv, NEW w \in Chats,
         DropCredits(w) \/ \E a \in Accounts : LoadEntry(w, a)
  PROVE  CacheInv'
<1>1. /\ w \in CacheWorkers /\ w \notin Callers
      /\ task \in [CacheWorkers -> CacheTasks]
      /\ flight \in [Accounts -> Callers \cup {Nobody}]
      /\ cache \in [Accounts -> Entries \cup {NoEntry}]
  BY AccountCacheAssumption DEF CacheWorkers, CacheInv, CacheTyped
<1>2. now \in Nat /\ 0 \in Instants
  BY Clock DEF CacheInv, CacheTyped
<1>3. ASSUME NEW a \in Accounts, LoadEntry(w, a) PROVE CacheInv'
  <2>. DEFINE t == [Free EXCEPT !.pc = "drop", !.account = a, !.started = now + 1,
                                !.seen = cache[a]]
  <2>1. /\ Stamp /\ task' = [task EXCEPT ![w] = t]
        /\ UNCHANGED <<cache, flight, checkins, cacheHistory>>
    BY <1>3 DEF LoadEntry
  <2>2. OneInstant /\ now' = now + 1 /\ now + 1 \in Instants
    BY <2>1, ATime
  <2>3. /\ t \in CacheTasks /\ t.pc = "drop" /\ t.account = a /\ t.started = now + 1
        /\ t.seen = cache[a]
    BY <1>1, <2>2, FreeTask DEF CacheTasks, CallerSteps
  <2>. HIDE DEF t
  <2>4. /\ cache[a].confirmedAt <= now /\ cache[a].checkinFetched <= now
        /\ cache[a].confirmedAt \in Nat /\ cache[a].checkinFetched \in Nat
    <3>1. cache[a] \in Entries => cache[a].confirmedAt \in Nat /\ cache[a].checkinFetched \in Nat
      BY Clock DEF Entries
    <3>. QED
      BY <1>1, <3>1, FreeTask DEF CacheInv, EntrySound
  <2>5. /\ t.pc \in CallerSteps => w \in Callers \/ t.pc = "idle"
        /\ t.pc # "idle" => t.account \in Accounts
        /\ t.pc = "fetch" => t.started # 0
        /\ t.started <= now' /\ t.seen.confirmedAt <= now' /\ t.seen.checkinFetched <= now'
    BY <1>2, <2>2, <2>3, <2>4 DEF CallerSteps
  <2>6. /\ task' \in [CacheWorkers -> CacheTasks]
        /\ \A v \in CacheWorkers : TaskSound(v)'
        /\ \A v \in CacheWorkers \ {w} : task'[v] = task[v]
    BY ONLY CacheInv, <1>1, <2>1, <2>2, <2>3, <2>5, TaskMoves
  <2>7. FlightSound'
    BY <1>1, <2>1, <2>6, FlightStands DEF CacheWorkers
  <2>. QED
    BY <1>1, <2>1, <2>2, <2>6, <2>7, QuietSteps
<1>4. CASE DropCredits(w)
  <2>. DEFINE a == task[w].account
              seen == task[w].seen
              e == [seen EXCEPT !.credits = FALSE, !.fetched = now + 1]
              forgotten == IF cache[a] = seen THEN {} ELSE {a}
  <2>1. /\ task[w].pc = "drop" /\ Stamp /\ cache' = [cache EXCEPT ![a] = e]
        /\ StartOver(forgotten) /\ task' = [task EXCEPT ![w] = Free]
        /\ flight' = flight /\ checkins' = checkins
    BY <1>4 DEF DropCredits
  <2>2. OneInstant /\ now' = now + 1 /\ now + 1 \in Instants
    BY <2>1, ATime
  <2>3. /\ a \in Accounts /\ seen \in Entries \cup {NoEntry}
        /\ seen.confirmedAt <= now /\ seen.checkinFetched <= now
    BY <1>1, <2>1 DEF CacheInv, TaskSound, CacheTasks
  <2>4. /\ e \in Entries
        /\ e.checkin = seen.checkin /\ e.checkinAt = seen.checkinAt
        /\ e.checkinFetched = seen.checkinFetched /\ e.confirmedAt = seen.confirmedAt
        /\ e.creditsFetched = seen.creditsFetched /\ e.credits = FALSE
    <3>1. CASE seen \in Entries
      BY <2>2, <3>1 DEF Entries
    <3>2. CASE seen = NoEntry
      <4>1. e = [EmptyEntry EXCEPT !.credits = FALSE, !.fetched = now + 1]
        BY <3>2 DEF NoEntry, EmptyEntry
      <4>2. /\ seen.checkin = "nil" /\ seen.checkinAt = 0 /\ seen.checkinFetched = 0
            /\ seen.confirmedAt = 0 /\ seen.creditsFetched = 0
        BY <3>2 DEF NoEntry, EmptyEntry
      <4>. HIDE DEF e, seen
      <4>. QED
        BY <1>2, <2>2, <4>1, <4>2 DEF Entries, EmptyEntry
    <3>. QED
      BY <2>3, <3>1, <3>2
  <2>. HIDE DEF a, seen, e, forgotten
  <2>5. /\ cache' \in [Accounts -> Entries \cup {NoEntry}] /\ cache'[a] = e
        /\ \A b \in Accounts \ {a} : cache'[b] = cache[b]
    BY <1>1, <2>1, <2>3, <2>4
  <2>6. \A b \in Accounts : cache'[b].confirmedAt <= now' /\ cache'[b].checkinFetched <= now'
    <3>1. \A x \in Entries \cup {NoEntry} : x.confirmedAt \in Nat /\ x.checkinFetched \in Nat
      <4>1. \A x \in Entries : x.confirmedAt \in Nat /\ x.checkinFetched \in Nat
        BY Clock DEF Entries
      <4>. QED
        BY <4>1, FreeTask
    <3>2. ASSUME NEW b \in Accounts
          PROVE  cache'[b].confirmedAt <= now /\ cache'[b].checkinFetched <= now
      BY <2>3, <2>4, <2>5 DEF CacheInv, EntrySound
    <3>. QED
      BY <1>2, <2>2, <2>5, <3>1, <3>2
  <2>7. ASSUME NEW b \in Accounts \ forgotten PROVE cache'[b] = cache[b] \/ EntrySound(b)'
    <3>1. CASE b # a
      BY <2>5, <3>1
    <3>2. CASE b = a
      <4>1. cache[a] = seen
        BY <2>7, <3>2 DEF forgotten
      <4>2. /\ receipt'[a] = receipt[a] /\ claimed'[a] = claimed[a]
            /\ rejected'[a] = rejected[a] /\ balance'[a] = balance[a]
        BY <2>1, <2>3, <2>7, <3>2 DEF StartOver
      <4>. QED
        BY <2>2, <2>3, <2>4, <2>5, <3>2, <4>1, <4>2, EntryKeeps
    <3>. QED
      BY <3>1, <3>2
  <2>8. forgotten \in SUBSET Accounts
    BY <2>3 DEF forgotten
  <2>9. /\ receipt' \in [Accounts -> Instants] /\ claimed' \in [Accounts -> Instants]
        /\ rejected' \in [Accounts -> Instants] /\ balance' \in [Accounts -> Instants]
        /\ \A b \in Accounts : EntrySound(b)'
    BY <2>1, <2>2, <2>5, <2>6, <2>7, <2>8, ForgetKeeps
  <2>10. /\ task' \in [CacheWorkers -> CacheTasks]
         /\ \A v \in CacheWorkers : TaskSound(v)'
         /\ \A v \in CacheWorkers \ {w} : task'[v] = task[v]
    BY <1>1, <2>1, <2>2, TaskFreed
  <2>11. FlightSound'
    BY <1>1, <2>1, <2>10, FlightStands DEF CacheWorkers
  <2>12. CacheTyped'
    BY <1>1, <2>1, <2>2, <2>5, <2>9, <2>10 DEF CacheInv, CacheTyped, OneInstant
  <2>. QED
    BY <2>1, <2>2, <2>9, <2>10, <2>11, <2>12, AskMoves DEF CacheInv
<1>. QED
  BY <1>3, <1>4
-----------------------------------------------------------------------------
(* A dashboard, or an account's return, forgets entries. *)
LEMMA ForgetStep ==
  ASSUME CacheInv, Dashboard \/ \E a \in Accounts : Restored(a)
  PROVE  CacheInv'
<1>1. PICK forgotten \in SUBSET Accounts :
        /\ cache' = [a \in Accounts |-> IF a \in forgotten THEN NoEntry ELSE cache[a]]
        /\ StartOver(forgotten)
  <2>1. cache \in [Accounts -> Entries \cup {NoEntry}]
    BY DEF CacheInv, CacheTyped
  <2>2. CASE Dashboard
    <3>. DEFINE Stale(entry) == entry.fetched = 0 \/ now - entry.fetched > 4 * TTL
                forgotten == {a \in Accounts : Held(a) /\ Stale(cache[a])}
    <3>1. cache' = [a \in Accounts |-> IF a \in forgotten THEN NoEntry ELSE cache[a]]
          /\ StartOver(forgotten)
      BY <2>2 DEF Dashboard
    <3>. HIDE DEF Stale
    <3>. QED
      BY <3>1
  <2>3. CASE \E a \in Accounts : Restored(a)
    <3>1. PICK a \in Accounts : cache' = [cache EXCEPT ![a] = NoEntry] /\ StartOver({a})
      BY <2>3 DEF Restored
    <3>2. cache' = [b \in Accounts |-> IF b \in {a} THEN NoEntry ELSE cache[b]]
      BY <2>1, <3>1
    <3>. QED
      BY <3>1, <3>2
  <2>. QED
    BY <2>2, <2>3
<1>2. now' = now /\ flight' = flight /\ task' = task /\ checkins' = checkins
  BY DEF Dashboard, Restored
<1>3. OneInstant
  BY <1>2, NoTime
<1>4. /\ cache' \in [Accounts -> Entries \cup {NoEntry}]
      /\ \A a \in Accounts : cache'[a].confirmedAt <= now' /\ cache'[a].checkinFetched <= now'
      /\ \A a \in Accounts \ forgotten : cache'[a] = cache[a]
  <2>1. cache \in [Accounts -> Entries \cup {NoEntry}] /\ now \in Nat
    BY Clock DEF CacheInv, CacheTyped
  <2>2. \A a \in Accounts : cache[a].confirmedAt <= now /\ cache[a].checkinFetched <= now
    BY DEF CacheInv, EntrySound
  <2>. QED
    BY <1>1, <1>2, <2>1, <2>2, FreeTask
<1>5. /\ receipt' \in [Accounts -> Instants] /\ claimed' \in [Accounts -> Instants]
      /\ rejected' \in [Accounts -> Instants] /\ balance' \in [Accounts -> Instants]
      /\ \A a \in Accounts : EntrySound(a)'
  BY <1>1, <1>3, <1>4, ForgetKeeps
<1>6. task' \in [CacheWorkers -> CacheTasks] /\ \A w \in CacheWorkers : TaskSound(w)'
  BY <1>2, <1>3, TasksStand
<1>7. FlightSound'
  BY <1>2, FlightStands
<1>8. CacheTyped'
  BY <1>2, <1>3, <1>4, <1>5, <1>6 DEF CacheInv, CacheTyped, OneInstant
<1>. QED
  BY <1>2, <1>3, <1>5, <1>6, <1>7, <1>8, AskMoves DEF CacheInv

(* Time passes, or nothing happens. *)
LEMMA TickStep ==
  ASSUME CacheInv, Tick \/ UNCHANGED cacheVars
  PROVE  CacheInv'
<1>1. OneInstant /\ UNCHANGED <<cache, flight, task, checkins, cacheHistory>>
  BY NoTime, ATime DEF Tick, cacheVars
<1>2. task' \in [CacheWorkers -> CacheTasks] /\ \A w \in CacheWorkers : TaskSound(w)'
  BY <1>1, TasksStand
<1>3. FlightSound' /\ flight' \in [Accounts -> Callers \cup {Nobody}]
  BY <1>1, FlightStands DEF CacheInv, CacheTyped
<1>. QED
  BY <1>1, <1>2, <1>3, QuietSteps

(* Flights, tasks, entries and their history agree.                        *)
THEOREM CacheInductive == CacheSpec => []CacheInv
<1>1. CacheInv /\ [CacheNext]_cacheVars => CacheInv'
  <2>. SUFFICES ASSUME CacheInv, [CacheNext]_cacheVars PROVE CacheInv'
    OBVIOUS
  <2>1. CASE Tick \/ UNCHANGED cacheVars
    BY <2>1, TickStep
  <2>2. ASSUME NEW c \in Callers, Fetching(c) PROVE CacheInv'
    BY <2>2, MergeStep, EvictStep, CloseStep, ReleaseStep, AnswerStep DEF Fetching
  <2>3. ASSUME NEW c \in Callers, NEW a \in Accounts, Call(c, a) PROVE CacheInv'
    BY <2>3, CallStep
  <2>4. ASSUME NEW a \in Accounts, Checking(a) PROVE CacheInv'
    BY <2>4, CheckingStep
  <2>5. ASSUME NEW w \in Cards,
               \/ \E a \in Accounts : AskCard(w, a)
               \/ \E credits \in BOOLEAN : AnswerCard(w, credits)
        PROVE  CacheInv'
    BY <2>5, CardStep
  <2>6. ASSUME NEW w \in Chats, DropCredits(w) \/ \E a \in Accounts : LoadEntry(w, a)
        PROVE  CacheInv'
    BY <2>6, ChatStep
  <2>7. CASE Dashboard \/ \E a \in Accounts : Restored(a)
    BY <2>7, ForgetStep
  <2>. QED
    BY <2>1, <2>2, <2>3, <2>4, <2>5, <2>6, <2>7 DEF CacheNext
<1>. QED
  BY <1>1, CacheInitially, PTL DEF CacheSpec

(* One goroutine at a time asks upstream for an account: the one that      *)
(* holds its flight.                                                       *)
THEOREM FetchedOnce == CacheSpec => []OneFetch
<1>1. CacheInv => OneFetch
  <2>. SUFFICES ASSUME CacheInv PROVE OneFetch
    OBVIOUS
  <2>1. TypeOK
    <3>1. \A w \in CacheWorkers : task[w].pc \in
            {"idle", "fetch", "prune", "close", "release", "wait", "woken", "card", "drop"}
      BY DEF CacheInv, CacheTyped, CacheTasks, CallerSteps
    <3>. QED
      BY <3>1 DEF TypeOK, CacheInv, CacheTyped, FlightSound, Fetches
  <2>2. ASSUME NEW a \in Accounts
        PROVE  Cardinality({c \in Callers : task[c].account = a /\ task[c].pc = "fetch"}) <= 1
    <3>. DEFINE asking == {c \in Callers : task[c].account = a /\ task[c].pc = "fetch"}
    <3>1. asking \subseteq {flight[a]}
      BY DEF CacheInv, FlightSound, Fetches
    <3>2. asking = {} \/ asking = {flight[a]}
      BY <3>1
    <3>3. Cardinality({}) = 0 /\ Cardinality({flight[a]}) = 1
      BY FS_EmptySet, FS_Singleton
    <3>. HIDE DEF asking
    <3>4. Cardinality(asking) <= 1
      BY <3>2, <3>3
    <3>. QED
      BY <3>4 DEF asking
  <2>. QED
    BY <2>1, <2>2 DEF OneFetch
<1>. QED
  BY <1>1, CacheInductive, PTL

(* A confirmed check-in shows as such for the rest of its day, unless a    *)
(* refusal of the credential that began after it takes it back.            *)
THEOREM ReceiptStands == CacheSpec => []ReceiptKept
<1>1. CacheInv => ReceiptKept
  BY DEF CacheInv, EntrySound, ReceiptKept
<1>. QED
  BY <1>1, CacheInductive, PTL

(* After a confirmed check-in the balance held is the one it found, or one *)
(* asked for after it.                                                     *)
THEOREM BalanceFollows == CacheSpec => []BalanceAfterCheckin
<1>1. CacheInv => BalanceAfterCheckin
  BY DEF CacheInv, EntrySound, BalanceAfterCheckin
<1>. QED
  BY <1>1, CacheInductive, PTL
=============================================================================
