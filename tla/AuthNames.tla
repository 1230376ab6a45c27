------------------------------ MODULE AuthNames ------------------------------
(***************************************************************************)
(* authfile.go and its callers: the names of an account's file.  A file     *)
(* from before there were several accounts has a bare name; the first write *)
(* of the lifecycle moves it: it saves the document under the account's own *)
(* name and removes the old file, in two steps.  To the host the two files  *)
(* are two credentials, each with an index of its own, and the account's    *)
(* lock (checkinLockFor) is by index.                                       *)
(*                                                                         *)
(* One account with a uid.  AuthFile has what each operation writes and     *)
(* when; here a document is its flag and its token pair.                    *)
(***************************************************************************)
EXTENDS Integers, FiniteSets

CONSTANTS
  Movers,      \* goroutines
  NoOne, NoFile,
  MoveOps,     \* operations explored
  MaxMoves,    \* bound: operations in all
  MaxTroubles  \* bound: saves and removals that fail, and crashes

FileOperations == {"note", "toggle", "delete", "rename", "refresh", "login"}

FileDocuments == [disabled : BOOLEAN, token : Nat]

ASSUME NamesAssumption ==
  /\ NoOne \notin Movers /\ NoFile \notin FileDocuments
  /\ MoveOps \subseteq FileOperations
  /\ {MaxMoves, MaxTroubles} \subseteq Nat

VARIABLES
  dir,       \* the auth directory: per name a document or NoFile
  indexLock, \* checkinLocks: per name the holder of its index's lock, or NoOne
  job,       \* per goroutine its operation
  setTo,     \* history: what the operator last set the flag to
  newest,    \* history: the newest token pair that was saved
  gone,      \* history: the operator has deleted the account
  disturbed, \* history: two files were left, or an unlocked writer met another
  moves, troubles   \* the counters that bound the model

namesVars == <<dir, indexLock, job, setTo, newest, gone, disturbed, moves, troubles>>

(* qoder.json, qoder-cn.json or qoder-intl.json, qoder-<region>-<uid>.json. *)
Names == {"bare", "regional", "own"}

(* isLegacyAuthName. *)
Legacy == {"bare", "regional"}

(* isSafeAuthPath, which every removal asks: the name begins with "qoder-". *)
Removable(name) == name # "bare"

(* resolveAuthFileTarget: the lifecycle and the rename write a legacy file  *)
(* under the account's own name, the others where they read.                *)
Target(op, name) ==
  IF op \in {"note", "rename"} /\ name \in Legacy THEN "own" ELSE name

(* Mutant: the note is written without the lock. *)
LockedOpsButNote == {"toggle", "delete"}

LockedOps == {"note", "toggle", "delete"}

Resting == [op |-> "none", pc |-> "idle", name |-> "own", seen |-> NoFile, next |-> FALSE]
Present(d) == {n \in Names : d[n] # NoFile}

NamesInit ==
  /\ \E n \in Names, flag \in BOOLEAN :
       /\ dir = [x \in Names |-> IF x = n THEN [disabled |-> flag, token |-> 0] ELSE NoFile]
       /\ setTo = flag
  /\ indexLock = [n \in Names |-> NoOne]
  /\ job = [g \in Movers |-> Resting]
  /\ newest = 0 /\ gone = FALSE /\ disturbed = FALSE
  /\ moves = 0 /\ troubles = 0

MoveReturns(g) ==
  /\ job' = [job EXCEPT ![g] = Resting]
  /\ indexLock' = [n \in Names |-> IF indexLock[n] = g THEN NoOne ELSE indexLock[n]]

Trouble == troubles < MaxTroubles /\ troubles' = troubles + 1

(* A request, a tick or a poll starts an operation on one of the indexes.   *)
BeginMove(g, op, name, next) ==
  /\ job[g].pc = "idle" /\ op \in MoveOps
  /\ moves < MaxMoves /\ moves' = moves + 1
  /\ next => op = "toggle"
  /\ op = "login" => name = "own"
  /\ job' = [job EXCEPT ![g] = [Resting EXCEPT
       !.op = op, !.name = name, !.next = next,
       !.pc = IF op = "login" THEN "save" ELSE IF op \in LockedOps THEN "lock" ELSE "read"]]
  /\ UNCHANGED <<dir, indexLock, setTo, newest, gone, troubles>>

LockIndex(g) ==
  /\ job[g].pc = "lock" /\ indexLock[job[g].name] = NoOne
  /\ indexLock' = [indexLock EXCEPT ![job[g].name] = g]
  /\ job' = [job EXCEPT ![g].pc = "read"]
  /\ UNCHANGED <<dir, setTo, newest, gone, moves, troubles>>

(* hostAuthGetPhysical; a file that is gone is an error, and a note that is  *)
(* as it was is not written again.                                          *)
ReadFile(g) ==
  /\ job[g].pc = "read"
  /\ \/ /\ dir[job[g].name] # NoFile
        /\ job' = [job EXCEPT ![g].seen = dir[job[g].name],
                              ![g].pc = IF job[g].op = "delete" THEN "remove" ELSE "save"]
        /\ UNCHANGED indexLock
     \/ /\ dir[job[g].name] = NoFile \/ job[g].op = "note"
        /\ MoveReturns(g)
  /\ UNCHANGED <<dir, setTo, newest, gone, moves, troubles>>

MoveWrites(j) ==
  CASE j.op \in {"note", "rename"} -> j.seen
    [] j.op = "toggle" -> [j.seen EXCEPT !.disabled = j.next]
    [] j.op = "refresh" -> [j.seen EXCEPT !.token = newest + 1]
    [] j.op = "login" -> [disabled |-> FALSE, token |-> newest + 1]

Moves(j) == j.op = "note" /\ j.name \in Legacy

(* Mutant: a move goes on to the removal although the save has failed. *)
SaveErrorIgnored(g) ==
  IF Moves(job[g]) THEN job' = [job EXCEPT ![g].pc = "remove"] /\ UNCHANGED indexLock
  ELSE MoveReturns(g)

SaveError(g) == MoveReturns(g)

(* hostAuthPersistMigrate: the save, which may fail ... *)
SaveFails(g) ==
  /\ job[g].pc = "save" /\ Trouble
  /\ SaveError(g)
  /\ UNCHANGED <<dir, setTo, newest, gone, moves>>

SaveFile(g) ==
  LET j == job[g]
      doc == MoveWrites(j)
  IN  /\ j.pc = "save"
      /\ dir' = [dir EXCEPT ![Target(j.op, j.name)] = doc]
      /\ setTo' = IF j.op \in {"toggle", "login"} THEN doc.disabled ELSE setTo
      /\ newest' = IF j.op \in {"refresh", "login"} THEN doc.token ELSE newest
      /\ gone' = (gone /\ j.op # "login")
      /\ IF Moves(j) THEN job' = [job EXCEPT ![g].pc = "remove"] /\ UNCHANGED indexLock
         ELSE MoveReturns(g)
      /\ UNCHANGED <<moves, troubles>>

(* ... and the removal, whose error is ignored; also handleAccountDelete.    *)
RemoveFile(g) ==
  LET j == job[g]
  IN  /\ j.pc = "remove"
      /\ MoveReturns(g)
      /\ \/ /\ Removable(j.name)
            /\ dir' = [dir EXCEPT ![j.name] = NoFile]
            /\ gone' = (gone \/ j.op = "delete")
            /\ UNCHANGED troubles
         \/ UNCHANGED <<dir, gone>> /\ IF Removable(j.name) THEN Trouble ELSE UNCHANGED troubles
      /\ UNCHANGED <<setTo, newest, moves>>

Crash ==
  /\ Trouble
  /\ job' = [g \in Movers |-> Resting]
  /\ indexLock' = [n \in Names |-> NoOne]
  /\ UNCHANGED <<dir, setTo, newest, gone, moves>>

(* For the history: a move that is over and has left the old file; two files *)
(* beside no move; an unlocked writer that saves beside another operation or *)
(* over what it has not seen.                                                *)
Moving(g) == job[g].pc = "remove" /\ Moves(job[g])
LeftBehind(g) == Moving(g) /\ ~Moving(g)' /\ dir'[job[g].name] # NoFile
Twins == Cardinality(Present(dir)) > 1 /\ ~\E g \in Movers : Moving(g)
Meets(g) ==
  /\ job[g].pc = "save" /\ job[g].op \in {"rename", "refresh", "login"}
  /\ \/ \E h \in Movers \ {g} : job[h].pc \notin {"idle", "lock"}
     \/ job[g].op # "login" /\ dir[job[g].name] # job[g].seen

NamesStep ==
  \/ \E g \in Movers :
       \/ \E op \in FileOperations, name \in Names, next \in BOOLEAN : BeginMove(g, op, name, next)
       \/ LockIndex(g) \/ ReadFile(g) \/ SaveFails(g) \/ SaveFile(g) \/ RemoveFile(g)
  \/ Crash

NamesNext ==
  /\ NamesStep
  /\ disturbed' = (disturbed \/ Twins' \/ \E g \in Movers : LeftBehind(g) \/ Meets(g))

NamesSpec == NamesInit /\ [][NamesNext]_namesVars

-----------------------------------------------------------------------------
Rest == \A g \in Movers : job[g].pc = "idle"

(* Until the operator deletes it the account has a file, at every instant of *)
(* every move, whatever fails of it and wherever it is cut short.            *)
AlwaysAFile == gone \/ Present(dir) # {}

(* While the lifecycle alone moves files, they move with all they hold: the  *)
(* one file that is left has the flag as the operator last set it and the    *)
(* newest pair, although one account has two indexes and two locks during    *)
(* the move; and a deleted account has none.                              *)
LastWordMoves ==
  Rest /\ ~disturbed =>
    IF gone THEN Present(dir) = {}
    ELSE \E n \in Names :
           Present(dir) = {n} /\ dir[n] = [disabled |-> setTo, token |-> newest]

(* authfile.go:138-139: a move "also removes a legacy path when the          *)
(* canonical name differs".                                                  *)
LegacyRemoved == Rest /\ dir["own"] # NoFile => \A n \in Legacy : dir[n] = NoFile
=============================================================================
