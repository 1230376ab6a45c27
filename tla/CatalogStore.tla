---------------------------- MODULE CatalogStore ----------------------------
(***************************************************************************)
(* The model catalog of one account (model_store.go, models.go): the entry *)
(* of dynamicModelsCache, the document on disk and its backup, the         *)
(* discoveries that write both, and the seeding of memory from disk at     *)
(* every registration and reconfiguration.                                 *)
(*                                                                         *)
(* Nothing serializes two discoveries of one account: each rename of a     *)
(* save is a step of its own.  A document is the discovery it came from    *)
(* and the clock's reading when it was written; documents of other         *)
(* accounts and broken ones are one kind, "broken", as the decoder skips   *)
(* both.  A discovery's upstream call is left out: the answers come in any *)
(* order.                                                                  *)
(***************************************************************************)
EXTENDS Integers, FiniteSets

CONSTANTS
  Refreshers,   \* goroutines that discover the account's models
  MaxDamage,    \* bound: times that someone breaks a file
  MaxCrashes,   \* bound: restarts of the process
  MaxFetches    \* bound: discoveries

ASSUME CatalogStoreAssumption ==
  /\ IsFiniteSet(Refreshers)
  /\ {MaxDamage, MaxCrashes, MaxFetches} \subseteq Nat

VARIABLES
  windows,   \* runtime.GOOS: replaceCatalogFile removes before it renames
  up,        \* the process runs
  mem,       \* the account's entry: a document, or NoDoc
  primary,   \* <identity>.json
  bak,       \* <identity>.json.bak
  job,       \* job[r]: the discovery that r carries out
  seed,      \* what seedModelCatalogMemory has read, or NoDoc
  clock,     \* readings of the clock so far: each is later than the last
  fetches,   \* discoveries stored in memory so far, in their order
  saved,     \* history: a save has ended well
  backed,    \* history: a save has made a backup
  overlap,   \* history: a discovery has begun before another was saved
  damage, crashes

catalogVars == <<windows, up, mem, primary, bak, job, seed, clock, fetches, saved,
          backed, overlap, damage, crashes>>

(* modelCatalogCacheV1: fetch is the discovery whose answer it holds.  The *)
(* entry in memory is a document too, kept as "good".                      *)
Docs ==
  [kind : {"none", "good", "broken", "future"}, fetch : 0..MaxFetches,
   fetchedAt : 0..(2 * MaxFetches)]

NoDoc == [kind |-> "none", fetch |-> 0, fetchedAt |-> 0]
Doc(f, t) == [kind |-> "good", fetch |-> f, fetchedAt |-> t]
Broken == [NoDoc EXCEPT !.kind = "broken"]
Future == [NoDoc EXCEPT !.kind = "future"]

Good(d) == d.kind = "good"

NoJob == [at |-> "idle", doc |-> NoDoc, current |-> NoDoc]
Steps == {"idle", "persist", "read", "backup", "unbacked",
          "replace", "removed", "sync"}

Goto(r, step) == job' = [job EXCEPT ![r].at = step]

(* callModelsAPI: the answer goes to memory, with the time.  A discovery   *)
(* that fails leaves everything as it is.                                  *)
Discover(r) ==
  /\ up /\ job[r] = NoJob
  /\ fetches < MaxFetches
  /\ fetches' = fetches + 1 /\ clock' = clock + 1
  /\ mem' = Doc(fetches', clock')
  /\ overlap' = (overlap \/ \E q \in Refreshers : job[q] # NoJob)
  /\ job' = [job EXCEPT ![r] = [NoJob EXCEPT !.at = "persist", !.doc = mem']]
  /\ UNCHANGED <<up, primary, bak, seed, saved, backed, damage, crashes>>

(* persistModelCatalogFor stamps the document with the time of the save,   *)
(* and saveModelCatalog writes it to a temporary file.                     *)
Stamp(r) ==
  /\ job[r].at = "persist"
  /\ clock' = clock + 1
  /\ job' = [job EXCEPT ![r].at = "read", ![r].doc.fetchedAt = clock']
  /\ UNCHANGED <<up, mem, primary, bak, seed, fetches, saved, backed, overlap,
                 damage, crashes>>

(* The error is dropped: a save that fails anywhere just ends. *)
GiveUp(r) ==
  /\ job[r].at \in Steps \ {"idle"}
  /\ job' = [job EXCEPT ![r] = NoJob]
  /\ UNCHANGED <<up, mem, primary, bak, seed, clock, fetches, saved, backed,
                 overlap, damage, crashes>>

(* Mutated: only the primary is looked at. *)
ForbiddenPrimary == primary.kind = "future"

(* A document of a later schema stops the save, wherever it is. *)
Forbidden == primary.kind = "future" \/ bak.kind = "future"

(* writeModelCatalogAtomic reads what is there; a valid document is to be   *)
(* demoted, a broken one is not.                                           *)
Demotable(d) == Good(d)

ReadCurrent(r) ==
  /\ job[r].at = "read"
  /\ job' = [job EXCEPT ![r] =
               IF Forbidden THEN NoJob
               ELSE [@ EXCEPT !.current = primary,
                              !.at = IF Demotable(primary) THEN "backup"
                                     ELSE "replace"]]
  /\ UNCHANGED <<up, mem, primary, bak, seed, clock, fetches, saved, backed,
                 overlap, damage, crashes>>

(* replaceCatalogFile on Windows: the destination is removed first. *)
RemoveBackup(r) ==
  /\ windows
  /\ job[r].at = "backup"
  /\ bak' = NoDoc
  /\ Goto(r, "unbacked")
  /\ UNCHANGED <<up, mem, primary, seed, clock, fetches, saved, backed,
                 overlap, damage, crashes>>

(* The copy that was read becomes the backup. *)
Demote(r) ==
  /\ job[r].at = IF windows THEN "unbacked" ELSE "backup"
  /\ bak' = job[r].current
  /\ backed' = TRUE
  /\ Goto(r, "replace")
  /\ UNCHANGED <<up, mem, primary, seed, clock, fetches, saved, overlap,
                 damage, crashes>>

(* Mutated: every platform removes first. *)
RemoveFirst(r) ==
  /\ job[r].at = "replace"
  /\ primary' = NoDoc
  /\ Goto(r, "removed")
  /\ UNCHANGED <<up, mem, bak, seed, clock, fetches, saved, backed, overlap,
                 damage, crashes>>

(* The same for the primary. *)
Remove(r) ==
  /\ windows
  /\ job[r].at = "replace"
  /\ primary' = NoDoc
  /\ Goto(r, "removed")
  /\ UNCHANGED <<up, mem, bak, seed, clock, fetches, saved, backed, overlap,
                 damage, crashes>>

(* The rename that publishes the document. *)
Replace(r) ==
  /\ job[r].at = IF windows THEN "removed" ELSE "replace"
  /\ primary' = job[r].doc
  /\ Goto(r, "sync")
  /\ UNCHANGED <<up, mem, bak, seed, clock, fetches, saved, backed, overlap,
                 damage, crashes>>

Saved(r) ==
  /\ job[r].at = "sync"
  /\ saved' = TRUE
  /\ job' = [job EXCEPT ![r] = NoJob]
  /\ UNCHANGED <<up, mem, primary, bak, seed, clock, fetches, backed, overlap,
                 damage, crashes>>

(* loadModelCatalogAll: the primary, or its backup if it does not decode.   *)
(* An account without a primary file is not looked at.                     *)
Loadable ==
  IF Good(primary) THEN primary
  ELSE IF primary # NoDoc /\ Good(bak) THEN bak ELSE NoDoc

ReadSeed ==
  /\ up /\ seed = NoDoc
  /\ Good(Loadable)
  /\ seed' = Loadable
  /\ UNCHANGED <<up, mem, primary, bak, job, clock, fetches, saved, backed,
                 overlap, damage, crashes>>

(* Mutated: whatever was read replaces the entry. *)
NewerOrOld(d) == TRUE

(* Only a document newer than the entry replaces it. *)
Newer(d) == mem = NoDoc \/ d.fetchedAt > mem.fetchedAt

(* seedModelCatalogMemory, under the cache's lock. *)
ApplySeed ==
  /\ seed # NoDoc
  /\ mem' = IF Newer(seed) THEN seed ELSE mem
  /\ seed' = NoDoc
  /\ UNCHANGED <<up, primary, bak, job, clock, fetches, saved, backed,
                 overlap, damage, crashes>>

(***************************************************************************)
(* The world.                                                              *)
(***************************************************************************)
Crash ==
  /\ up /\ crashes < MaxCrashes
  /\ crashes' = crashes + 1
  /\ up' = FALSE
  /\ mem' = NoDoc /\ seed' = NoDoc
  /\ job' = [r \in Refreshers |-> NoJob]
  /\ UNCHANGED <<primary, bak, clock, fetches, saved, backed, overlap,
                 damage>>

Start ==
  /\ ~up /\ up' = TRUE
  /\ UNCHANGED <<mem, primary, bak, job, seed, clock, fetches, saved, backed,
                 overlap, damage, crashes>>

(* While this build is down, a newer one saves its catalog the same way. *)
NewerBuild ==
  /\ ~up
  /\ bak' = IF primary.kind \in {"good", "future"} THEN primary ELSE bak
  /\ primary' = Future
  /\ UNCHANGED <<up, mem, job, seed, clock, fetches, saved, backed, overlap,
                 damage, crashes>>

(* The primary file is broken by someone, or replaced by that of another   *)
(* account.                                                                *)
Break ==
  /\ damage < MaxDamage /\ primary # NoDoc
  /\ damage' = damage + 1
  /\ primary' = Broken
  /\ UNCHANGED <<up, mem, bak, job, seed, clock, fetches, saved, backed,
                 overlap, crashes>>

CatalogInit ==
  /\ windows \in BOOLEAN
  /\ up = TRUE
  /\ mem = NoDoc /\ primary = NoDoc /\ bak = NoDoc /\ seed = NoDoc
  /\ job = [r \in Refreshers |-> NoJob]
  /\ saved = FALSE /\ backed = FALSE /\ overlap = FALSE
  /\ clock = 0 /\ fetches = 0 /\ damage = 0 /\ crashes = 0

Save(r) ==
  \/ Stamp(r) \/ GiveUp(r) \/ ReadCurrent(r) \/ RemoveBackup(r)
  \/ Demote(r) \/ Remove(r) \/ Replace(r) \/ Saved(r)

CatalogNext ==
  /\ UNCHANGED windows
  /\ \/ \E r \in Refreshers : Discover(r) \/ Save(r)
     \/ ReadSeed \/ ApplySeed \/ Crash \/ Start \/ NewerBuild \/ Break

CatalogSpec == CatalogInit /\ [][CatalogNext]_catalogVars

(***************************************************************************)
(* Properties.                                                             *)
(***************************************************************************)

CatalogTypeOK ==
  /\ {windows, up} \subseteq BOOLEAN
  /\ {mem, primary, bak, seed} \subseteq Docs
  /\ mem.kind \in {"none", "good"} /\ seed.kind \in {"none", "good"}
  /\ \A r \in Refreshers :
       /\ job[r].at \in Steps /\ job[r].doc \in Docs /\ job[r].current \in Docs
       /\ job[r] # NoJob => Good(job[r].doc) /\ job[r].doc.fetch <= fetches
  /\ clock \in 0..(2 * MaxFetches) /\ fetches \in 0..MaxFetches
  /\ {saved, backed, overlap} \subseteq BOOLEAN
  /\ damage \in 0..MaxDamage /\ crashes \in 0..MaxCrashes

(* model_store.go:11-15: no crash loses the catalog.  Once a save ended, a  *)
(* restart at any instant finds a document; and once a save made a backup,  *)
(* also after one file is broken, however the saves of two goroutines       *)
(* overlap.  On Windows the primary is removed before the rename: while it  *)
(* is missing, also after a crash or a failing rename there, the backup is  *)
(* not looked at.                                                           *)
Recoverable ==
  /\ CatalogTypeOK
  /\ ~Forbidden /\ ~(windows /\ primary = NoDoc) =>
       /\ saved /\ damage = 0 => Good(Loadable)
       /\ backed /\ damage <= 1 /\ ~windows => Good(Loadable)

(* model_store.go:17-19: a document of a later schema is never overwritten  *)
(* or deleted by this build, as primary or as backup, while it runs: a     *)
(* downgrade loses no data.                                                *)
FutureKept ==
  [][up => /\ primary.kind = "future" => primary'.kind \in {"future", "broken"}
           /\ bak.kind = "future" => bak'.kind = "future"]_catalogVars

(* models.go and model_store.go:275-276: a live result is fresher than any  *)
(* file and does not lose to it: seeding never puts a discovery back that   *)
(* memory had already replaced.  Discoveries that overlap are the exception: *)
(* the document is stamped when it is saved, not when it was answered, and  *)
(* the earlier of the two may save last.                                    *)
LiveWins ==
  [][mem # NoDoc /\ mem' # NoDoc /\ ~overlap => mem'.fetch >= mem.fetch]_catalogVars
=============================================================================
