--------------------------- MODULE CatalogProofs ---------------------------
(***************************************************************************)
(* Theorems about the model catalog, for any number of goroutines,         *)
(* accounts, models and browsers: its way to the disk and back             *)
(* (CatalogStore), what each account is answered from it (ModelServing),   *)
(* and the operator's edits of it (ModelOverlay).                          *)
(***************************************************************************)
EXTENDS CatalogStore, ModelServing, ModelOverlay, FiniteSetTheorems, TLAPS

(* The way to the disk and back.                                           *)
Persisting == {r \in Refreshers : job[r].at = "persist"}

(* Documents of the discoveries, as memory, files and saves hold them.     *)
Held ==
  {mem, primary, bak, seed} \cup {job[r].doc : r \in Refreshers}
    \cup {job[r].current : r \in Refreshers}

StoreTyped ==
  /\ windows \in BOOLEAN /\ up \in BOOLEAN
  /\ mem \in Docs /\ primary \in Docs /\ bak \in Docs /\ seed \in Docs
  /\ job \in [Refreshers -> [at : Steps, doc : Docs, current : Docs]]
  /\ clock \in Nat /\ fetches \in 0 .. MaxFetches
  /\ clock + Cardinality(Persisting) <= 2 * fetches
  /\ saved \in BOOLEAN /\ backed \in BOOLEAN /\ overlap \in BOOLEAN
  /\ damage \in 0 .. MaxDamage /\ crashes \in 0 .. MaxCrashes

Dated(d) == Good(d) => d.fetch <= fetches /\ d.fetchedAt <= clock

(* What is held is of a discovery that was made, and at a time that was. *)
DocsSound ==
  /\ (mem = NoDoc \/ Good(mem)) /\ (seed = NoDoc \/ Good(seed))
  /\ primary.kind = "none" => primary = NoDoc
  /\ bak.kind # "broken" /\ (damage = 0 => primary.kind # "broken")
  /\ \A d \in Held : Dated(d)

SavesSound ==
  /\ \A r \in Refreshers :
       /\ job[r].at = "idle" <=> job[r] = NoJob
       /\ job[r] # NoJob => Good(job[r].doc)
       /\ job[r].at \in {"backup", "unbacked"} => Good(job[r].current)
       /\ job[r].at \in {"backup", "unbacked", "replace", "removed", "sync"} =>
            ~Forbidden
       /\ ~windows => job[r].at \notin {"unbacked", "removed"}
       /\ ~windows /\ job[r].at \in {"backup", "sync"} => primary # NoDoc
       /\ ~overlap /\ job[r] # NoJob => job[r].doc.fetch = fetches
  /\ ~up => \A r \in Refreshers : job[r] = NoJob
  /\ ~windows => /\ saved \/ backed => primary # NoDoc
                 /\ backed => bak.kind # "none"

(* Of two discoveries the later has the later document. *)
Ordered ==
  ~overlap => \A d, e \in Held :
    Good(d) /\ Good(e) /\ d.fetch < e.fetch => d.fetchedAt < e.fetchedAt

StoreInv == StoreTyped /\ DocsSound /\ SavesSound /\ Ordered

(* What each account is answered.                                          *)
KeysOf(a) == {a} \X (0 .. MaxRenewals)

(* Windows of the account's own catalogs, and its own models. *)
ToldOwn(a, told) ==
  \A m \in DOMAIN told :
    told[m] = 0 \/ (m \in PublishedModels(a) /\ told[m] \in PublishedWindows(a, m))

AskSound(q) ==
  /\ q = [step |-> q.step, account |-> q.account, key |-> q.key,
          answer |-> q.answer, had |-> q.had]
  /\ q.step \in {"idle", "asking", "refreshing", "stored", "answered"}
  /\ q.step # "idle" => q.account \in Subscribers /\ q.key \in KeysOf(q.account)
  /\ q.step = "asking" /\ q.had = TRUE => known[q.key] # NoCatalog
  /\ q.step = "stored" => known[q.key] # NoCatalog /\ q.answer \in Published[q.account]
  /\ q.step = "answered" => /\ q.had = TRUE => DOMAIN q.answer # {}
                            /\ ToldOwn(q.account, q.answer)

ServingInv ==
  /\ DOMAIN known = AccountKeys
  /\ \A a \in Subscribers : \A k \in KeysOf(a) : known[k] \in Published[a] \cup {NoCatalog}
  /\ fresh \subseteq {k \in AccountKeys : known[k] # NoCatalog}
  /\ epoch \in [Subscribers -> 0 .. MaxRenewals]
  /\ asker = [r \in Askers |-> asker[r]]
  /\ \A r \in Askers : AskSound(asker[r])

(* The operator's edits.                                                   *)
Overlays == [hide : SUBSET ModelIds, order : SUBSET ModelIds, add : SUBSET ModelIds]
Edits ==
  [step : {"idle", "edit", "patch", "patchOrder"}, action : Actions \cup {"none"},
   id : ModelIds \cup {"none"}, copy : Overlays]

(* Models whose last edit is to last. *)
Sure(z) == z \notin unsure \cup crossed
Lasts(p, z) == panel[p].action \in Lasting /\ panel[p].id = z
Wished(z, hidden) == z \in hidden <=> z \in wish

OverlayTyped ==
  /\ overlay \in Overlays
  /\ config \in [hidden : SUBSET ModelIds, ordered : BOOLEAN, order : SUBSET ModelIds]
  /\ panel \in [Panels -> Edits]
  /\ \A p \in Panels :
       /\ panel[p].step = "idle" <=> panel[p] = Idle
       /\ panel[p].step \in {"edit", "patch"} => panel[p].id \in ModelIds /\ panel[p].action \in Actions
       /\ panel[p].step = "patch" => panel[p].action \in Lasting
       /\ panel[p].step = "patchOrder" => panel[p].id = "none"
  /\ wish \in SUBSET ModelIds /\ unsure \in SUBSET ModelIds /\ crossed \in SUBSET ModelIds

(* The overlay and the config say of a model what the operator last said,  *)
(* but for an edit of it that is still to be stored or patched, and so do  *)
(* the copies that the panels work on.                                     *)
OverlayTells(z) ==
  (\A p \in Panels : panel[p].step = "edit" => ~Lasts(p, z)) => Wished(z, overlay.hide)
ConfigTells(z) ==
  (\A p \in Panels : panel[p].step \in {"edit", "patch"} => ~Lasts(p, z)) =>
    Wished(z, config.hidden)
CopiesTell(z) ==
  \A p \in Panels :
    panel[p].step = "patch" \/ (panel[p].step = "edit" /\ ~Lasts(p, z)) =>
      Wished(z, panel[p].copy.hide)

(* Edits at once are of models that are not sure. *)
Apart ==
  \A p, q \in Panels : p # q /\ Busy(p) /\ Busy(q) => panel[p].id \in unsure \cup {"none"}

OverlayInv ==
  /\ OverlayTyped /\ Apart
  /\ \A z \in ModelIds : Sure(z) => OverlayTells(z) /\ ConfigTells(z) /\ CopiesTell(z)
-----------------------------------------------------------------------------
(* The way to the disk and back.                                           *)
Jobs == [at : Steps, doc : Docs, current : Docs]
Blank == {NoDoc, Broken, Future}

(* What a save may be, where it stands. *)
SaveSound(q) ==
  /\ q.at = "idle" <=> q = NoJob
  /\ q # NoJob => Good(q.doc)
  /\ q.at \in {"backup", "unbacked"} => Good(q.current)
  /\ q.at \in {"backup", "unbacked", "replace", "removed", "sync"} => ~Forbidden
  /\ ~windows => q.at \notin {"unbacked", "removed"}
  /\ ~windows /\ q.at \in {"backup", "sync"} => primary # NoDoc
  /\ ~overlap /\ q # NoJob => q.doc.fetch = fetches

LEMMA Blanks ==
  /\ NoDoc \in Docs /\ Broken \in Docs /\ Future \in Docs
  /\ ~Good(NoDoc) /\ ~Good(Broken) /\ ~Good(Future)
  /\ NoDoc.kind = "none" /\ Broken.kind = "broken" /\ Future.kind = "future"
  /\ NoJob \in Jobs /\ NoJob.at = "idle" /\ NoJob.doc = NoDoc /\ NoJob.current = NoDoc
BY CatalogStoreAssumption DEF NoDoc, Broken, Future, Docs, Good, NoJob, Jobs, Steps

LEMMA DocNumbers ==
  /\ MaxFetches \in Nat /\ MaxDamage \in Nat /\ MaxCrashes \in Nat
  /\ \A d \in Docs : d.fetch \in 0 .. MaxFetches /\ d.fetchedAt \in 0 .. (2 * MaxFetches)
                     /\ d.kind \in {"none", "good", "broken", "future"}
BY CatalogStoreAssumption DEF Docs

LEMMA PersistingFinite ==
  ASSUME NEW S \in SUBSET Refreshers
  PROVE  IsFiniteSet(S) /\ Cardinality(S) \in Nat
BY CatalogStoreAssumption, FS_Subset, FS_CardinalityType

(* No new document, and none that ends as it was not. *)
LEMMA NothingNew ==
  ASSUME StoreInv, Held' \subseteq Held \cup Blank,
         clock' = clock, fetches' = fetches, overlap' = overlap
  PROVE  (\A d \in Held : Dated(d))' /\ Ordered'
<1>1. \A d \in Held' : Good(d) => d \in Held
  BY Blanks DEF Blank
<1>2. (\A d \in Held : Dated(d))'
  BY <1>1 DEF StoreInv, DocsSound, Dated
<1>3. Ordered'
  <2>. SUFFICES ASSUME ~overlap', NEW d \in Held', NEW e \in Held', Good(d), Good(e),
                       d.fetch < e.fetch
                PROVE  d.fetchedAt < e.fetchedAt
    BY DEF Ordered
  <2>1. d \in Held /\ e \in Held /\ ~overlap
    BY <1>1
  <2>. QED
    BY <2>1 DEF StoreInv, Ordered
<1>. QED
  BY <1>2, <1>3

(* A save moves on, and may write a file. *)
LEMMA SaveMoves ==
  ASSUME StoreInv, NEW r \in Refreshers, NEW q \in Jobs, job' = [job EXCEPT ![r] = q],
         job[r] # NoJob, q.at # "persist", q # NoJob => q.doc = job[r].doc,
         q.current \in {job[r].current, primary, NoDoc}, q.doc \in {job[r].doc, NoDoc},
         UNCHANGED <<windows, up, mem, seed, clock, fetches, overlap, damage, crashes>>,
         \/ primary' = primary
         \/ primary' = NoDoc /\ windows
         \/ primary' = job[r].doc,
         \/ bak' = bak
         \/ bak' = NoDoc /\ windows
         \/ bak' = job[r].current /\ Good(job[r].current),
         saved' = saved \/ (saved' = TRUE /\ (~windows => primary' # NoDoc)),
         backed' = backed \/ (backed' = TRUE /\ (~windows => primary' # NoDoc) /\ Good(bak')),
         SaveSound(q)'
  PROVE  StoreInv'
<1>. USE DEF StoreInv
<1>1. /\ job \in [Refreshers -> Jobs] /\ job' \in [Refreshers -> Jobs] /\ job'[r] = q
      /\ \A s \in Refreshers \ {r} : job'[s] = job[s]
      /\ Good(job[r].doc) /\ up
  BY DEF StoreTyped, SavesSound, Jobs
<1>2. Held' \subseteq Held \cup Blank
  <2>1. \A s \in Refreshers : job'[s].doc \in Held \cup Blank /\ job'[s].current \in Held \cup Blank
    BY <1>1 DEF Held, Blank
  <2>2. primary' \in Held \cup Blank /\ bak' \in Held \cup Blank
    BY DEF Held, Blank
  <2>. QED
    BY <2>1, <2>2 DEF Held
<1>3. primary' \in Docs /\ bak' \in Docs
  BY <1>1, Blanks DEF StoreTyped, Jobs
<1>4. Cardinality(Persisting') <= Cardinality(Persisting) /\ Cardinality(Persisting') \in Nat
      /\ Cardinality(Persisting) \in Nat
  <2>1. Persisting' \subseteq Persisting /\ Persisting \in SUBSET Refreshers
        /\ Persisting' \in SUBSET Refreshers
    BY <1>1 DEF Persisting
  <2>. QED
    BY <2>1, PersistingFinite, FS_Subset
<1>5. StoreTyped'
  <2>1. (clock + Cardinality(Persisting) <= 2 * fetches)'
    BY <1>4, DocNumbers DEF StoreTyped
  <2>2. saved' \in BOOLEAN /\ backed' \in BOOLEAN
    BY DEF StoreTyped
  <2>. QED
    BY <1>1, <1>3, <2>1, <2>2 DEF StoreTyped, Jobs
<1>6. DocsSound'
  <2>1. (\A d \in Held : Dated(d))'
    BY <1>2, NothingNew
  <2>2. /\ primary'.kind = "none" => primary' = NoDoc
        /\ bak'.kind # "broken" /\ (damage' = 0 => primary'.kind # "broken")
        /\ (mem = NoDoc \/ Good(mem))' /\ (seed = NoDoc \/ Good(seed))'
    BY <1>1, Blanks DEF DocsSound, Good
  <2>. QED
    BY <2>1, <2>2 DEF DocsSound
<1>7. Ordered'
  BY <1>2, NothingNew
<1>8. ~Forbidden => ~Forbidden'
  BY <1>1, Blanks DEF Forbidden, Good
<1>9. ~windows /\ primary # NoDoc => primary' # NoDoc
  BY <1>1, Blanks DEF Good
<1>10. \A s \in Refreshers \ {r} : SaveSound(job[s])'
  <2>1. ASSUME NEW s \in Refreshers \ {r} PROVE SaveSound(job[s])'
    BY <1>1, <1>8, <1>9 DEF SaveSound, SavesSound
  <2>. QED
    BY <2>1
<1>11. SavesSound'
  <2>1. \A s \in Refreshers : SaveSound(job[s])'
    <3>1. SaveSound(job[r])'
      BY <1>1
    <3>. QED
      BY <1>10, <3>1
  <2>2. ~windows => (saved' \/ backed' => primary' # NoDoc)
    BY <1>9 DEF SavesSound
  <2>3. ~windows => (backed' => bak'.kind # "none")
    BY Blanks DEF SavesSound, Good
  <2>4. up'
    BY <1>1
  <2>. QED
    BY <2>1, <2>2, <2>3, <2>4 DEF SavesSound, SaveSound
<1>. QED
  BY <1>5, <1>6, <1>7, <1>11
(* The steps of a save, but for the stamping. *)
LEMMA SaveStep ==
  ASSUME StoreInv, UNCHANGED windows, NEW r \in Refreshers,
         \/ GiveUp(r) \/ ReadCurrent(r) \/ RemoveBackup(r)
         \/ Demote(r) \/ Remove(r) \/ Replace(r) \/ Saved(r)
  PROVE  StoreInv'
<1>. PICK q : q = job[r]
  OBVIOUS
<1>1. /\ job \in [Refreshers -> Jobs] /\ q \in Jobs /\ SaveSound(q)
      /\ primary \in Docs /\ bak \in Docs
      /\ saved \in BOOLEAN /\ backed \in BOOLEAN
      /\ ~windows => /\ saved \/ backed => primary # NoDoc
                     /\ backed => bak.kind # "none"
  BY DEF StoreInv, StoreTyped, SavesSound, SaveSound, Jobs
<1>2. CASE GiveUp(r) \/ Saved(r)
  <2>1. /\ q # NoJob /\ q.at # "idle" /\ job' = [job EXCEPT ![r] = NoJob]
        /\ UNCHANGED <<up, mem, seed, clock, fetches, overlap, damage, crashes, primary, bak, backed>>
        /\ saved' = saved \/ (saved' = TRUE /\ q.at = "sync")
    BY <1>2, Blanks DEF GiveUp, Saved
  <2>2. SaveSound(NoJob)'
    BY Blanks DEF SaveSound
  <2>3. saved' = saved \/ (saved' = TRUE /\ (~windows => primary' # NoDoc))
    BY <1>1, <2>1 DEF SaveSound
  <2>. QED
    BY <2>1, <2>2, <2>3, Blanks, SaveMoves
<1>3. CASE ReadCurrent(r)
  <2>. PICK n : n = IF Forbidden THEN NoJob
                    ELSE [q EXCEPT !.current = primary,
                                   !.at = IF Demotable(primary) THEN "backup" ELSE "replace"]
    OBVIOUS
  <2>1. /\ q.at = "read" /\ job' = [job EXCEPT ![r] = n]
        /\ UNCHANGED <<up, mem, seed, clock, fetches, overlap, damage, crashes,
                       primary, bak, saved, backed>>
    BY <1>3 DEF ReadCurrent
  <2>2. n \in Jobs /\ n.at # "persist" /\ (n # NoJob => n.doc = q.doc)
        /\ n.current \in {primary, NoDoc} /\ n.doc \in {q.doc, NoDoc}
        /\ SaveSound(n)'
    <3>1. CASE Forbidden
      BY <3>1, Blanks DEF SaveSound
    <3>2. CASE ~Forbidden
      <4>1. /\ n \in Jobs /\ n.doc = q.doc /\ n.current = primary
            /\ n.at = (IF Good(primary) THEN "backup" ELSE "replace")
        BY <1>1, <3>2 DEF Jobs, Steps, Demotable
      <4>2. ~Forbidden'
        BY <2>1, <3>2 DEF Forbidden
      <4>3. q # NoJob /\ Good(q.doc) /\ n # NoJob
        BY <1>1, <2>1, <4>1, Blanks DEF SaveSound
      <4>4. ~overlap' => n.doc.fetch = fetches'
        BY <1>1, <2>1, <4>1, <4>3 DEF SaveSound
      <4>. QED
        BY <2>1, <4>1, <4>2, <4>3, <4>4, Blanks DEF SaveSound
    <3>. QED
      BY <3>1, <3>2
  <2>3. q # NoJob
    BY <2>1, Blanks
  <2>. QED
    BY <1>1, <2>1, <2>2, <2>3, SaveMoves
<1>4. ASSUME NEW step \in {"unbacked", "replace", "removed", "sync"}, Goto(r, step),
             q # NoJob, UNCHANGED <<up, mem, seed, clock, fetches, overlap, damage, crashes, saved>>,
             \/ primary' = primary
             \/ primary' = NoDoc /\ windows
             \/ primary' = q.doc,
             \/ bak' = bak
             \/ bak' = NoDoc /\ windows
             \/ bak' = q.current /\ Good(q.current),
             backed' = backed \/ (backed' = TRUE /\ (~windows => primary' # NoDoc) /\ Good(bak')),
             step = "unbacked" => q.at = "backup" /\ windows, step = "removed" => windows,
             step = "sync" => primary' = q.doc,
             q.at \in {"backup", "unbacked", "replace", "removed"}
      PROVE  StoreInv'
  <2>. PICK n : n = [q EXCEPT !.at = step]
    OBVIOUS
  <2>1. /\ job' = [job EXCEPT ![r] = n] /\ n \in Jobs /\ n.doc = q.doc /\ n.current = q.current
        /\ n.at = step /\ n # NoJob
    BY <1>1, <1>4, Blanks DEF Goto, Jobs, Steps
  <2>2. ~Forbidden' /\ Good(q.doc)
    BY <1>1, <1>4, Blanks DEF SaveSound, Forbidden, Good
  <2>3. ~windows /\ step = "sync" => primary' # NoDoc
    BY <1>4, <2>2, Blanks
  <2>4. (~overlap => n.doc.fetch = fetches)'
    BY <1>1, <1>4, <2>1 DEF SaveSound
  <2>5. step = "unbacked" => Good(q.current)
    BY <1>1, <1>4 DEF SaveSound
  <2>6. SaveSound(n)'
    BY <1>4, <2>1, <2>2, <2>3, <2>4, <2>5, Blanks DEF SaveSound
  <2>. QED
    BY <1>1, <1>4, <2>1, <2>6, SaveMoves
<1>5. CASE RemoveBackup(r)
  BY <1>4, <1>5, Blanks DEF RemoveBackup
<1>6. CASE Demote(r)
  <2>1. q.at \in {"backup", "unbacked"} /\ Good(q.current) /\ q # NoJob
        /\ (~windows => primary # NoDoc)
    BY <1>1, <1>6, Blanks DEF Demote, SaveSound
  <2>2. /\ Goto(r, "replace") /\ bak' = q.current /\ backed' = TRUE /\ primary' = primary
        /\ UNCHANGED <<up, mem, seed, clock, fetches, overlap, damage, crashes, saved>>
    BY <1>6 DEF Demote
  <2>. QED
    BY <1>4, <2>1, <2>2
<1>7. CASE Remove(r)
  BY <1>4, <1>7, Blanks DEF Remove
<1>8. CASE Replace(r)
  BY <1>4, <1>8, Blanks DEF Replace
<1>. QED
  BY <1>2, <1>3, <1>5, <1>6, <1>7, <1>8

(* A document of the latest discovery, written now. *)
LEMMA OneNewer ==
  ASSUME StoreInv, NEW n \in Docs, Good(n), n.fetchedAt = clock + 1,
         n.fetch \in 0 .. fetches', ~overlap' => n.fetch = fetches',
         Held' \subseteq Held \cup Blank \cup {n},
         clock' = clock + 1, fetches' \in {fetches, fetches + 1}, overlap => overlap'
  PROVE  (\A d \in Held : Dated(d))' /\ Ordered'
<1>0. clock \in Nat /\ fetches \in Nat
  BY DocNumbers DEF StoreInv, StoreTyped
<1>1. \A d \in Held' : Good(d) => d \in Held \/ d = n
  BY Blanks DEF Blank
<1>2. \A d \in Held : Good(d) => d.fetch <= fetches /\ d.fetchedAt <= clock
  BY DEF StoreInv, DocsSound, Dated
<1>3. \A d \in Held : d \in Docs
  BY DEF Held, StoreInv, StoreTyped
<1>4. \A d \in Held' : Good(d) => d.fetch <= fetches' /\ d.fetchedAt <= clock'
  BY <1>0, <1>1, <1>2, <1>3, DocNumbers
<1>5. (\A d \in Held : Dated(d))'
  BY <1>4 DEF Dated
<1>6. Ordered'
  <2>. SUFFICES ASSUME ~overlap', NEW d \in Held', NEW e \in Held', Good(d), Good(e),
                       d.fetch < e.fetch
                PROVE  d.fetchedAt < e.fetchedAt
    BY DEF Ordered
  <2>1. d \in Docs /\ e \in Docs /\ ~overlap
    BY <1>1, <1>3
  <2>2. d # n
    BY <1>0, <1>4, <2>1, DocNumbers
  <2>3. d \in Held
    BY <1>1, <2>2
  <2>4. CASE e = n
    BY <1>0, <1>2, <2>1, <2>3, <2>4, DocNumbers
  <2>5. CASE e # n
    BY <1>1, <2>1, <2>3, <2>5 DEF StoreInv, Ordered
  <2>. QED
    BY <2>4, <2>5
<1>. QED
  BY <1>5, <1>6

LEMMA StampStep ==
  ASSUME StoreInv, UNCHANGED windows, NEW r \in Refreshers, Stamp(r)
  PROVE  StoreInv'
<1>. PICK q : q = job[r]
  OBVIOUS
<1>. PICK n : n = [q.doc EXCEPT !.fetchedAt = clock + 1]
  OBVIOUS
<1>. PICK m : m = [q EXCEPT !.at = "read", !.doc = n]
  OBVIOUS
<1>1. /\ job \in [Refreshers -> Jobs] /\ q \in Jobs /\ q.at = "persist"
      /\ clock \in Nat /\ fetches \in 0 .. MaxFetches
      /\ UNCHANGED <<windows, up, mem, primary, bak, seed, fetches, saved, backed, overlap,
                     damage, crashes>>
      /\ clock' = clock + 1
      /\ \A s \in Refreshers : SaveSound(job[s])
  BY DEF StoreInv, StoreTyped, SavesSound, SaveSound, Jobs, Stamp
<1>2. /\ Good(q.doc) /\ q # NoJob /\ SaveSound(q) /\ q.doc \in Held
  BY <1>1, Blanks DEF SaveSound, Held
<1>3. clock + 1 <= 2 * fetches
  <2>1. Persisting \in SUBSET Refreshers /\ r \in Persisting
    BY <1>1 DEF Persisting
  <2>2. Cardinality(Persisting) \in Nat /\ Cardinality(Persisting) # 0
    BY <2>1, PersistingFinite, FS_EmptySet
  <2>. QED
    BY <1>1, <2>2 DEF StoreInv, StoreTyped
<1>4. n \in Docs /\ n.fetchedAt = clock + 1 /\ Good(n) /\ n.fetch = q.doc.fetch
  <2>1. clock + 1 \in 0 .. (2 * MaxFetches)
    BY <1>1, <1>3, DocNumbers
  <2>. QED
    BY <1>1, <1>2, <2>1 DEF Docs, Jobs, Good
<1>5. /\ m \in Jobs /\ m.at = "read" /\ m.doc = n /\ m.current = q.current
      /\ job' = [job EXCEPT ![r] = m]
  <2>1. [job EXCEPT ![r].at = "read", ![r].doc.fetchedAt = clock'] = [job EXCEPT ![r] = m]
    BY <1>1 DEF Jobs
  <2>. QED
    BY <1>1, <1>4, <2>1 DEF Stamp, Jobs, Steps
<1>6. /\ job' \in [Refreshers -> Jobs] /\ job'[r] = m
      /\ \A s \in Refreshers \ {r} : job'[s] = job[s]
  BY <1>1, <1>5
<1>7. (clock + Cardinality(Persisting))' = clock + Cardinality(Persisting)
  <2>1. Persisting' = Persisting \ {r} /\ r \in Persisting /\ Persisting \in SUBSET Refreshers
    BY <1>1, <1>5, <1>6 DEF Persisting
  <2>2. Cardinality(Persisting \ {r}) = Cardinality(Persisting) - 1 /\ Cardinality(Persisting) \in Nat
    BY <2>1, PersistingFinite, FS_RemoveElement
  <2>. QED
    BY <1>1, <2>1, <2>2
<1>8. StoreTyped'
  BY <1>1, <1>6, <1>7 DEF StoreInv, StoreTyped, Jobs
<1>9. (\A d \in Held : Dated(d))' /\ Ordered'
  <2>1. Held' \subseteq Held \cup Blank \cup {n}
    BY <1>1, <1>5, <1>6 DEF Held
  <2>2. n.fetch \in 0 .. fetches' /\ (~overlap' => n.fetch = fetches')
    <3>1. Dated(q.doc)
      BY <1>2 DEF StoreInv, DocsSound
    <3>2. ~overlap => q.doc.fetch = fetches
      BY <1>2 DEF SaveSound
    <3>3. n.fetch \in 0 .. MaxFetches
      BY <1>4, DocNumbers
    <3>. QED
      BY <1>1, <1>2, <1>4, <3>1, <3>2, <3>3, DocNumbers DEF Dated
  <2>. QED
    BY <1>1, <1>4, <2>1, <2>2, OneNewer
<1>10. DocsSound'
  BY <1>1, <1>9 DEF StoreInv, DocsSound
<1>11. SavesSound'
  <2>1. ASSUME NEW s \in Refreshers PROVE SaveSound(job[s])'
    <3>1. CASE s = r
      <4>1. ~overlap => n.fetch = fetches
        BY <1>2, <1>4 DEF SaveSound
      <4>2. SaveSound(m)'
        BY <1>1, <1>4, <1>5, <4>1, Blanks DEF SaveSound, Forbidden
      <4>. QED
        BY <1>6, <3>1, <4>2
    <3>2. CASE s # r
      <4>1. SaveSound(job[s]) /\ job'[s] = job[s]
        BY <1>1, <1>6, <3>2
      <4>. QED
        BY <1>1, <4>1 DEF SaveSound, Forbidden
    <3>. QED
      BY <3>1, <3>2
  <2>2. up
    BY <1>2 DEF StoreInv, SavesSound
  <2>. QED
    BY <1>1, <2>1, <2>2 DEF StoreInv, SavesSound, SaveSound
<1>. QED
  BY <1>8, <1>9, <1>10, <1>11 DEF StoreInv

LEMMA DiscoverStep ==
  ASSUME StoreInv, UNCHANGED windows, NEW r \in Refreshers, Discover(r)
  PROVE  StoreInv'
<1>. PICK n : n = Doc(fetches + 1, clock + 1)
  OBVIOUS
<1>. PICK m : m = [NoJob EXCEPT !.at = "persist", !.doc = n]
  OBVIOUS
<1>1. /\ job \in [Refreshers -> Jobs] /\ job[r] = NoJob /\ up
      /\ clock \in Nat /\ fetches \in 0 .. MaxFetches /\ fetches < MaxFetches
      /\ UNCHANGED <<windows, up, primary, bak, seed, saved, backed, damage, crashes>>
      /\ clock' = clock + 1 /\ fetches' = fetches + 1
      /\ \A s \in Refreshers : SaveSound(job[s])
      /\ overlap' \in BOOLEAN /\ (overlap => overlap')
      /\ ~overlap' => \A s \in Refreshers : job[s] = NoJob
  BY DEF StoreInv, StoreTyped, SavesSound, SaveSound, Jobs, Discover
<1>2. mem' = n /\ job' = [job EXCEPT ![r] = m]
  BY DEF Discover
<1>3. Cardinality(Persisting) \in Nat /\ Cardinality(Persisting') = Cardinality(Persisting) + 1
  <2>1. Persisting' = Persisting \cup {r} /\ r \notin Persisting /\ Persisting \in SUBSET Refreshers
    BY <1>1, <1>2, Blanks DEF Persisting, NoJob
  <2>. QED
    BY <2>1, PersistingFinite, FS_AddElement
<1>4. clock + 1 + Cardinality(Persisting') <= 2 * (fetches + 1)
  BY <1>1, <1>3 DEF StoreInv, StoreTyped
<1>5. n \in Docs /\ n.fetchedAt = clock + 1 /\ Good(n) /\ n.fetch = fetches + 1
  <2>1. clock + 1 \in 0 .. (2 * MaxFetches) /\ fetches + 1 \in 0 .. MaxFetches
    BY <1>1, <1>3, <1>4, DocNumbers
  <2>. QED
    BY <2>1 DEF Docs, Doc, Good
<1>6. m \in Jobs /\ m.at = "persist" /\ m.doc = n /\ m.current = NoDoc /\ m # NoJob
  BY <1>5, Blanks DEF Jobs, NoJob, Steps
<1>7. /\ job' \in [Refreshers -> Jobs] /\ job'[r] = m
      /\ \A s \in Refreshers \ {r} : job'[s] = job[s]
  BY <1>1, <1>2, <1>6
<1>8. StoreTyped'
  <2>1. clock' \in Nat /\ fetches' \in 0 .. MaxFetches
    BY <1>1, DocNumbers
  <2>2. (clock + Cardinality(Persisting) <= 2 * fetches)'
    BY <1>1, <1>4
  <2>. QED
    BY <1>1, <1>2, <1>5, <1>7, <2>1, <2>2 DEF StoreInv, StoreTyped, Jobs
<1>9. (\A d \in Held : Dated(d))' /\ Ordered'
  <2>1. Held' \subseteq Held \cup Blank \cup {n}
    BY <1>1, <1>2, <1>6, <1>7 DEF Held, Blank
  <2>2. n.fetch \in 0 .. fetches' /\ (~overlap' => n.fetch = fetches')
    BY <1>1, <1>5
  <2>. QED
    BY <1>1, <1>5, <2>1, <2>2, OneNewer
<1>10. DocsSound'
  BY <1>1, <1>2, <1>5, <1>9 DEF StoreInv, DocsSound, Good
<1>11. SavesSound'
  <2>1. ASSUME NEW s \in Refreshers PROVE SaveSound(job[s])'
    <3>1. CASE s = r
      <4>1. SaveSound(m)'
        BY <1>1, <1>5, <1>6, Blanks DEF SaveSound
      <4>. QED
        BY <1>7, <3>1, <4>1
    <3>2. CASE s # r
      <4>1. SaveSound(job[s]) /\ job'[s] = job[s] /\ (~overlap' => job[s] = NoJob)
        BY <1>1, <1>7, <3>2
      <4>. QED
        BY <1>1, <4>1 DEF SaveSound, Forbidden
    <3>. QED
      BY <3>1, <3>2
  <2>. QED
    BY <1>1, <2>1 DEF StoreInv, SavesSound, SaveSound
<1>. QED
  BY <1>8, <1>9, <1>10, <1>11 DEF StoreInv

(* What a restart or a seed finds is a document that is held. *)
LEMMA LoadableHeld ==
  ASSUME StoreInv
  PROVE  Loadable \in {primary, bak, NoDoc} /\ Loadable \in Docs
BY Blanks DEF Loadable, StoreInv, StoreTyped

(* The seeding, and the restarts. *)
LEMMA SeedStep ==
  ASSUME StoreInv, UNCHANGED windows, ReadSeed \/ ApplySeed
  PROVE  StoreInv'
<1>1. /\ UNCHANGED <<windows, up, primary, bak, job, clock, fetches, saved, backed, overlap,
                     damage, crashes>>
      /\ mem' \in {mem, seed} /\ seed' \in {seed, Loadable, NoDoc}
      /\ mem' = mem \/ (mem' = seed /\ seed # NoDoc)
      /\ seed' = NoDoc \/ Good(seed')
  BY DEF ReadSeed, ApplySeed
<1>2. Held' \subseteq Held \cup Blank
  BY <1>1, LoadableHeld DEF Held, Blank
<1>3. (\A d \in Held : Dated(d))' /\ Ordered'
  BY <1>1, <1>2, NothingNew
<1>4. StoreTyped'
  <2>1. mem' \in Docs /\ seed' \in Docs
    BY <1>1, LoadableHeld, Blanks DEF StoreInv, StoreTyped
  <2>2. Persisting' = Persisting
    BY <1>1 DEF Persisting
  <2>. QED
    BY <1>1, <2>1, <2>2 DEF StoreInv, StoreTyped
<1>5. DocsSound'
  <2>1. (mem = NoDoc \/ Good(mem))' /\ (seed = NoDoc \/ Good(seed))'
    BY <1>1, Blanks DEF StoreInv, DocsSound, Good
  <2>. QED
    BY <1>1, <1>3, <2>1 DEF StoreInv, DocsSound
<1>6. SavesSound'
  BY <1>1 DEF StoreInv, SavesSound, Forbidden
<1>. QED
  BY <1>3, <1>4, <1>5, <1>6 DEF StoreInv

LEMMA CrashStep ==
  ASSUME StoreInv, UNCHANGED windows, Crash
  PROVE  StoreInv'
<1>1. /\ UNCHANGED <<windows, primary, bak, clock, fetches, saved, backed, overlap, damage>>
      /\ ~up' /\ mem' = NoDoc /\ seed' = NoDoc
      /\ job' \in [Refreshers -> Jobs]
      /\ \A s \in Refreshers : job'[s] = NoJob
      /\ crashes' \in 0 .. MaxCrashes /\ up' \in BOOLEAN
  <2>1. crashes' \in 0 .. MaxCrashes
    BY DocNumbers DEF StoreInv, StoreTyped, Crash
  <2>. QED
    BY <2>1, Blanks DEF Crash
<1>2. Held' \subseteq Held \cup Blank
  BY <1>1, Blanks DEF Held, Blank
<1>3. (\A d \in Held : Dated(d))' /\ Ordered'
  BY <1>1, <1>2, NothingNew
<1>4. Cardinality(Persisting') <= Cardinality(Persisting) /\ Cardinality(Persisting') \in Nat
      /\ Cardinality(Persisting) \in Nat
  <2>1. Persisting' \subseteq Persisting /\ Persisting \in SUBSET Refreshers
        /\ Persisting' \in SUBSET Refreshers
    BY <1>1, Blanks DEF Persisting
  <2>. QED
    BY <2>1, PersistingFinite, FS_Subset
<1>5. StoreTyped'
  <2>1. (clock + Cardinality(Persisting) <= 2 * fetches)'
    BY <1>1, <1>4, DocNumbers DEF StoreInv, StoreTyped
  <2>. QED
    BY <1>1, <2>1, Blanks DEF StoreInv, StoreTyped, Jobs
<1>6. DocsSound'
  BY <1>1, <1>3, Blanks DEF StoreInv, DocsSound
<1>7. SavesSound'
  <2>1. \A s \in Refreshers : SaveSound(job[s])'
    BY <1>1, Blanks DEF SaveSound
  <2>. QED
    BY <1>1, <2>1 DEF StoreInv, SavesSound, SaveSound
<1>. QED
  BY <1>3, <1>5, <1>6, <1>7 DEF StoreInv

(* The files, while no save runs or one of them is broken. *)
LEMMA WorldStep ==
  ASSUME StoreInv, UNCHANGED windows, Start \/ NewerBuild \/ Break
  PROVE  StoreInv'
<1>1. /\ UNCHANGED <<windows, mem, job, seed, clock, fetches, saved, backed, overlap, crashes>>
      /\ up' \in BOOLEAN /\ (up => up')
      /\ primary' \in {primary, Broken, Future} /\ bak' \in {bak, primary}
      /\ damage' \in 0 .. MaxDamage /\ (primary' = Broken => damage' # 0)
      /\ damage' = 0 => damage = 0
      /\ bak' # bak => bak' = primary /\ primary.kind \in {"good", "future"}
      /\ ~up \/ (bak' = bak /\ primary' \in {primary, Broken} /\ up')
      /\ primary # NoDoc => primary' # NoDoc
  <2>1. damage \in 0 .. MaxDamage /\ up \in BOOLEAN /\ (damage = 0 => primary # Broken)
    BY Blanks DEF StoreInv, StoreTyped, DocsSound
  <2>2. CASE Start
    BY <2>1, <2>2 DEF Start
  <2>3. CASE NewerBuild
    BY <2>1, <2>3, Blanks DEF NewerBuild
  <2>4. CASE Break
    <3>1. damage' \in 0 .. MaxDamage /\ damage' # 0
      BY <2>1, <2>4, DocNumbers DEF Break
    <3>. QED
      BY <2>1, <2>4, <3>1, Blanks DEF Break
  <2>. QED
    BY <2>2, <2>3, <2>4
<1>2. Held' \subseteq Held \cup Blank
  BY <1>1 DEF Held, Blank
<1>3. (\A d \in Held : Dated(d))' /\ Ordered'
  BY <1>1, <1>2, NothingNew
<1>4. StoreTyped'
  <2>1. primary' \in Docs /\ bak' \in Docs
    BY <1>1, Blanks DEF StoreInv, StoreTyped
  <2>2. Persisting' = Persisting
    BY <1>1 DEF Persisting
  <2>. QED
    BY <1>1, <2>1, <2>2 DEF StoreInv, StoreTyped
<1>5. DocsSound'
  <2>1. primary'.kind = "none" => primary' = NoDoc
    BY <1>1, Blanks DEF StoreInv, DocsSound
  <2>2. bak'.kind # "broken"
    BY <1>1 DEF StoreInv, DocsSound
  <2>3. damage' = 0 => primary'.kind # "broken"
    BY <1>1, Blanks DEF StoreInv, DocsSound
  <2>. QED
    BY <1>1, <1>3, <2>1, <2>2, <2>3 DEF StoreInv, DocsSound
<1>6. SavesSound'
  <2>1. ASSUME NEW s \in Refreshers PROVE SaveSound(job[s])'
    <3>1. SaveSound(job[s])
      BY DEF StoreInv, SavesSound, SaveSound
    <3>2. CASE up
      BY <1>1, <3>1, <3>2, Blanks DEF SaveSound, Forbidden
    <3>3. CASE ~up
      <4>1. job[s] = NoJob
        BY <3>3 DEF StoreInv, SavesSound
      <4>. QED
        BY <1>1, <4>1, Blanks DEF SaveSound
    <3>. QED
      BY <3>2, <3>3
  <2>2. (~up => \A s \in Refreshers : job[s] = NoJob)'
    BY <1>1 DEF StoreInv, SavesSound
  <2>3. (~windows => /\ saved \/ backed => primary # NoDoc
                     /\ backed => bak.kind # "none")'
    BY <1>1 DEF StoreInv, SavesSound
  <2>. QED
    BY <2>1, <2>2, <2>3 DEF SavesSound, SaveSound
<1>. QED
  BY <1>3, <1>4, <1>5, <1>6 DEF StoreInv

LEMMA StoreInit ==
  ASSUME CatalogInit
  PROVE  StoreInv
<1>1. Persisting = {}
  BY Blanks DEF CatalogInit, Persisting
<1>2. StoreTyped
  <2>1. clock + Cardinality(Persisting) <= 2 * fetches
    BY <1>1, FS_EmptySet DEF CatalogInit
  <2>2. fetches \in 0 .. MaxFetches /\ damage \in 0 .. MaxDamage /\ crashes \in 0 .. MaxCrashes
        /\ clock \in Nat
    BY DocNumbers DEF CatalogInit
  <2>. QED
    BY <2>1, <2>2, Blanks DEF CatalogInit, StoreTyped, Jobs
<1>3. \A d \in Held : d = NoDoc
  BY Blanks DEF CatalogInit, Held
<1>4. DocsSound /\ Ordered
  BY <1>3, Blanks DEF CatalogInit, DocsSound, Dated, Ordered
<1>5. SavesSound
  BY Blanks DEF CatalogInit, SavesSound
<1>. QED
  BY <1>2, <1>4, <1>5 DEF StoreInv

LEMMA StoreNext ==
  ASSUME StoreInv, [CatalogNext]_catalogVars
  PROVE  StoreInv'
<1>1. CASE CatalogNext
  <2>. USE <1>1 DEF CatalogNext
  <2>1. CASE \E r \in Refreshers : Discover(r) \/ Save(r)
    BY <2>1, DiscoverStep, StampStep, SaveStep DEF Save
  <2>2. CASE ReadSeed \/ ApplySeed
    BY <2>2, SeedStep
  <2>3. CASE Crash
    BY <2>3, CrashStep
  <2>4. CASE Start \/ NewerBuild \/ Break
    BY <2>4, WorldStep
  <2>. QED
    BY <2>1, <2>2, <2>3, <2>4
<1>2. CASE UNCHANGED catalogVars
  BY <1>2 DEF catalogVars, StoreInv, StoreTyped, DocsSound, SavesSound, Ordered, Held, Dated,
              Persisting, Forbidden
<1>. QED
  BY <1>1, <1>2

(* What is held in memory, on the disk and by every save is of a discovery *)
(* that was made, a save that has passed the schema check finds no later   *)
(* schema until it ends, and the files a save leaves are what it read and  *)
(* what it brought.                                                        *)
THEOREM StoreInductive == CatalogSpec => []StoreInv
<1>1. CatalogInit => StoreInv
  BY StoreInit
<1>2. StoreInv /\ [CatalogNext]_catalogVars => StoreInv'
  BY StoreNext
<1>. QED
  BY <1>1, <1>2, PTL DEF CatalogSpec

(* A catalog that was saved once is found at every restart, and one that   *)
(* was backed up also after a file is broken, wherever the process stops   *)
(* (model_store.go:11-15).                                                 *)
THEOREM CatalogRecoverable == CatalogSpec => []Recoverable
<1>1. ASSUME StoreInv PROVE Recoverable
  <2>1. CatalogTypeOK
    <3>1. clock \in 0 .. (2 * MaxFetches) /\ fetches \in 0 .. MaxFetches
      <4>1. Persisting \in SUBSET Refreshers
        BY DEF Persisting
      <4>2. Cardinality(Persisting) \in Nat
        BY <4>1, PersistingFinite
      <4>. QED
        BY <1>1, <4>2, DocNumbers DEF StoreInv, StoreTyped
    <3>2. ASSUME NEW r \in Refreshers
          PROVE  /\ job[r].at \in Steps /\ job[r].doc \in Docs /\ job[r].current \in Docs
                 /\ job[r] # NoJob => Good(job[r].doc) /\ job[r].doc.fetch <= fetches
      <4>1. job[r] \in [at : Steps, doc : Docs, current : Docs]
        BY <1>1 DEF StoreInv, StoreTyped
      <4>2. Dated(job[r].doc)
        BY <1>1 DEF StoreInv, DocsSound, Held
      <4>3. job[r] # NoJob => Good(job[r].doc)
        BY <1>1 DEF StoreInv, SavesSound
      <4>. QED
        BY <4>1, <4>2, <4>3 DEF Dated
    <3>. QED
      BY <1>1, <3>1, <3>2, Blanks DEF CatalogTypeOK, StoreInv, StoreTyped, DocsSound, Good
  <2>2. ASSUME ~Forbidden, ~(windows /\ primary = NoDoc)
        PROVE  /\ saved /\ damage = 0 => Good(Loadable)
               /\ backed /\ damage <= 1 /\ ~windows => Good(Loadable)
    <3>1. primary \in Docs /\ bak \in Docs
      BY <1>1 DEF StoreInv, StoreTyped
    <3>2. saved /\ damage = 0 => Good(primary)
      BY <1>1, <2>2, <3>1, DocNumbers DEF StoreInv, SavesSound, DocsSound, Forbidden, Good
    <3>3. backed /\ ~windows => primary # NoDoc /\ Good(bak)
      BY <1>1, <2>2, <3>1, DocNumbers DEF StoreInv, SavesSound, DocsSound, Forbidden, Good
    <3>. QED
      BY <3>2, <3>3 DEF Loadable
  <2>. QED
    BY <2>1, <2>2 DEF Recoverable
<1>2. CatalogSpec => []StoreInv
  BY StoreInductive
<1>. QED
  BY <1>1, <1>2, PTL

(* A document of a later schema is neither overwritten nor removed by this *)
(* build (model_store.go:17-19).                                           *)
THEOREM FutureStands == CatalogSpec => FutureKept
<1>1. ASSUME StoreInv, [CatalogNext]_catalogVars, up
      PROVE  /\ primary.kind = "future" => primary'.kind \in {"future", "broken"}
             /\ bak.kind = "future" => bak'.kind = "future"
  <2>1. CASE UNCHANGED <<primary, bak>>
    BY <2>1
  <2>2. ASSUME NEW r \in Refreshers, Save(r), ~UNCHANGED <<primary, bak>>
        PROVE  ~Forbidden
    <3>1. job[r].at \in {"backup", "unbacked", "replace", "removed"}
      BY <2>2 DEF Save, Stamp, GiveUp, ReadCurrent, RemoveBackup, Demote, Remove, Replace, Saved
    <3>. QED
      BY <1>1, <3>1 DEF StoreInv, SavesSound
  <2>3. CASE Break
    BY <2>3, Blanks DEF Break
  <2>4. ASSUME NEW r \in Refreshers, Discover(r) PROVE UNCHANGED <<primary, bak>>
    BY <2>4 DEF Discover
  <2>5. ~Start /\ ~NewerBuild
    BY <1>1 DEF Start, NewerBuild
  <2>6. CASE ReadSeed \/ ApplySeed \/ Crash \/ UNCHANGED catalogVars
    BY <2>6 DEF ReadSeed, ApplySeed, Crash, catalogVars
  <2>. QED
    BY <1>1, <2>1, <2>2, <2>3, <2>4, <2>5, <2>6 DEF CatalogNext, Forbidden
<1>2. CatalogSpec => []StoreInv
  BY StoreInductive
<1>. QED
  BY <1>1, <1>2, PTL DEF CatalogSpec, FutureKept

(* Seeding from the disk never puts back a discovery that memory has       *)
(* replaced, as long as discoveries do not overlap (models.go,             *)
(* model_store.go:275-276).                                                *)
THEOREM LiveStands == CatalogSpec => LiveWins
<1>1. ASSUME StoreInv, [CatalogNext]_catalogVars, mem # NoDoc, mem' # NoDoc, ~overlap
      PROVE  mem'.fetch >= mem.fetch
  <2>1. mem \in Docs /\ seed \in Docs /\ fetches \in Nat /\ clock \in Nat /\ mem \in Held /\ seed \in Held
    BY <1>1, DocNumbers DEF StoreInv, StoreTyped, Held
  <2>2. CASE mem' = mem
    BY <2>1, <2>2, DocNumbers
  <2>3. ASSUME NEW r \in Refreshers, Discover(r) PROVE mem'.fetch >= mem.fetch
    <3>1. mem'.fetch = fetches + 1
      BY <2>3 DEF Discover, Doc
    <3>2. Good(mem) => mem.fetch <= fetches
      BY <1>1, <2>1 DEF StoreInv, DocsSound, Dated
    <3>3. Good(mem)
      BY <1>1 DEF StoreInv, DocsSound
    <3>. QED
      BY <2>1, <3>1, <3>2, <3>3, DocNumbers
  <2>4. CASE ApplySeed
    <3>1. CASE mem' = seed /\ seed.fetchedAt > mem.fetchedAt
      <4>1. Good(mem) /\ Good(seed)
        BY <1>1, <2>4 DEF StoreInv, DocsSound, ApplySeed
      <4>2. seed.fetch < mem.fetch => seed.fetchedAt < mem.fetchedAt
        BY <1>1, <2>1, <4>1 DEF StoreInv, Ordered
      <4>. QED
        BY <2>1, <3>1, <4>2, DocNumbers
    <3>. QED
      BY <1>1, <2>2, <2>4, <3>1 DEF ApplySeed, Newer
  <2>5. ASSUME NEW r \in Refreshers, Save(r) PROVE mem' = mem
    BY <2>5 DEF Save, Stamp, GiveUp, ReadCurrent, RemoveBackup, Demote, Remove, Replace, Saved
  <2>6. CASE ReadSeed \/ Start \/ NewerBuild \/ Break \/ UNCHANGED catalogVars
    BY <2>2, <2>6 DEF ReadSeed, Start, NewerBuild, Break, catalogVars
  <2>7. ~Crash
    BY <1>1 DEF Crash
  <2>. QED
    BY <1>1, <2>2, <2>3, <2>4, <2>5, <2>6, <2>7 DEF CatalogNext
<1>2. CatalogSpec => []StoreInv
  BY StoreInductive
<1>. QED
  BY <1>1, <1>2, PTL DEF CatalogSpec, LiveWins
-----------------------------------------------------------------------------
(* What each account is answered.                                          *)

(* A catalog of the account, with the facts of another one, tells of its   *)
(* own models and windows and is not empty.                                *)
LEMMA EffectiveOwn ==
  ASSUME NEW a \in Subscribers, NEW c \in Published[a], NEW f \in Published[a]
  PROVE  /\ DOMAIN EffectiveModels(c, f) # {}
         /\ ToldOwn(a, EffectiveModels(c, f))
<1>1. DOMAIN EffectiveModels(c, f) = DOMAIN c /\ DOMAIN c # {}
  BY ServingAssumption DEF EffectiveModels
<1>2. ASSUME NEW m \in DOMAIN c
      PROVE  \/ EffectiveModels(c, f)[m] = 0
             \/ /\ m \in PublishedModels(a)
                /\ EffectiveModels(c, f)[m] \in PublishedWindows(a, m)
  <2>1. CASE m \in DOMAIN f
    <3>1. EffectiveModels(c, f)[m] = EffectiveWindow(m, f[m])
      BY <2>1 DEF EffectiveModels
    <3>2. EffectiveWindow(m, f[m]) \in f[m].tiers \cup {f[m].default}
      BY DEF EffectiveWindow
    <3>3. f[m].tiers \cup {f[m].default} \subseteq PublishedWindows(a, m)
      BY <2>1 DEF PublishedWindows
    <3>4. m \in PublishedModels(a)
      BY <2>1 DEF PublishedModels
    <3>. QED
      BY <3>1, <3>2, <3>3, <3>4
  <2>2. CASE m \notin DOMAIN f
    BY <2>2 DEF EffectiveModels
  <2>. QED
    BY <2>1, <2>2
<1>. QED
  BY <1>1, <1>2 DEF ToldOwn

LEMMA KeyOwn ==
  ASSUME NEW a \in Subscribers, ServingInv
  PROVE  AccountCacheKey(a, epoch[a]) \in KeysOf(a)
<1>1. epoch[a] \in 0 .. MaxRenewals /\ MaxRenewals \in Nat
  BY ServingAssumption DEF ServingInv
<1>2. 0 \in 0 .. MaxRenewals
  BY <1>1
<1>. QED
  BY <1>1, <1>2 DEF AccountCacheKey, KeysOf

LEMMA KeysApart ==
  ASSUME NEW a \in Subscribers, NEW k \in KeysOf(a)
  PROVE  k \in AccountKeys /\ (ServingInv => known[k] \in Published[a] \cup {NoCatalog})
         /\ \A b \in Subscribers : k \in KeysOf(b) => b = a
BY DEF KeysOf, AccountKeys, ServingInv

(* What is answered of the catalog stored under a key. *)
LEMMA StoredOwn ==
  ASSUME ServingInv, NEW a \in Subscribers, NEW k \in KeysOf(a), known[k] # NoCatalog
  PROVE  /\ DOMAIN EffectiveModels(known[k], known[k]) # {}
         /\ ToldOwn(a, EffectiveModels(known[k], known[k]))
<1>. PICK c : c = known[k]
  OBVIOUS
<1>1. c \in Published[a]
  BY DEF ServingInv
<1>. QED
  BY <1>1, EffectiveOwn

(* A goroutine takes its next step. *)
LEMMA AskerMoves ==
  ASSUME ServingInv, NEW r \in Askers, NEW q, asker' = [asker EXCEPT ![r] = q], AskSound(q),
         UNCHANGED <<known, fresh, epoch>>
  PROVE  ServingInv'
<1>1. asker' = [s \in Askers |-> asker'[s]] /\ asker'[r] = q
      /\ \A s \in Askers \ {r} : asker'[s] = asker[s]
  BY DEF ServingInv
<1>2. ASSUME NEW s \in Askers PROVE AskSound(asker[s])'
  <2>1. CASE s = r
    BY <1>1, <2>1 DEF AskSound
  <2>2. CASE s # r
    BY <1>1, <2>2 DEF ServingInv, AskSound
  <2>. QED
    BY <2>1, <2>2
<1>. QED
  BY <1>1, <1>2 DEF ServingInv

(* What a question or an answer has to be. *)
LEMMA AskSoundOf ==
  ASSUME NEW s \in {"asking", "refreshing", "stored", "answered"}, NEW a \in Subscribers,
         NEW k \in KeysOf(a), NEW x, NEW h,
         s = "asking" /\ h = TRUE => known[k] # NoCatalog,
         s = "stored" => known[k] # NoCatalog /\ x \in Published[a],
         s = "answered" => (h = TRUE => DOMAIN x # {}) /\ ToldOwn(a, x)
  PROVE  AskSound([step |-> s, account |-> a, key |-> k, answer |-> x, had |-> h])
BY DEF AskSound

LEMMA NoAskerSound ==
  /\ NoAsker.step = "idle" /\ ~NoAsker.had /\ AskSound(NoAsker)
BY DEF NoAsker, AskSound

(* An answer at once, or after a discovery. *)
LEMMA AnswerStep ==
  ASSUME ServingInv, NEW r \in Askers,
         AnswerDiscovered(r) \/ CallFails(r) \/ Done(r)
  PROVE  ServingInv'
<1>. PICK q : q = asker[r]
  OBVIOUS
<1>1. AskSound(q) /\ asker = [s \in Askers |-> asker[s]]
  BY DEF ServingInv
<1>2. UNCHANGED <<known, fresh, epoch>>
  BY DEF AnswerDiscovered, CallFails, Done
<1>3. CASE asker' = [asker EXCEPT ![r] = NoAsker]
  BY <1>2, <1>3, NoAskerSound, AskerMoves
<1>4. ASSUME NEW told, Answered(r, told), q.step # "idle", ToldOwn(q.account, told),
             q.had = TRUE => DOMAIN told # {}
      PROVE  ServingInv'
  <2>. PICK n : n = [q EXCEPT !.step = "answered", !.answer = told]
    OBVIOUS
  <2>1. /\ n = [step |-> "answered", account |-> q.account, key |-> q.key,
               answer |-> told, had |-> q.had]
        /\ asker' = [asker EXCEPT ![r] = n]
    BY <1>1, <1>4 DEF Answered, AskSound
  <2>2. AskSound(n)
    BY <1>1, <1>4, <2>1 DEF AskSound
  <2>. QED
    BY <1>2, <2>1, <2>2, AskerMoves
<1>5. CASE AnswerDiscovered(r)
  <2>. PICK c : c = known[q.key]
    OBVIOUS
  <2>1. /\ q.step = "stored" /\ q.account \in Subscribers /\ q.key \in KeysOf(q.account)
        /\ c # NoCatalog /\ q.answer \in Published[q.account]
    BY <1>1, <1>5 DEF AnswerDiscovered, AskSound
  <2>2. c \in Published[q.account]
    BY <2>1 DEF ServingInv
  <2>3. /\ DOMAIN EffectiveModels(q.answer, c) # {}
        /\ ToldOwn(q.account, EffectiveModels(q.answer, c))
    BY <2>1, <2>2, EffectiveOwn
  <2>4. Answered(r, EffectiveModels(q.answer, c))
    BY <1>5 DEF AnswerDiscovered
  <2>. PICK told : told = EffectiveModels(q.answer, c)
    OBVIOUS
  <2>. QED
    BY <1>4, <2>1, <2>3, <2>4
<1>6. CASE q.step = "asking" /\ Answered(r, LastGood(q.key))
  <2>. PICK told : told = LastGood(q.key)
    OBVIOUS
  <2>1. q.account \in Subscribers /\ q.key \in KeysOf(q.account)
        /\ (q.had = TRUE => known[q.key] # NoCatalog)
    BY <1>1, <1>6 DEF AskSound
  <2>2. ToldOwn(q.account, told) /\ (q.had = TRUE => DOMAIN told # {})
    <3>1. CASE known[q.key] = NoCatalog
      <4>1. told = << >> /\ DOMAIN told = {}
        BY <3>1 DEF LastGood
      <4>. QED
        BY <2>1, <3>1, <4>1 DEF ToldOwn
    <3>2. CASE known[q.key] # NoCatalog
      BY <2>1, <3>2, StoredOwn DEF LastGood
    <3>. QED
      BY <3>1, <3>2
  <2>. QED
    BY <1>4, <1>6, <2>2
<1>. QED
  BY <1>3, <1>5, <1>6 DEF CallFails, Done

(* A question begins; a request for a chat is answered on the spot. *)
LEMMA AskStep ==
  ASSUME ServingInv, NEW r \in Askers, NEW a \in Subscribers,
         \/ ModelForAuth(r, a) \/ Refresh(r, a)
         \/ \E m \in ModelKeys : ChatRequest(r, a, m)
  PROVE  ServingInv'
<1>. PICK k : k = AccountCacheKey(a, epoch[a])
  OBVIOUS
<1>1. k \in KeysOf(a) /\ UNCHANGED <<known, fresh, epoch>>
  BY KeyOwn DEF ModelForAuth, Refresh, ChatRequest
<1>2. ASSUME NEW n, asker' = [asker EXCEPT ![r] = n], AskSound(n) PROVE ServingInv'
  BY <1>1, <1>2, AskerMoves
<1>3. CASE ModelForAuth(r, a)
  <2>. PICK n, told :
         /\ told = EffectiveModels(known[k], known[k])
         /\ n = IF k \in fresh
                THEN [NoAsker EXCEPT !.account = a, !.key = k, !.had = known[k] # NoCatalog,
                                     !.step = "answered", !.answer = told]
                ELSE [NoAsker EXCEPT !.account = a, !.key = k, !.had = known[k] # NoCatalog,
                                     !.step = "asking"]
    OBVIOUS
  <2>1. asker' = [asker EXCEPT ![r] = n]
    BY <1>3 DEF ModelForAuth, NoAsker
  <2>2. AskSound(n)
    <3>1. CASE k \in fresh
      <4>1. known[k] # NoCatalog
        BY <3>1 DEF ServingInv
      <4>2. DOMAIN told # {} /\ ToldOwn(a, told)
        BY <1>1, <4>1, StoredOwn
      <4>3. n = [step |-> "answered", account |-> a, key |-> k, answer |-> told,
                 had |-> known[k] # NoCatalog]
        BY <3>1 DEF NoAsker
      <4>. QED
        BY <1>1, <4>2, <4>3 DEF AskSound
    <3>2. CASE k \notin fresh
      <4>. PICK h \in BOOLEAN : h = (known[k] # NoCatalog)
        OBVIOUS
      <4>1. n = [step |-> "asking", account |-> a, key |-> k, answer |-> NoCatalog, had |-> h]
        BY <3>2 DEF NoAsker
      <4>2. AskSound([step |-> "asking", account |-> a, key |-> k, answer |-> NoCatalog,
                      had |-> h])
        BY <1>1, AskSoundOf
      <4>. QED
        BY <4>1, <4>2
    <3>. QED
      BY <3>1, <3>2
  <2>. QED
    BY <1>2, <2>1, <2>2
<1>4. CASE Refresh(r, a)
  <2>. PICK n : n = [NoAsker EXCEPT !.step = "refreshing", !.account = a, !.key = k]
    OBVIOUS
  <2>1. asker' = [asker EXCEPT ![r] = n]
    BY <1>4 DEF Refresh
  <2>3. n = [step |-> "refreshing", account |-> a, key |-> k, answer |-> NoCatalog,
             had |-> FALSE]
    BY DEF NoAsker
  <2>2. AskSound(n)
    <3>1. AskSound([step |-> "refreshing", account |-> a, key |-> k, answer |-> NoCatalog,
                    had |-> FALSE])
      BY <1>1, AskSoundOf
    <3>. QED
      BY <2>3, <3>1
  <2>. QED
    BY <1>2, <2>1, <2>2
<1>5. ASSUME NEW m \in ModelKeys, ChatRequest(r, a, m) PROVE ServingInv'
  <2>. PICK facts : facts = IF known[k] = NoCatalog THEN << >> ELSE known[k]
    OBVIOUS
  <2>. PICK told : told = [x \in {m} |-> IF m \in DOMAIN facts
                                         THEN EffectiveWindow(m, facts[m]) ELSE 0]
    OBVIOUS
  <2>. PICK n : n = [NoAsker EXCEPT !.step = "answered", !.account = a, !.key = k,
                                    !.answer = told]
    OBVIOUS
  <2>1. asker' = [asker EXCEPT ![r] = n]
    BY <1>5 DEF ChatRequest
  <2>4. n = [step |-> "answered", account |-> a, key |-> k, answer |-> told, had |-> FALSE]
    BY DEF NoAsker
  <2>2. ToldOwn(a, told)
    <3>1. CASE m \in DOMAIN facts
      <4>1. facts \in Published[a]
        BY <1>1, <3>1 DEF ServingInv
      <4>2. EffectiveWindow(m, facts[m]) \in facts[m].tiers \cup {facts[m].default}
        BY DEF EffectiveWindow
      <4>3. facts[m].tiers \cup {facts[m].default} \subseteq PublishedWindows(a, m)
        BY <3>1, <4>1 DEF PublishedWindows
      <4>4. m \in PublishedModels(a)
        BY <3>1, <4>1 DEF PublishedModels
      <4>. QED
        BY <3>1, <4>2, <4>3, <4>4 DEF ToldOwn
    <3>2. CASE m \notin DOMAIN facts
      BY <3>2 DEF ToldOwn
    <3>. QED
      BY <3>1, <3>2
  <2>3. AskSound(n)
    <3>1. AskSound([step |-> "answered", account |-> a, key |-> k, answer |-> told,
                    had |-> FALSE])
      BY <1>1, <2>2, AskSoundOf
    <3>. QED
      BY <2>4, <3>1
  <2>. QED
    BY <1>2, <2>1, <2>3
<1>. QED
  BY <1>3, <1>4, <1>5

(* The gateway answers: a catalog is stored under the account's own key. *)
LEMMA CallStep ==
  ASSUME ServingInv, NEW r \in Askers, CallModelsAPI(r)
  PROVE  ServingInv'
<1>. PICK q : q = asker[r]
  OBVIOUS
<1>1. /\ AskSound(q) /\ q.step \in {"asking", "refreshing"}
      /\ q.account \in Subscribers /\ q.key \in KeysOf(q.account)
      /\ q.key \in AccountKeys /\ DOMAIN known = AccountKeys
      /\ UNCHANGED epoch /\ fresh' = fresh \cup {q.key}
  BY KeysApart DEF ServingInv, AskSound, CallModelsAPI
<1>2. PICK catalog \in Published[q.account] :
        /\ known' = [known EXCEPT ![q.key] = catalog]
        /\ asker' = IF q.step = "asking"
                    THEN [asker EXCEPT ![r].step = "stored", ![r].answer = catalog]
                    ELSE [asker EXCEPT ![r] = NoAsker]
  BY DEF CallModelsAPI
<1>3. catalog # NoCatalog
  BY <1>1, ServingAssumption
<1>4. /\ known'[q.key] = catalog /\ DOMAIN known' = AccountKeys
      /\ \A k \in AccountKeys \ {q.key} : known'[k] = known[k]
  BY <1>1, <1>2
<1>5. \A k \in AccountKeys : known[k] # NoCatalog => known'[k] # NoCatalog
  BY <1>3, <1>4
<1>6. \A a \in Subscribers : \A k \in KeysOf(a) : known'[k] \in Published[a] \cup {NoCatalog}
  BY <1>1, <1>4, KeysApart DEF ServingInv
<1>7. fresh' \subseteq {k \in AccountKeys : known'[k] # NoCatalog}
  BY <1>1, <1>3, <1>4, <1>5 DEF ServingInv
<1>8. \A s \in Askers : AskSound(asker[s]) /\ asker = [t \in Askers |-> asker[t]]
  BY DEF ServingInv
<1>9. ASSUME NEW s \in Askers, asker'[s] = asker[s] PROVE AskSound(asker[s])'
  <2>. PICK p : p = asker[s]
    OBVIOUS
  <2>1. p.step # "idle" => p.key \in AccountKeys
    BY <1>8, KeysApart DEF AskSound
  <2>. QED
    BY <1>5, <1>8, <1>9, <2>1 DEF AskSound
<1>10. asker' = [s \in Askers |-> asker'[s]] /\ AskSound(asker[r])'
       /\ \A s \in Askers \ {r} : asker'[s] = asker[s]
  <2>1. CASE q.step = "asking"
    <3>. PICK n : n = [q EXCEPT !.step = "stored", !.answer = catalog]
      OBVIOUS
    <3>1. asker' = [asker EXCEPT ![r] = n]
      BY <1>2, <1>8, <2>1
    <3>2. asker'[r] = n
      BY <1>8, <3>1
    <3>3. n = [step |-> "stored", account |-> q.account, key |-> q.key,
               answer |-> catalog, had |-> q.had]
      BY <1>1 DEF AskSound
    <3>. QED
      BY <1>1, <1>3, <1>4, <1>8, <3>1, <3>2, <3>3 DEF AskSound
  <2>2. CASE q.step = "refreshing"
    <3>1. asker' = [asker EXCEPT ![r] = NoAsker]
      BY <1>2, <2>2
    <3>. QED
      BY <1>8, <3>1 DEF AskSound, NoAsker
  <2>. QED
    BY <1>1, <2>1, <2>2
<1>11. \A s \in Askers : AskSound(asker[s])'
  BY <1>9, <1>10
<1>. QED
  BY <1>1, <1>4, <1>6, <1>7, <1>10, <1>11 DEF ServingInv

(* What no question is about. *)
LEMMA AsideStep ==
  ASSUME ServingInv,
         \/ \E k \in AccountKeys : Expire(k)
         \/ \E a \in Subscribers : RenewToken(a)
         \/ \E m \in ModelKeys, w \in Windows \cup {0} : ProposeOverride(m, w) \/ WriteConfig(m, w)
         \/ \E next \in proposals : CommitProposal(next)
         \/ UNCHANGED servingVars
  PROVE  ServingInv'
<1>1. UNCHANGED <<known, asker>>
  BY DEF Expire, RenewToken, ProposeOverride, WriteConfig, CommitProposal,
         ReplaceContextOverrides, servingVars
<1>2. fresh' \subseteq fresh
  BY DEF Expire, RenewToken, ProposeOverride, WriteConfig, CommitProposal,
         ReplaceContextOverrides, servingVars
<1>3. epoch' \in [Subscribers -> 0 .. MaxRenewals]
  <2>1. ASSUME NEW a \in Subscribers, RenewToken(a) PROVE epoch' \in [Subscribers -> 0 .. MaxRenewals]
    <3>1. epoch[a] + 1 \in 0 .. MaxRenewals
      BY <2>1, ServingAssumption DEF RenewToken, ServingInv
    <3>. QED
      BY <2>1, <3>1 DEF RenewToken, ServingInv
  <2>. QED
    BY <2>1 DEF ServingInv, Expire, ProposeOverride, WriteConfig, CommitProposal,
                ReplaceContextOverrides, servingVars
<1>4. \A s \in Askers : AskSound(asker[s])'
  BY <1>1 DEF ServingInv, AskSound
<1>. QED
  BY <1>1, <1>2, <1>3, <1>4 DEF ServingInv

(* Every catalog stored is of its account, and every answer of its         *)
(* account's catalogs.                                                     *)
THEOREM ServingInductive == ServingSpec => []ServingInv
<1>1. ServingInit => ServingInv
  <2>1. ServingInit => epoch \in [Subscribers -> 0 .. MaxRenewals]
    BY ServingAssumption DEF ServingInit
  <2>2. ServingInit => \A s \in Askers : AskSound(asker[s])
    BY DEF ServingInit, NoAsker, AskSound
  <2>3. \A a \in Subscribers : \A k \in KeysOf(a) : k \in AccountKeys
    BY KeysApart
  <2>. QED
    BY <2>1, <2>2, <2>3 DEF ServingInit, ServingInv
<1>2. ServingInv /\ [ServingNext]_servingVars => ServingInv'
  BY AskStep, AnswerStep, CallStep, AsideStep DEF ServingNext
<1>. QED
  BY <1>1, <1>2, PTL DEF ServingSpec

(* An account is answered its own models and windows, and not with nothing *)
(* when its catalog was known (models.go, context_override.go).            *)
THEOREM CatalogIsOwn == ServingSpec => []OwnCatalog
<1>1. ServingInv => OwnCatalog
  BY DEF ServingInv, AskSound, OwnCatalog, ToldOwn
<1>. QED
  BY <1>1, ServingInductive, PTL
-----------------------------------------------------------------------------
(* The operator's edits.                                                   *)

LEMMA IdleFacts ==
  /\ Idle \in Edits /\ Idle.step = "idle" /\ Idle.id = "none" /\ Idle.action = "none"
  /\ Idle.copy = NoOverlay /\ NoOverlay \in Overlays
  /\ NoOverlay.hide = {} /\ NoOverlay.order = {} /\ NoOverlay.add = {}
  /\ "none" \notin ModelIds
BY OverlayAssumption DEF Idle, NoOverlay, Overlays, Edits

(* An edit changes the hiding of its own model only. *)
LEMMA EditedHides ==
  ASSUME NEW o \in Overlays, NEW action \in Actions, NEW id \in ModelIds
  PROVE  /\ Edited(o, action, id) \in Overlays
         /\ \A z \in ModelIds \ {id} : z \in Edited(o, action, id).hide <=> z \in o.hide
         /\ action = "hide" => id \in Edited(o, action, id).hide
         /\ action \in {"restore", "add"} => id \notin Edited(o, action, id).hide
         /\ action = "move" => Edited(o, action, id).hide = o.hide
<1>1. CASE action = "hide"
  BY <1>1 DEF Edited, Hidden, Overlays
<1>2. CASE action = "restore"
  BY <1>2 DEF Edited, Overlays
<1>3. CASE action = "add"
  BY <1>3 DEF Edited, Overlays
<1>4. CASE action = "move"
  BY <1>4 DEF Edited, Overlays
<1>. QED
  BY <1>1, <1>2, <1>3, <1>4 DEF Actions

(* A panel loads the overlay: the edit is sure unless it meets another. *)
LEMMA LoadStep ==
  ASSUME OverlayInv, NEW p \in Panels, NEW action \in Actions, NEW id \in ModelIds,
         LoadOverlay(p, action, id)
  PROVE  OverlayInv'
<1>. PICK n : n = [step |-> "edit", action |-> action, id |-> id, copy |-> overlay]
  OBVIOUS
<1>1. /\ panel \in [Panels -> Edits] /\ panel[p] = Idle /\ overlay \in Overlays
      /\ n \in Edits /\ n.step = "edit" /\ n.action = action /\ n.id = id /\ n.copy = overlay
      /\ n # Idle
  BY IdleFacts DEF OverlayInv, OverlayTyped, LoadOverlay, Busy, Edits
<1>2. /\ panel' = [panel EXCEPT ![p] = n]
      /\ UNCHANGED <<overlay, config, wish>>
  BY DEF LoadOverlay
<1>3. /\ panel' \in [Panels -> Edits] /\ panel'[p] = n
      /\ \A q \in Panels \ {p} : panel'[q] = panel[q]
  BY <1>1, <1>2
<1>4. /\ unsure' \in SUBSET ModelIds /\ crossed' \in SUBSET ModelIds
      /\ \A z \in ModelIds :
           (z # id \/ action \notin Lasting) => (z \in unsure => z \in unsure')
                                               /\ (z \in crossed => z \in crossed')
      /\ (\E q \in Panels : Busy(q)) => id \in unsure' /\ unsure \subseteq unsure'
                                        /\ \A q \in Panels : panel[q].id \in ModelIds =>
                                                               panel[q].id \in unsure'
  BY DEF LoadOverlay, InFlight, OverlayInv, OverlayTyped
<1>5. OverlayTyped'
  BY <1>1, <1>2, <1>3, <1>4, IdleFacts DEF OverlayInv, OverlayTyped
<1>6. Apart'
  <2>. SUFFICES ASSUME NEW q \in Panels, NEW s \in Panels, q # s, Busy(q)', Busy(s)'
                PROVE  panel'[q].id \in unsure' \cup {"none"}
    BY DEF Apart
  <2>1. \E t \in Panels : Busy(t)
    BY <1>3 DEF Busy
  <2>2. CASE q = p
    BY <1>1, <1>3, <1>4, <2>1, <2>2
  <2>3. CASE q # p
    <3>1. panel'[q].id = panel[q].id /\ panel[q].id \in ModelIds \cup {"none"}
      BY <1>1, <1>3, <2>3 DEF Edits
    <3>. QED
      BY <1>4, <2>1, <3>1
  <2>. QED
    BY <2>2, <2>3
<1>7. ASSUME NEW z \in ModelIds, Sure(z)'
      PROVE  OverlayTells(z)' /\ ConfigTells(z)' /\ CopiesTell(z)'
  <2>1. CASE z = id /\ action \in Lasting
    <3>1. \A q \in Panels \ {p} : ~Busy(q)
      BY <1>4, <1>7, <2>1 DEF Sure
    <3>2. \A q \in Panels \ {p} : panel'[q].step = "idle"
      BY <1>3, <3>1, IdleFacts DEF Busy
    <3>3. Lasts(p, z)'
      BY <1>1, <1>3, <2>1 DEF Lasts
    <3>. QED
      BY <1>1, <1>3, <3>2, <3>3 DEF OverlayTells, ConfigTells, CopiesTell
  <2>2. CASE z # id \/ action \notin Lasting
    <3>1. Sure(z)
      BY <1>4, <1>7, <2>2 DEF Sure
    <3>2. OverlayTells(z) /\ ConfigTells(z) /\ CopiesTell(z)
      BY <3>1 DEF OverlayInv
    <3>3. ~Lasts(p, z)' /\ \A q \in Panels \ {p} : Lasts(q, z)' = Lasts(q, z)
      BY <1>1, <1>3, <2>2 DEF Lasts
    <3>4. \A q \in Panels : ~Busy(q) \/ panel[q].id # z
      BY <1>4, <1>7 DEF Sure
    <3>5. Wished(z, overlay.hide)
      BY <3>2, <3>4, IdleFacts DEF OverlayTells, Lasts, Busy
    <3>6. ConfigTells(z)'
      BY <1>2, <1>3, <3>2, <3>3, <1>1, IdleFacts DEF ConfigTells, Wished
    <3>7. CopiesTell(z)'
      BY <1>1, <1>2, <1>3, <3>2, <3>3, <3>5 DEF CopiesTell, Wished
    <3>. QED
      BY <1>2, <3>5, <3>6, <3>7 DEF OverlayTells, Wished
  <2>. QED
    BY <2>1, <2>2
<1>. QED
  BY <1>5, <1>6, <1>7 DEF OverlayInv

(* The edit is stored, whole. *)
LEMMA StoreOverlayStep ==
  ASSUME OverlayInv, NEW p \in Panels, StoreOverlay(p)
  PROVE  OverlayInv'
<1>. PICK old : old = panel[p]
  OBVIOUS
<1>. PICK next : next = Edited(old.copy, old.action, old.id)
  OBVIOUS
<1>. PICK n : n = IF old.action \in Lasting THEN [old EXCEPT !.step = "patch", !.copy = next]
                  ELSE Idle
  OBVIOUS
<1>1. /\ panel \in [Panels -> Edits] /\ old \in Edits /\ old.step = "edit"
      /\ old.id \in ModelIds /\ old.action \in Actions /\ old.copy \in Overlays /\ old # Idle
  BY IdleFacts DEF OverlayInv, OverlayTyped, StoreOverlay, Edits
<1>2. /\ panel' = [panel EXCEPT ![p] = n]
      /\ overlay' = next
      /\ UNCHANGED <<config, crossed>>
  BY DEF StoreOverlay
<1>3. /\ wish' = IF old.action = "hide" THEN wish \cup {old.id}
                 ELSE IF old.action = "restore" THEN wish \ {old.id} ELSE wish
      /\ unsure' = IF old.action = "add" /\ old.id \in old.copy.hide
                   THEN unsure \cup {old.id} ELSE unsure
  BY DEF StoreOverlay
<1>4. /\ next \in Overlays
      /\ \A z \in ModelIds \ {old.id} : z \in next.hide <=> z \in old.copy.hide
      /\ old.action = "hide" => old.id \in next.hide
      /\ old.action \in {"restore", "add"} => old.id \notin next.hide
      /\ old.action = "move" => next.hide = old.copy.hide
  BY <1>1, EditedHides
<1>5. /\ n \in Edits
      /\ old.action \in Lasting => /\ n.step = "patch" /\ n.copy = next
                                   /\ n.id = old.id /\ n.action = old.action /\ n # Idle
      /\ old.action \notin Lasting => n = Idle
  BY <1>1, <1>4, IdleFacts DEF Edits
<1>6. /\ panel' \in [Panels -> Edits] /\ panel'[p] = n
      /\ \A q \in Panels \ {p} : panel'[q] = panel[q]
  BY <1>1, <1>2, <1>5
<1>7. OverlayTyped'
  BY <1>1, <1>2, <1>3, <1>4, <1>5, <1>6, IdleFacts DEF OverlayInv, OverlayTyped
<1>8. Apart'
  <2>1. unsure \subseteq unsure'
    BY <1>3
  <2>2. \A q \in Panels : Busy(q)' => Busy(q) /\ panel'[q].id = panel[q].id
    BY <1>1, <1>5, <1>6 DEF Busy
  <2>. QED
    BY <2>1, <2>2 DEF Apart, OverlayInv
<1>9. ASSUME NEW z \in ModelIds, Sure(z)'
      PROVE  OverlayTells(z)' /\ ConfigTells(z)' /\ CopiesTell(z)'
  <2>1. Sure(z)
    BY <1>2, <1>3, <1>9 DEF Sure
  <2>2. OverlayTells(z) /\ ConfigTells(z) /\ CopiesTell(z)
    BY <2>1 DEF OverlayInv
  <2>3. CASE z = old.id /\ old.action \in Lasting
    <3>1. \A q \in Panels \ {p} : ~Busy(q)
      BY <1>1, <2>1, <2>3, IdleFacts DEF OverlayInv, Apart, Sure, Busy
    <3>2. \A q \in Panels \ {p} : panel'[q].step = "idle"
      BY <1>6, <3>1, IdleFacts DEF Busy
    <3>3. Lasts(p, z)' /\ panel'[p].step = "patch" /\ panel'[p].copy = next
      BY <1>5, <1>6, <2>3 DEF Lasts
    <3>4. z \in next.hide <=> z \in wish'
      BY <1>3, <1>4, <2>3 DEF Lasting
    <3>. QED
      BY <1>2, <3>2, <3>3, <3>4 DEF OverlayTells, ConfigTells, CopiesTell, Wished
  <2>4. CASE z # old.id \/ old.action \notin Lasting
    <3>1. (z \in wish' <=> z \in wish)
      BY <1>3, <2>4 DEF Lasting
    <3>2. z \in old.copy.hide <=> z \in wish
      BY <1>1, <2>2, <2>4 DEF CopiesTell, Lasts, Wished
    <3>3. z \in next.hide <=> z \in wish
      <4>1. CASE z # old.id
        BY <1>4, <3>2, <4>1
      <4>2. CASE z = old.id /\ old.action = "add"
        BY <1>3, <1>4, <1>9, <3>2, <4>2 DEF Sure
      <4>3. CASE z = old.id /\ old.action = "move"
        BY <1>4, <3>2, <4>3
      <4>. QED
        BY <1>1, <2>4, <4>1, <4>2, <4>3 DEF Actions, Lasting
    <3>4. ~Lasts(p, z) /\ ~Lasts(p, z)' /\ \A q \in Panels \ {p} : Lasts(q, z)' = Lasts(q, z)
      BY <1>5, <1>6, <2>4, IdleFacts DEF Lasts, Lasting
    <3>5. ConfigTells(z)'
      BY <1>2, <1>6, <2>2, <3>1, <3>4 DEF ConfigTells, Wished
    <3>6. CopiesTell(z)'
      <4>. SUFFICES ASSUME NEW q \in Panels,
                           (panel[q].step = "patch" \/ (panel[q].step = "edit" /\ ~Lasts(q, z)))'
                    PROVE  Wished(z, panel[q].copy.hide)'
        BY DEF CopiesTell
      <4>1. CASE q = p
        BY <1>5, <1>6, <3>1, <3>3, <4>1, IdleFacts DEF Wished
      <4>2. CASE q # p
        BY <1>6, <2>2, <3>1, <3>4, <4>2 DEF CopiesTell, Wished
      <4>. QED
        BY <4>1, <4>2
    <3>. QED
      BY <1>2, <3>1, <3>3, <3>5, <3>6 DEF OverlayTells, Wished
  <2>. QED
    BY <2>3, <2>4
<1>. QED
  BY <1>7, <1>8, <1>9 DEF OverlayInv

(* An order is stored: what was hidden is not sure any more. *)
LEMMA SaveOrderStep ==
  ASSUME OverlayInv, NEW p \in Panels, SaveOrder(p)
  PROVE  OverlayInv'
<1>. PICK ordered : ordered = [NoOverlay EXCEPT !.order = Listed(overlay)]
  OBVIOUS
<1>. PICK n : n = [Idle EXCEPT !.step = "patchOrder", !.copy = ordered]
  OBVIOUS
<1>1. /\ panel \in [Panels -> Edits] /\ panel[p] = Idle /\ overlay \in Overlays
      /\ panel' = [panel EXCEPT ![p] = n]
      /\ overlay' \in {ordered, overlay}
      /\ UNCHANGED <<config, wish>>
      /\ crossed' = crossed \cup overlay.hide \cup wish
      /\ unsure' = unsure \cup InFlight
      /\ wish \in SUBSET ModelIds
  BY DEF OverlayInv, OverlayTyped, SaveOrder, Busy
<1>2. ordered \in Overlays /\ ordered.hide = {}
  <2>1. Listed(overlay) \subseteq ModelIds
    BY <1>1, OverlayAssumption DEF Listed, Overlays
  <2>. QED
    BY <2>1 DEF NoOverlay, Overlays
<1>3. n \in Edits /\ n.step = "patchOrder" /\ n.id = "none" /\ n # Idle
  BY <1>2 DEF Idle, Edits
<1>4. /\ panel' \in [Panels -> Edits] /\ panel'[p] = n
      /\ \A q \in Panels \ {p} : panel'[q] = panel[q]
  BY <1>1, <1>3
<1>5. OverlayTyped'
  <2>1. unsure' \in SUBSET ModelIds /\ crossed' \in SUBSET ModelIds
    BY <1>1 DEF OverlayInv, OverlayTyped, InFlight, Overlays
  <2>. QED
    BY <1>1, <1>2, <1>3, <1>4, <2>1 DEF OverlayInv, OverlayTyped
<1>6. Apart'
  BY <1>1, <1>3, <1>4 DEF Apart, InFlight, Edits
<1>7. ASSUME NEW z \in ModelIds, Sure(z)'
      PROVE  OverlayTells(z)' /\ ConfigTells(z)' /\ CopiesTell(z)'
  <2>1. Sure(z) /\ z \notin overlay.hide /\ z \notin wish
    BY <1>1, <1>7 DEF Sure
  <2>2. OverlayTells(z) /\ ConfigTells(z) /\ CopiesTell(z)
    BY <2>1 DEF OverlayInv
  <2>3. \A q \in Panels \ {p} : Lasts(q, z)' = Lasts(q, z)
    BY <1>4 DEF Lasts
  <2>4. OverlayTells(z)'
    BY <1>1, <1>2, <2>1 DEF OverlayTells, Wished
  <2>5. ConfigTells(z)'
    BY <1>1, <1>4, <2>2, <2>3, IdleFacts DEF ConfigTells, Wished
  <2>6. CopiesTell(z)'
    BY <1>1, <1>3, <1>4, <2>2, <2>3 DEF CopiesTell, Wished
  <2>. QED
    BY <2>4, <2>5, <2>6
<1>. QED
  BY <1>5, <1>6, <1>7 DEF OverlayInv

(* The host's PATCH, or its failure. *)
LEMMA PatchStep ==
  ASSUME OverlayInv, NEW p \in Panels, PatchConfig(p) \/ PatchFails(p)
  PROVE  OverlayInv'
<1>. PICK old : old = panel[p]
  OBVIOUS
<1>1. /\ panel \in [Panels -> Edits] /\ old \in Edits /\ old.step \in {"patch", "patchOrder"}
      /\ panel' = [panel EXCEPT ![p] = Idle]
      /\ UNCHANGED <<overlay, wish, crossed>>
      /\ unsure \subseteq unsure' /\ unsure' \in SUBSET ModelIds
  BY DEF OverlayInv, OverlayTyped, PatchConfig, PatchFails
<1>2. \/ /\ old.step = "patch" /\ config'.hidden = old.copy.hide
         /\ config' \in [hidden : SUBSET ModelIds, ordered : BOOLEAN, order : SUBSET ModelIds]
      \/ /\ old.step = "patchOrder" /\ config'.hidden = config.hidden
         /\ config' \in [hidden : SUBSET ModelIds, ordered : BOOLEAN, order : SUBSET ModelIds]
      \/ UNCHANGED config /\ unsure' = unsure \cup ({old.id} \cap ModelIds)
  BY <1>1 DEF OverlayInv, OverlayTyped, PatchConfig, PatchFails, Edits, Overlays
<1>3. /\ panel' \in [Panels -> Edits] /\ panel'[p] = Idle
      /\ \A q \in Panels \ {p} : panel'[q] = panel[q]
  BY <1>1, IdleFacts
<1>4. OverlayTyped'
  <2>1. config' \in [hidden : SUBSET ModelIds, ordered : BOOLEAN, order : SUBSET ModelIds]
    BY <1>2 DEF OverlayInv, OverlayTyped
  <2>. QED
    BY <1>1, <1>3, <2>1, IdleFacts DEF OverlayInv, OverlayTyped
<1>5. Apart'
  BY <1>1, <1>3 DEF OverlayInv, Apart, Busy
<1>6. ASSUME NEW z \in ModelIds, Sure(z)'
      PROVE  OverlayTells(z)' /\ ConfigTells(z)' /\ CopiesTell(z)'
  <2>1. Sure(z)
    BY <1>1, <1>6 DEF Sure
  <2>2. OverlayTells(z) /\ ConfigTells(z) /\ CopiesTell(z)
    BY <2>1 DEF OverlayInv
  <2>3. \A q \in Panels \ {p} : Lasts(q, z)' = Lasts(q, z)
    BY <1>3 DEF Lasts
  <2>4. OverlayTells(z)'
    BY <1>1, <1>3, <2>2, <2>3 DEF OverlayTells, Wished
  <2>5. ConfigTells(z)'
    <3>1. CASE old.step = "patch" /\ config'.hidden = old.copy.hide
      BY <1>1, <2>2, <3>1 DEF ConfigTells, CopiesTell, Wished
    <3>2. CASE old.step = "patchOrder" /\ config'.hidden = config.hidden
      BY <1>1, <1>3, <2>2, <2>3, <3>2 DEF ConfigTells, Wished
    <3>3. CASE UNCHANGED config /\ unsure' = unsure \cup ({old.id} \cap ModelIds)
      <4>1. ~Lasts(p, z)
        BY <1>6, <3>3 DEF Sure, Lasts
      <4>. QED
        BY <1>1, <1>3, <2>2, <2>3, <3>3, <4>1 DEF ConfigTells, Wished
    <3>. QED
      BY <1>2, <3>1, <3>2, <3>3
  <2>6. CopiesTell(z)'
    BY <1>1, <1>3, <2>2, <2>3, IdleFacts DEF CopiesTell, Wished
  <2>. QED
    BY <2>4, <2>5, <2>6
<1>. QED
  BY <1>4, <1>5, <1>6 DEF OverlayInv

(* The config is handed over, to this process or to the next. *)
LEMMA HandedOver ==
  ASSUME OverlayInv, Configure \/ Restart
  PROVE  OverlayInv'
<1>1. /\ UNCHANGED <<config, wish, crossed>>
      /\ unsure' = unsure \cup InFlight
      /\ panel \in [Panels -> Edits] /\ panel' \in [Panels -> Edits]
      /\ \A q \in Panels : panel'[q] \in {panel[q], Idle}
  BY IdleFacts DEF Configure, Restart, OverlayInv, OverlayTyped
<1>2. overlay' \in Overlays /\ overlay'.hide = config.hidden
  <2>1. overlay \in Overlays /\ NoOverlay \in Overlays
        /\ config \in [hidden : SUBSET ModelIds, ordered : BOOLEAN, order : SUBSET ModelIds]
    BY IdleFacts DEF OverlayInv, OverlayTyped
  <2>2. ASSUME NEW o \in Overlays PROVE Synced(o) \in Overlays /\ Synced(o).hide = config.hidden
    BY <2>1 DEF Synced, Overlays
  <2>. QED
    BY <2>1, <2>2 DEF Configure, Restart
<1>3. OverlayTyped'
  BY <1>1, <1>2, IdleFacts DEF OverlayInv, OverlayTyped, InFlight
<1>4. Apart'
  <2>1. \A q \in Panels : Busy(q)' => Busy(q) /\ panel'[q].id = panel[q].id
    BY <1>1 DEF Busy
  <2>. QED
    BY <1>1, <2>1 DEF OverlayInv, Apart
<1>5. ASSUME NEW z \in ModelIds, Sure(z)'
      PROVE  OverlayTells(z)' /\ ConfigTells(z)' /\ CopiesTell(z)'
  <2>1. Sure(z)
    BY <1>1, <1>5 DEF Sure
  <2>2. ConfigTells(z) /\ CopiesTell(z)
    BY <2>1 DEF OverlayInv
  <2>3. \A q \in Panels : ~Lasts(q, z)
    BY <1>1, <1>5 DEF Sure, InFlight, Lasts
  <2>4. Wished(z, config.hidden)
    BY <2>2, <2>3 DEF ConfigTells
  <2>5. CopiesTell(z)'
    <3>. SUFFICES ASSUME NEW q \in Panels,
                         (panel[q].step = "patch" \/ (panel[q].step = "edit" /\ ~Lasts(q, z)))'
                  PROVE  Wished(z, panel[q].copy.hide)'
      BY DEF CopiesTell
    <3>1. panel'[q] = panel[q]
      BY <1>1, IdleFacts
    <3>. QED
      BY <1>1, <2>2, <2>3, <3>1 DEF CopiesTell, Wished
  <2>. QED
    BY <1>1, <1>2, <2>4, <2>5 DEF OverlayTells, ConfigTells, Wished
<1>. QED
  BY <1>3, <1>4, <1>5 DEF OverlayInv

(* The overlay, the config and the panels' copies agree on every model     *)
(* whose last edit met no other and no configure.                          *)
THEOREM OverlayInductive == OverlaySpec => []OverlayInv
<1>1. OverlayInit => OverlayInv
  BY IdleFacts DEF OverlayInit, OverlayInv, OverlayTyped, Apart, Busy, OverlayTells, ConfigTells,
                   CopiesTell, Wished
<1>2. OverlayInv /\ [OverlayNext]_overlayVars => OverlayInv'
  <2>1. ASSUME OverlayInv, OverlayNext PROVE OverlayInv'
    BY <2>1, LoadStep, StoreOverlayStep, SaveOrderStep, PatchStep, HandedOver DEF OverlayNext
  <2>2. ASSUME OverlayInv, UNCHANGED overlayVars PROVE OverlayInv'
    BY <2>2 DEF overlayVars, OverlayInv, OverlayTyped, Apart, Busy, Sure, Lasts, OverlayTells,
                ConfigTells, CopiesTell, Wished
  <2>. QED
    BY <2>1, <2>2
<1>. QED
  BY <1>1, <1>2, PTL DEF OverlaySpec

(* An edit that was patched alone lasts, through edits of other models,    *)
(* configures and restarts (handleModelOverlayAction, syncOverlayHiddenModels). *)
THEOREM EditsStay == OverlaySpec => []EditsKept
<1>1. ASSUME OverlayInv PROVE EditsKept
  <2>. SUFFICES ASSUME Quiet, NEW id \in ModelIds \ (unsure \cup crossed)
                PROVE  Kept(id)
    BY DEF EditsKept
  <2>1. OverlayTells(id) /\ ConfigTells(id)
    BY <1>1 DEF OverlayInv, Sure
  <2>2. \A p \in Panels : panel[p].step = "idle"
    BY IdleFacts DEF Quiet, Busy
  <2>. QED
    BY <2>1, <2>2 DEF OverlayTells, ConfigTells, Kept, Wished
<1>. QED
  BY <1>1, OverlayInductive, PTL
=============================================================================
