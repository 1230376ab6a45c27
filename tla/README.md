# A TLA+ model of the qoder plugin

The plugin (`src/plugins/qoder`, Go) connects a host that proxies chat requests
to the upstream gateway *Qoder*. For every account it keeps a credential file,
routes requests, remembers what is exhausted, checks in for the daily credits,
logs accounts in, and keeps their model catalogs. It is one process with many
goroutines: each RPC of the host, each request of the panel, a loop with a
ticker, and whatever they start. Upstream, the disk and the host may fail at
any call.

This directory models the parts whose correctness is a matter of order: what
several goroutines do to one table, file, cache or stream, and what is left of
it after a failure or a restart. All paths below are relative to
`src/plugins/qoder` unless they begin with `docs/`.

1. [Components](#1-components)
2. [Modules](#2-modules)
3. [How the code became a model](#3-how-the-code-became-a-model)
4. [What is checked](#4-what-is-checked)
5. [Fairness and deadlock](#5-fairness-and-deadlock)
6. [What is proved](#6-what-is-proved)
7. [Disagreements met while modelling](#7-disagreements-met-while-modelling)
8. [What is not modelled](#8-what-is-not-modelled)
9. [Plan](#9-plan)

## 1. Components

For each: its state; its operations; whom it talks to; what is hard; what makes
it correct.

**Cooldown table** (`cooldown.go`, `quota_observation.go`, `daily_quota.go`).
A map from (account, model) to a reason and an end, under `cooldownMu`; the
empty model stands for the account. Marked by failing requests, recorded from
quota refusals, re-dated by upstream's hints, swept and cleared by the panel,
lifted by a positive balance, read (and pruned) by the dispatch guard and the
model listing. Every caller reads the clock before it takes the mutex, and the
table has a cap. Correct when: bounded; a late or weaker failure never shortens
or replaces a freeze; a freeze ends early only for a stated reason; one model's
failure never freezes its siblings.

**Executor requests and the gate** (`main.go`, `stream.go`, `concurrency.go`).
Per request: attempt, what was emitted, the slot it owes. Per credential: a
semaphore of 8. Three paths (a synchronous answer, a stream collected in place,
a stream pumped by a goroutine) each code guard, wait, guard, attempts with
backoff, recording and release by themselves. They share the cooldown table.
Hard: the guard is read before a wait of up to 30 seconds or a backoff; the slot
changes hands between goroutines. Correct when: slots are neither leaked nor
returned twice; nothing goes upstream past a freeze; no freeze is invented; a
client never sees two attempts; every request is answered.

**Refusal policy** (`policy.go`, `queue_error.go`, `daily_quota.go`,
`quota_observation.go`, parts of `stream.go` and `lifecycle.go`). Stateless. The
same refusal arrives as an HTTP status or inside a stream of status 200, on
three paths; some classify the body, some the text it was rendered to. Correct
when all agree on what is retried, recorded, told and reconciled.

**Stream integrity** (`stream_integrity.go`, `stream.go`). Per attempt, a
builder of every choice: its tool fragments and finish. Text is forwarded at
once, calls and finish reasons are held until the stream has ended well.
Correct when the client gets whole calls or none, and all of a finished answer.

**Daily check-in** (`checkin.go`, `campaign.go`, `usage_config.go`,
`credits_handler.go`). The table of runs (512 records: state, confirmation, open
claim, retry count and date), a lock per account, the loop's next hour, a switch.
Manual, automatic and retry runs claim a campaign or, where upstream has no
campaigns, a daily sign-in. The grant may succeed and its answer be lost, the
listing may lag. Correct when: an open claim is verified and never repeated
blindly; no eviction forgets it; retries are bounded per day, cancelled when
told, and otherwise run; parked accounts are left alone.

**Credential files** (`authfile.go`, `lifecycle.go`, `keepalive.go`, `adopt.go`,
`management.go`, `host_auth.go`, `model_catalog_single.go`, `oauth.go`). One JSON
document per account, read through the host and written back whole by nine
operations: the panel's switch, rename, delete and login, the dashboard's notes,
the lifecycle's reconciliation, the nightly token refresh, the adoption of
legacy files, the re-registration of catalogs. Four of them hold the account's
lock from read to write. A file with the name of older versions is moved to the
account's own by the first write of the lifecycle: saved there, then removed here;
meanwhile the account has two indexes and two locks. Correct when: what the
operator parked stays parked, what was deleted stays deleted, a rotated token is
never put back, and a move loses none of it.

**Account cache** (`cache.go`, `panel.go`, `credits_handler.go`, `lifecycle.go`).
A `sync.Map` of snapshots merged by compare-and-swap, and the flights that share
a fetch. Answers asked for at different times merge in any order, beside
evictions and chats that drop the balance. Correct when older answers do not
undo a check-in, its balance or a refusal.

**Pending logins** (`oauth.go`, `oauth_pending.go`, `oauth_pending_store_unix.go`).
Login contexts in memory and on disk, polled by host and panel. A grant can be
exchanged once. Correct when: the token is checkpointed before anything else and
never asked for again; one of host and panel saves; checkpoints stand; the cap
holds in memory and on disk.

**Model catalog store** (`model_store.go`, `models.go`). One document and one
backup per account, and an entry in memory. Correct when a crash or a broken
file loses no catalog, later schemas survive, and a live answer is not replaced
by an older one.

**Model serving and context windows** (`models.go`, `context_override.go`,
`body.go`). The catalogs last discovered, by account key, which of them are
fresh, and one override of the window per model for all accounts. Asked by the
host and by chats, discovered by several goroutines, overridden by panel and
config. Hard: the override is validated against the catalogs of one moment and
used against those of another, of accounts whose gateways publish different
windows for one name. Correct when an account is told of no model and no window
that its own gateway did not publish, and is not told of nothing while its
catalog is known.

**Model overlay and order** (`model_config.go`, `usage_config.go`, the panel). The
operator's hidden, added and ordered models, in memory; what lasts is the host's
config, which the panel patches in a request of its own after each edit and the
host hands over at the next configure. Hard: two requests per edit, any of which
may fail, between other edits, configures and restarts. Correct when an edit
that was patched undisturbed lasts, and edits of one thing leave the others.

**Calls upstream** (`proxy.go`, `host_bridge.go`, `billing_cookie.go`,
`cosy_session.go`). Shared by every call of every goroutine: the route; per
account a jar of cookies and a one-shot handshake that fills it; per account the
session that inference requests are signed with, built for one token. Hard: calls
with the old token and with the new, refreshes, and accounts of one uid overlap;
the setting changes under a call. Correct when nothing goes out under another's
identity, and nothing goes out twice.

**Others**: region facts, the layout of requests, usage reports, the panel's
views. Section 8 says why they are not modelled.

How they meet: an executor request reads and writes the cooldown table, drops
the balance in the account cache and, on a refusal, may start the reconciliation
of the credential file. It leaves with the session and by the route of the calls
upstream; check-ins and fetches of the balance leave with the jar's cookies.
What the host is told of models comes from the catalog store's entry in memory,
through serving, the overlay and the cooldown table. The loop starts check-ins,
whose answers go to the account cache, and the token refresh, which writes the
credential file. The account's lock (`checkinLockFor`) is shared by check-ins
and the locked file operations: that is why a check-in may trust the file it
read.

## 2. Modules

| Module | Models | State |
|---|---|---|
| `CooldownTable` | every function that takes `cooldownMu`, as an operator from the table and a clock reading to the table left behind | none |
| `Cooldown` | the table as a shared object: those operators called in any order against a moving clock | `cooldownTable`, `now`, `billingRead` (a balance read in flight) |
| `UpstreamGate` | abstract: at most `Cap` requests of a credential are inside, each enters and leaves once | `holders`, `left` |
| `Executor` | requests on three paths over the table and the semaphore | the table, `slots`, `req` (one record per request, its `pc` naming the code it is about to run) |
| `RefusalPolicy` | the classifiers and the decisions of the three paths, as operators, and the life of one refusal | the refusal, its path and carrier, the attempt, the outcome |
| `StreamIntegrity` | the builder, the end of the stream, the pump's retries | the builder's choices, what the client holds, what upstream said |
| `Checkin` | the run table, the runs, the loop, the switches | `records`, `lock`, `run`, `loop`, the switch; what upstream granted |
| `AuthDocument` | abstract: the file, each locked operation one step on it | `doc` |
| `AuthFile` | the nine writers, each a goroutine that reads, waits, decides and saves | `doc`, `lock`, `work`, `remembered` |
| `AuthNames` | the names of a file: its move, beside the writers of either name | `dir`, `indexLock`, `job` |
| `AccountCache` | snapshots, their merge, flights, the card, chats, dashboards | `cache`, `flight`, `task`, `checkins` |
| `OAuthPending` | contexts, records, polls, janitor, restarts | `mem`, `disk`, `holder`, `poll`, `sweep` |
| `CatalogStore` | discovery, the renames of a save, backups, seeding | `mem`, `primary`, `bak`, `job`, `seed` |
| `ModelServing` | what an account is told it serves and the window a chat asks for, while catalogs are discovered and go stale and overrides are proposed and committed | `known`, `fresh`, `epoch`, `override`, `proposals`, `asker` |
| `ModelOverlay` | the panel's edits of the catalog, their PATCH, configures and restarts | `overlay`, `config`, `unloaded`, `panel` |
| `UpstreamCalls` | the route, the cookie jars, the session cache, and the calls that share them | `account`, `route`, `token`, `refreshed`, `jar`, `session`, `call` |

`MC*` modules hold what TLC needs: symmetry sets, the files a start may find,
the list of retry delays, the catalogs a gateway may answer. `MCUpstream` puts
`Cooldown`, `RefusalPolicy` and `UpstreamCalls` side by side, `MCModelCatalog`
`CatalogStore`, `ModelServing` and `ModelOverlay`, `MCAccount` `AuthFile`,
`AuthNames` and `AccountCache`. `*Proofs` modules hold theorems,
those of `AccountProofs`, `CatalogProofs` and `UpstreamProofs` about the parts that
these put together. `Executor` composes
`CooldownTable` with the gate, and is shown to implement both `Cooldown`
(`CooldownSpec`) and `UpstreamGate` (`GateSpec`); `AuthFile` with only the locked
writers is shown to implement `AuthDocument` (`DocSpec`).

`map` in `PROJECT.json` gives the lines each definition stands for.

## 3. How the code became a model

*Atomicity.* A critical section, a compare-and-swap loop that retries until it
wins, and an atomic rename are one step. Between two of them anything may
happen. Every host call, upstream call and lock is a step boundary, so what a
goroutine read before is a field of its record and may be stale.

*Clock.* `now` is a natural number moved by `Tick`. In `Cooldown` an operation
may use a reading up to `MaxSkew` old, as the code reads the clock before it
locks. In `AccountCache` and `CatalogStore` each reading is an instant of its
own, since the code compares them.

*Data.* A document keeps the fields that decide something: for a credential file
whether it exists, its type, the disabled flag, its reason, the credit segment
of its note and the version of its token. A response body is the set of markers
that classifiers look for. A tool call is a count of fragments, of which a
complete call has `PartsOfCall`. Text is a count of pieces.

*Upstream, disk and host* answer anything the code distinguishes: an
acknowledgement, a conflict, a refusal, a lost answer whose effect took place, a
listing that lags; a write that fails before or after the rename; a record
damaged by someone else.

*History variables* exist only for properties; no guard of the plugin's steps
reads them: `doubt`, `charged` and `stopped` in `Checkin`, `parked`, `deleted`
and `stored` in `AuthFile`, `setTo`, `newest`, `gone` and `disturbed` in
`AuthNames`, `receipt`, `rejected`, `claimed` and `balance` in `AccountCache`,
`got` and `answered` in `OAuthPending`, `saved`, `backed` and `overlap` in
`CatalogStore`, `said` in `StreamIntegrity`, `handshakes` and each call's `sent`
in `UpstreamCalls`, `wish`, `unsure` and `crossed` in `ModelOverlay`, `had` of
an asker in `ModelServing`. Upstream's own state is modelled where its answers
depend on it: `granted` in `Checkin`, `issued` in `AuthFile`, `spent` in
`OAuthPending`; `file` there is the saved credential.

*Operators used by mutants only.* A definition that says what a plausible bug
would do (`BootstrapUnmarked`, `BackoffForever`, `LegacyByNote`, ...) precedes
the one it could replace. No specification uses it; it documents which slip each
property would catch.

## 4. What is checked

Twelve runs, two of which expect a violation. Bounds are the constants of each
`.cfg`.

| Run | Shows | Bounds, and why they are enough |
|---|---|---|
| `Upstream` | `NoDowngrade`, `OnlyRecoveryLifts`; `RenderingLosesNothing`, `BusinessBlamesNoKey`, `ForbiddenToldApart`; `OwnIdentity`, `SentOnce` | *Table*: 1 account with 2 models: three keys and room for two, so eviction happens and must choose among freezes. Readings lag by a tick, hints end before and after the plugin's own TTL. *Policy*: every body of up to 2 of 10 markers, 4 codes, statuses 0, 401, 402, 403, 429, 500, all paths and both carriers; every comparison the code makes between wordings is between two of them. *Calls*: 2 files of one account or of two, of either region, with a uid or without; 3 calls by 2 goroutines, a refresh and a change of the setting: a call with the old token meets one with the new, and a third finds what they left. |
| `Executor` | `ClearedBeforeFreeze`, `OneAttemptSeen`, `FreezeNeedsEvidence`, `CooldownSpec` | 2 requests of one credential with `Cap` 2: with room for one only, no freeze could be recorded while another request is inside, and the guard before each attempt would never refuse. All paths, 2 attempts, one tick, manual clears and balance reads beside them. |
| `ExecutorGate` | `SlotsConserved`, `GateSpec`, `EveryRequestEnds` | 2 requests for 1 slot, 3 attempts, no clock: waiting, timing out, freezes found after the wait. |
| `Checkin` | `NoBlindRepeat`, `ParkedLeftAlone`, `RetryBudget`, `CancelledStaysCancelled` | 1 account, the loop and a manual caller, days of 4 instants with one check-in hour, one retry a day, times 0 to 4: an automatic run, its retry, and the next day's first instant. The configured switch, the operator and restarts. |
| `CheckinLoop` | `DoubtRemembered`, `RetryComes` | 2 accounts and room for one record, so every reservation evicts or is refused; the legacy contract; the panel's toggle. |
| `AuthSerial` | `TokensKept` | All nine operations and the host's own flag, one goroutine, so that no write is stale, from six kinds of file; 3 token pairs. |
| `Account` | `ParkedStaysParked`, `DocSpec`; `AlwaysAFile`, `LastWordMoves`; `OneFetch`, `ReceiptKept`, `BalanceAfterCheckin` | *File*: 2 goroutines with the four operations that take the lock, from a file in rotation or one an older version disabled; a goroutine begins again when it is done, so one may wait for the lock with a stale read while any number of operations pass (and the theorems are for any number of goroutines). *Names*: 2 goroutines, 4 operations of the six that matter to a name, the file found under each of three names, one failing save, failing removal or crash: the stale half of a move needs a move, a second one and a switch. *Cache*: 2 accounts over a cap of 1, so that every merge may evict; 2 callers, a card, a chat; 4 instants with a day's end among them and a grace of 2. |
| `AuthMigration` | expects `LegacyRemoved` to be violated | One goroutine, notes only, nothing fails. Section 7. |
| `OAuth` | `AskedOnce`, `OneWriter`, `Bounded`, `CheckpointStands`, `NewerKept` | 2 logins over a store of 1, 2 polls from either entry, one restart, times 0 to 3 with lifetimes of 1: a login can expire before and after its result. |
| `Catalog` | `Recoverable`, `FutureKept`, `LiveWins`; `OwnCatalog`; `EditsKept` | *Store*: 2 discoverers, 3 discoveries, one restart, one broken file, a newer build, both platforms (chosen in `Init`). *Serving*: an account of each region, one without a uid, each with two catalogs it may publish (a model gone, a window gained, a default missing), 3 discoveries, 2 goroutines, a token refresh and an override, by the panel or by hand. *Overlay*: 2 browsers, an upstream model and an added one, 4 edits, one failure and one restart or spare configure. |
| `Stream` | `ToolsWhole`, `NothingLost` | 2 choices with a call of 2 fragments, 2 ids, 3 frames an attempt, 2 attempts: a whole call needs two frames and one more can spoil it. |
| `ModelOrder` | expects `OrderSparesHidden` to be violated | One browser, 3 edits, no failure: hiding a model, then saving an order, is enough. Section 7. |

`Upstream`, `Account` and `Catalog` check three parts each. The parts have no
variable in common: `part`, chosen at the start, names the one that moves, and
the others stay where they began. A property of one part is therefore checked on
every behaviour of that part, and in the behaviours of the others only on its
initial state; the run's states are the sum of the parts' and not their product.

What the properties say, in words:

- `NoDowngrade`: a live freeze is not replaced by a plain cooldown, a daily cap by
  nothing, and the same reason does not move its end. `OnlyRecoveryLifts`: a
  freeze ends early by a manual clear, by a positive balance read that began after
  it, or by the eviction in `cooldown.go`, when it is the one that ends first.
- `ForbiddenToldApart`: a queued request is tried until the attempts are spent,
  cools its model briefly and reconciles nothing; and no path records a daily
  freeze from code or words that arrived without a 403, in the status or in the
  envelope of a stream.
  `RenderingLosesNothing`: whatever path it takes, a refusal is recorded by its
  own status and body, though half of the paths classify a text made of them.
  `BusinessBlamesNoKey`: the client is told of the freeze that is recorded, and no
  status of a quota or queue refusal crosses to the host.
- `OwnIdentity`: a request is signed with the session of the token it came with,
  and carries no cookies of another account. `SentOnce`: one handshake a jar in
  the life of the process; each request leaves once, by one route.
- `ClearedBeforeFreeze`: what is on its way upstream was let through before the
  freeze that now stands. `FreezeNeedsEvidence`: who records a freeze had its
  current attempt answered (the synchronous stream excepted, see section 7).
- `SlotsConserved`: the length of each semaphore is the number of requests that
  still owe it a slot.
- `DoubtRemembered`: a claim with a lost answer is on record, or with the run
  that looks into it. `NoBlindRepeat`: no POST while a claim is in doubt,
  and the record names the claim that is.
  `ParkedLeftAlone`, `RetryBudget`, `CancelledStaysCancelled`, `RetryComes`: as
  named.
- `ParkedStaysParked`: nothing but the operator or a login ends a park.
  `TokensKept`: no write restores an older pair.
- `AlwaysAFile`: an account that was not deleted has a file at every instant of a
  move. `LastWordMoves`: when all is at rest there is one file, with the flag as it
  was last set and the newest pair, or none if it was deleted; excepted are moves
  that were cut short and the writers without the lock (`disturbed`).
- `OneFetch`: one caller at a time fetches for an account, the holder of its
  flight. `ReceiptKept`: a confirmed check-in shows all day unless the
  credential is refused later, and then nothing older shows one.
  `BalanceAfterCheckin`: the balance shown after it was asked for after it, or
  found by it.
- `AskedOnce`, `OneWriter`, `CheckpointStands`: of each login, one exchange; one
  saver, and a save mark only where a file was saved; no step back. `NewerKept`: a
  credential refreshed since is not overwritten by its login's.
- `Recoverable`: after the first save every restart finds a document, and with a
  backup also after one is broken. `FutureKept`: a document of a later schema is
  not overwritten. `LiveWins`: an entry in memory is not replaced by an older one.
- `OwnCatalog`: neither host nor gateway is told of a model or a window that the
  account's own gateway never published for it, and an account whose catalog was
  known when the host asked is not answered with nothing.
- `EditsKept`: a hide or restore that was patched, and that no other edit and no
  configure met before it was, holds in the config and, once handed over, in the
  overlay.
- `ToolsWhole`, `NothingLost`: a call the client holds was said in full under one
  id; a finished answer is the whole answer.

Each is paired in `PROJECT.json` with a mutant, a plausible slip in the code
under which TLC finds it violated.

Symmetry is used where the permuted values are interchangeable and no liveness is
checked: requests, goroutines, browsers, models, files, accounts of the cache,
logins, ids.

## 5. Fairness and deadlock

`ExecutorGate` assumes that the plugin's own goroutines run and its timers fire
(`WF` of each request's steps). Upstream owes nothing: `EveryRequestEnds` is an
implication from `UpstreamAnswers`, because the pump's context is cancelled only
when the pump returns and a silent stream holds its request and its slot. Weak
fairness is enough for the slot: a waiter also has a timer, which may fire as soon
as the request waits, so a step of it is always enabled.

`CheckinLoop` assumes that goroutines run on and I/O returns (`WF` of every run
and of the loop's steps), that the ticker fires (`WF` of the scan and the clock),
and that a Go mutex is handed to a waiter in the end, whoever else asks (`SF` of
taking the lock: a `sync.Mutex` in starvation mode hands over after a
millisecond).

`CHECK_DEADLOCK FALSE` stands where the modelled system stops: in `Account`,
`OAuth`, `Catalog`, `Upstream`, `ModelOrder` and `AuthMigration` at the bound of
the clock, of logins, of discoveries, calls, edits or operations, in `Upstream`
also when a refusal has been dealt with, in `Stream` when the answer has ended.
The other runs check deadlock; there an operation of panel, loop or clock is
always possible.

## 6. What is proved

Every safety and action property that a passing run checks is also a theorem
(`PROJECT.json` pairs them), for every value of the constants that the named
assumptions allow; and so are the three refinements. TLC evaluates the assumptions
in each run. Most of them fix types, make caps and TTLs positive, sets finite, and
sentinels distinct from values. These say more:

- `ExecutorAssumption`: `0 \in Hints`. Upstream may always give no hint, and the
  guard of the synchronous stream passes none on when it reads back a daily cap.
- `OAuthPendingAssumption`: `LoginTTL <= ResultTTL`. Both are ten minutes
  (`main.go:114`, `oauth_pending.go:22`). With it the end of a record never moves
  back.
- `ServingAssumption`: the catalogs an account may discover are not empty; a
  discovery that decodes to no model is an error (`models.go:505`).
- `CheckinAssumption`: the retry delays are positive, as `checkin.go` has them.

Three groups of theorems have a hypothesis that is not an assumption of the model,
because the property is false without it, as TLC shows and section 7 tells:

- `LockedOnly` (`ParkedStands`, `NoneParkedAlone`, `ReasonStands`, `DeletedStands`,
  `LockImplements`): the writers are the panel's switch and delete, the notes and
  the reconciliation, which take the account's lock, and the host sets no flags.
- `OneAtATime` (`TokensStand`): one goroutine, all nine operations.
- `OneContract` (`DoubtKept`, `NoSecondPost`): upstream offers campaigns or the
  daily sign-in and does not change over.

Few of the properties are inductive. What each proof adds:

**`UpstreamProofs`**, the parts of run `Upstream` (lemmas of finite sets in
`CooldownTableProofs`). *The table*: `Typing`; `TableBounded` (`Bounded`: the table
never exceeds its cap, which no run repeats); `AccountWide`; `FreezesStand`
(`NoDowngrade`); `RecoveryNeeded` (`OnlyRecoveryLifts`). The operators are
nondeterministic only in the evicted key. For each of them a lemma gives what it
may leave at one key (`MarkKeys`, `QuotaKeys`), another a bound on the number of
keys (`MarkBound`, `QuotaBound`: each puts a key in a table that is not full, puts
it where one was, or swaps it for an evicted one). `NextKeys` collects the first
per step, and the theorems are read off. For `RecoveryNeeded`, an evicted key that
is frozen is live, so the sweep before the eviction found nothing dead that could
have gone in its place (`EvictedFrozen`).
*Calls*: `IdentityKept` (`OwnIdentity`), `NothingTwice` (`SentOnce`). That cookies
are the account's own needs that each jar holds what its own account fetched
(`JarsOwn`); that a jar has one handshake, that its mark stands for the one call
that may still ask (`MarkedOnce`). What a call has sent is tied to where it stands
(`Sound`).
*Policy*: `Lossless` (`RenderingLosesNothing`), `NoKeyBlamed`
(`BusinessBlamesNoKey`), `ForbiddenRead` (`ForbiddenToldApart`), `DailyOnce` (no
refusal for the daily count is tried again), for any statuses, attempts and sets
of markers, where the run has two markers. The lemmas say what kind of error a body
is rendered to and which markers the text of that kind has.

**`ExecutorProofs`**. `Typing`; `SlotsKept` (`SlotsConserved`); `GateImplemented`
(`GateSpec`); `OneAttempt` (`OneAttemptSeen`); `ClearedFirst`
(`ClearedBeforeFreeze`); `FreezeIsEarned` (`FreezeNeedsEvidence`);
`CooldownImplemented` (`CooldownSpec`). Types and accounting hold each other up:
that a release leaves a natural number needs the slot to be owed, and that the
holders can be counted needs the types; so the inductive invariant is
`IInv == TypeOK /\ SlotsConserved`. Every step is one of four moves of one
request (it stays, enters, gives up or leaves) that `RequestSteps` derives once
and the theorems share. `ClearedFirst` rests on the origin of freezes: a step that
makes one stamps it with the present instant (`MarkOrigin`, `HintOrigin`,
`QuotaOrigin`), and a request only becomes ready in a step in which the guard saw
none. `OneAttempt` adds who may have emitted what, `FreezeIsEarned` that a request
about to record was sent in this attempt or refused by the guard of the
synchronous stream (`AskedInv`), with `OnlyRecordFreezes` for the steps that
cannot freeze. The refinement of `Cooldown` maps each step on the table to the
operation of that name; it needs that the hints a request carries came from
upstream (`HintsInv`).

**`CheckinProofs`**. `RetriesBounded` (`RetryBudget`), `ParkedIsLeft`
(`ParkedLeftAlone`), `CancelStands` (`CancelledStaysCancelled`) from `CheckinInv`:
that who is past the lock holds it (`Holding`), what a run in flight remembers of
its record (`Recorded`), and what was charged and cancelled (`Budgeted`,
`Cancelled`). `DoubtKept` (`DoubtRemembered`) and `NoSecondPost` (`NoBlindRepeat`),
under `OneContract`, from `DoubtInv`: where a claim in doubt is kept at each step,
through eviction, midnight and cancellation.

**`AccountProofs`**, the parts of run `Account`. *The file*, under `LockedOnly`:
each property depends on what a goroutine has read and not yet written. `FileInv`
adds that whoever is past the lock holds it, that what it read is the file as it
stands, and that a park is accounted for by the file; the refinement is then that
a save writes the operation of `AuthDocument` applied to the current file. Under
`OneAtATime`: `SerialInv` says that what an operation is about to write carries the
newest pair. *The names*: `NeverWithoutFile` (`AlwaysAFile`): a removal is safe
because only a deletion or a move comes to it, and a move not before the account
has a file of its own or was deleted. `LastWordStands` (`LastWordMoves`): `WordInv`
says that one file, the one no move is about to remove, has the last word, and
that what an operation under its lock saw is still so. *The cache*:
`FetchedOnce` (`OneFetch`), `ReceiptStands` (`ReceiptKept`), `BalanceFollows`
(`BalanceAfterCheckin`): `CacheInv` relates the entry to when a confirmation and a
refusal were stored and which balance was found, also for an answer still on its
way, which may be merged in any order and after an eviction.

**`OAuthProofs`**. `TokenAskedOnce` (`AskedOnce`), `OneSaver` (`OneWriter`),
`StaysBounded` (`Bounded`), `CheckpointsStand` (`CheckpointStands`), `NewerStands`
(`NewerKept`). The invariant says what a context and its record may know of a login at
each step of the poll that holds it (`Working`), what is kept of a token once it
was obtained (`Kept`), that one poll holds a login (`Mutex`), and that contexts
and records are counted (`Capped`).

**`CatalogProofs`**, the parts of run `Catalog`. *The store*: `CatalogRecoverable`
(`Recoverable`), `FutureStands` (`FutureKept`), `LiveStands` (`LiveWins`) from
`StoreInv`: at each point of a save which of document and backup is whole
(`SavesSound`), and in which order what they hold was discovered (`Ordered`). *Serving*: `CatalogIsOwn` (`OwnCatalog`): what is known under a key was
published by the account of that key, and an asker's list was made from it.
*The overlay*: `EditsStay` (`EditsKept`): overlay, config and the copies in flight
each tell of an edit what was last wished, unless it was disturbed.

**`StreamProofs`**. `StreamInvariant`, `CallsAreWhole` (`ToolsWhole`),
`AnswersAreWhole` (`NothingLost`). The code keeps of a stream what it needs and the
properties speak of all that upstream said: `Told` says that the two agree on
every call. `Sent` says that a call is with the client only when all of the answer
was acceptable, `Settled` that the client has what is due of every choice whose
terminal frame is out. That the limits hold (`WithinAll`) counts fragments one by
one: an accepted frame adds at most one for each choice that brings one.

Only model-checked: liveness (`EveryRequestEnds`, `RetryComes`), since the prover
used here has no fairness or `ENABLED`; and the two violations of section 7. No
module uses `RECURSIVE`, and no property needs induction over data.

## 7. Disagreements met while modelling

The models follow the code. Where the code does something that its comments or
documents do not say, the property states the exception or the run excludes the
writer, and the place is named here. Two of them are runs of their own:

- `authfile.go:267`: `isSafeAuthPath` lets nothing be removed whose name does
  not begin with `qoder-` (or is `qoderwork.json`). The bare legacy name is
  `qoder.json`, so the removal that ends its move is refused, the error is
  dropped (`authfile.go:150`), and the host has two credentials of one account;
  every later note of the old one is saved over the new one, older pair and flag
  included, and the panel cannot delete it. `authfile.go:138` says that the move
  "also removes a legacy path". `AuthMigration` shows it.

- `model_config.go:367`: saving an order is `PUT /models` with an order alone, and
  replaces the whole overlay by one that hides and adds nothing. The next hide or
  restore then patches `hidden_models` without the models hidden before, and
  added models are gone. `panel.html:1315-1316` says of `saveModelOrder` that it
  writes the order only, because carrying the hidden models along would change
  what the operator has just hidden. `ModelOrder` shows it; `EditsKept` excepts
  the models that were hidden when an order was saved (`crossed`).

*Credential files.*
- `keepalive.go:182` (`persistAuthTokens`) reads, refreshes and saves without the
  account's lock, and rebuilds the document without its `disabled_reason`. Its
  comment (`keepalive.go:177-180`) says that a refresh must not put a disabled
  account back into rotation; a switch between its read and its save is undone.
  `keepalive.go:199` likewise writes a file that was deleted in between. With the
  token refresh among the writers, `ParkedStaysParked` and `DocSpec` fail, which
  is why the file's part of `Account` has the locked operations only.
- `management.go:194` (rename) and `adopt.go` rebuild without `disabled_reason` and
  without the lock as well.
- `lifecycle.go:145`: a file with the flag set, no reason and a note that says
  exhausted counts as an old automatic disable and is restored when credits
  return. `lifecycle.go:8` says that manual disables are always respected; one
  made through the host leaves no reason, and the notes of the dashboard can add
  the rest. `Account` has no host that sets flags.
- `lifecycle.go:346`: the note of an account whose session died is rewritten from
  its credits and loses the mark that keeps it parked.
- `keepalive.go:129`: `refreshCall` returns no body with an error, so the branch
  that marks a dead session is never taken; `keepalive.go:17` says it is.
- `lifecycle.go:153`: a note written from an earlier read puts an old token pair
  back if the token was refreshed in between; `TokensKept` is therefore checked
  with one goroutine. `model_catalog_single.go:111` does the same to a switch.

- A rename of a legacy file (`management.go:202`) saves under the own name and
  removes nothing; a login (`oauth.go:385`) saves there too, and the next note
  of a legacy file left beside it is saved over the new credential.
  `LastWordMoves` excepts both.
- `adopt.go:73-76`: the pass "returns true when every legacy candidate was
  resolvable"; it also does when reading or saving one failed, and that file then
  waits for the next reload. `adopt.go:57` says that the next reload retries; one
  within a minute of the start does not.

*Requests.*
- `main.go:985`: the synchronous stream records the refusal of its own guard as if
  upstream had answered, which may renew a freeze that was just lifted
  (`daily_quota.go` says that reads do not extend one). `FreezeNeedsEvidence`
  excepts that path.
- `cooldown.go:144`: at the cap, the entry that ends first goes, quota freezes
  included. `OnlyRecoveryLifts` names it.
- `stream.go:325` says that callers wrap the result into a status; for quota and
  queue refusals they do not, on purpose (`BusinessBlamesNoKey`).
- `lifecycle.go:491`: the reconciliation after a refusal restores and annotates,
  and never disables, since `lifecycleActionFor` always answers none.

*Check-in.*
- `docs/reliability.md:15`: "Turning check-in off cancels scheduled work". The
  configured switch does; the panel's (`credits_handler.go:83`) only sets the
  flag, and work is cancelled when the loop next looks while it is off.
  `CancelledStaysCancelled` says so.
- `checkin.go:463`: if every read fails after a legacy claim whose answer was lost,
  the record keeps the contract of before, and verification asks the wrong one.
  What `NoBlindRepeat` says of the record is about campaign claims. An account whose
  campaign was confirmed before upstream went over to the legacy contract then has
  its claim settled by that campaign: with both contracts offered, TLC finds
  `DoubtRemembered` violated (a confirmed campaign, a legacy claim with a lost
  answer and failed reads, a verification). The runs therefore offer one contract,
  and the theorems about doubt assume it (`OneContract`).
- `checkin.go:452`: a confirmation of another campaign settles an open claim.

*Cache.*
- `lifecycle.go:584`: a chat drops the balance by load and store, so what was
  merged in between is lost; and `lifecycle.go:582` marks its copy as fetched now.
  The histories behind `ReceiptKept` and `BalanceAfterCheckin` restart there, and
  where an entry is pruned or evicted once the grace since its claim is over.
- `panel.go:67`: the dashboard prunes entries that the soft cap would have kept for
  their grace.

*Logins and catalogs.*
- `oauth.go:394` and `docs/reliability.md:31` call a repeated save after a crash
  idempotent. It is unless the credential was refreshed or edited meanwhile:
  `NewerKept` excepts restarts.
- `model_store.go:261` stamps a document when it is saved: of two discoveries that
  overlap, the older answer may carry the later stamp. `LiveWins` excepts
  overlaps.
- `model_store.go:402`: on Windows the document is removed before the rename, and
  loading looks at the backup only if the document is broken, not if it is
  missing. `Recoverable` excepts that gap.

*Models.*
- `model_config.go:8` says that an order pins models to the front. What the host is
  told is sorted again after the overlay (`models.go:685`, `sortModelsForCatalog`).
- Adding a model that is hidden shows it until the next configure hides it again:
  an addition is answered no list to patch. Hiding an added model drops the
  addition, so restoring it shows nothing.
- A configure between the store of a hide and its PATCH (or one whose config has
  no readable `hidden_models`) clears the hide in memory, and an edit of another
  model that follows before the next configure patches the list without it.
  `EditsKept` excepts models whose edit met a configure (`unsure`).
- `models.go:91`: an account without a uid is known by a digest of its token, so at a
  token refresh its last good catalog is not found any more. `OwnCatalog` is
  about the key the request began with.
- `models.go:761`: the entry of an account that was deleted remains and goes stale,
  so `allModelCatalogsFresh` stays false; and it keeps its say in what windows an
  override may name.

*Calls upstream.*
- `billing_cookie.go:19-20`: cookies and token go with "every billing call". The
  mark is set before the handshake, so a call that begins during it goes without;
  and after a handshake that failed all go without, for the life of the process.
  `SentOnce` says that there is no second one.
- `billing_cookie.go:22`: jars are "never shared". Those of accounts without a uid
  are keyed by eight characters of the token (`billing_cookie.go:86`) and may be.
  `OwnIdentity` excepts accounts without a uid.

## 8. What is not modelled

- `sign.go`, `encoding.go`, `body.go`: keys, encodings and templates, functions of
  one request. Of `body.go` the window asked for is in `ModelServing`.
- `model_region_facts.go`, `model_order.go`, thinking and price views: parsing and
  presentation of what a catalog publishes; of it only the context windows
  decide anything.
- The union of all catalogs (`model.static`), aliases and exclusions of models.
- The bytes on the wire and a stream's chunks: a call's end is one step. What is
  in the chunks is `StreamIntegrity`'s.
- `usage.go`, `region.go`, `redact.go`, `expiry.go`: lookups, formatting, best
  effort reports.
- `oauth_pending_store_other.go`: a stub.
- Within modelled parts: the one-time Pro claim, the plan of a snapshot (merged as
  credits are), the MAC of a pending record (a damaged record is one outcome),
  thinking text (it is text).
- Of the overlay, the sequence of pinned models (it is a set) and the entries made
  up for added ones; cookies that differ in path or domain.
- A lock stripe shared by two accounts: sharing only serialises more.

## 9. Plan

Done, in this order, most important first: the cooldown table; the executor over
it with its gate; the refusal policy both rest on; check-in; credential files;
cache; logins; catalog; streams; calls upstream; model serving; the overlay; the
names of files. Abstract specifications: `UpstreamGate`, `AuthDocument`, and
`Cooldown` for the table inside `Executor`. Proofs of every safety and action
property of the passing runs, and of the three refinements.

To extend: the union of catalogs that `model.static` answers, over a store and
entries that several accounts share; the tries of the adoption while the host
starts.

To prove: what a change of upstream's contract leaves of `DoubtRemembered`, stated
without `OneContract` (section 7 says what is lost); what of `TokensKept` holds of
several goroutines when the notes are left out.
