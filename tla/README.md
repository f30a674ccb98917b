# EdisonDB: TLA+ models, checks and proofs

EdisonDB is an encrypted, owner-sovereign record store written in Rust, with
two storage engines, a small query language, REST and gRPC servers, an
embedded mobile variant with a Kotlin layer, and a policy engine. This
directory holds TLA+ modules translated from its source, the TLC
configurations that check them on small instances, and TLAPS proofs of the
most important properties for every instance.

## 1. Inventory

| Component | Source | State | Operations | Modelled in |
|---|---|---|---|---|
| Audited store core | `src/lib.rs` | records (id to Record), audit log (hash chain) | write, read, delete, load_impl, save_impl, checkpoint classification | `AuditChain`, `RedbStore` |
| redb backend | `src/backends/redb.rs` | the whole store in memory, one file | open in legacy or authenticated mode, save after each operation | `RedbStore` |
| fjall backend | `src/backends/fjall.rs` | five keyspaces, cached chain length, tail and timestamp commitment | one atomic batch per operation | `FjallStore` |
| EQL executor | `src/executor.rs` | a router to a backend, a vector index | WRITE, READ, LIST, DELETE, AUDIT, EMBED, AUTO EMBED, SEARCH | `RedbStore` (the store part), `Executor` (with the vectors) |
| EQL text and parser | `src/eql/*` | none | parse | `Eql`, `Executor` |
| SDK | `src/sdk.rs` | an executor | the same, as methods that format EQL text | `Servers` (as the servers use it), `Eql` and `Executor` (its texts) |
| REST and gRPC servers | `src/server.rs`, `src/grpc.rs` | a lock each, the path and the secret, the threads of the runtime | take the lock, open a session, one statement, drop it | `Servers` |
| Mobile store | `src/mobile/mod.rs` | one partition, the write counter | open, insert, query, delete, close | `MobileStore` |
| Android database object | `mobile/android-sdk/EdisonDbAndroid.kt`, `src/mobile/ffi.rs`, `src/mobile/jni_bridge.rs` | the native handle, a monitor, a mutex behind the handle | open, close, insert, query, delete, from any thread | `AndroidDb` |
| Android exposure store | `mobile/android-sdk/*.kt` | five kinds of keys of a mobile store | insert and recordInserted, delete, deleteAll, queries | `ExposureStore` |
| Policy engine | `src/policy.rs` | delegations, rules | delegate, add_rule, evaluate | `Policy` |
| Vector index | `src/vector.rs` | ids and vectors, a file beside the store | insert, search, remove, save, load | `Executor` |
| Migration | `src/migration.rs` | the .edm file | export, import, transform, manifest | `Migration`, `StoreTools` |
| Compliance | `src/compliance.rs` | none | reports over audit entries and records | `Compliance`, `StoreTools` |
| ARPi header | `src/arpi.rs` | none | encode, decode, SHA-256 | no: see section 6 |
| Envelope, encryption | `src/lib.rs` | none | encrypt, decrypt, derive key | no: crypto is abstracted |
| Embedding, CLI, clients, Kani harnesses | `src/embedding.rs`, `src/sovereign_embed.rs`, `src/main.rs`, `edisondb-py`, `edisondb-ts`, `src/verification.rs` | none | | no: stateless |

`src/backend.rs` is not a module of the crate and is never compiled.

**How they interact.** A REST handler, a gRPC method, the SDK and `edctl` all
build an `EqlExecutor`, which opens a backend, runs one or more statements and
is dropped. With redb the backend reads the entire file when it opens, works
in memory and rewrites the entire file in one transaction at each save; redb's
file lock is held only during that load or that save. The REST server and the
gRPC server run in one process on the same path, each with its own lock, so
two sessions can hold copies of one file at the same time. With fjall the
directory is locked for the life of the session. Beside the store lies the
file of vectors, without lock or transaction: a session reads it when it opens
and rewrites it, after the store, when it is told to persist. The Android
layer calls the mobile store through JNI and C entry points, from coroutines
on a pool of threads: `EdisonDbAndroid` serialises its own open and close, each
native call locks the mutex behind the handle, and nothing serialises the
methods of the exposure store.

**What is hard.** A save by a session whose copy is stale; equal audit entries
made by two sessions in one second (entries hold seconds and no payload);
failed saves after memory was already changed; commits that report an error
and took effect all the same; crashes between creation and
first commit, between commit and answer, between two inserts that belong
together; databases opened in the wrong mode or with the wrong secret; cached
chain state beside the stored one; a file that is truncated and rewritten
while others read or write it; a native handle that one thread uses and
another frees; arguments formatted as text and parsed again; read-modify-write
of shared keys by overlapping methods; native calls whose failure the caller
ignores; a wall clock that is read twice and may be set back. `PROJECT.json` lists them as hazards,
each at its line.

**What makes each part correct.**
- Store: the durable log only grows and is always a legal history (no write of
  a live id, no read of a dead one, no delete by anyone but the owner); the
  stored records are those the log accounts for; every answer keeps its audit
  entry; a file can always be reopened, in its own mode and only in it.
- fjall: the same, at every point a crash or power loss may leave, and cached
  fields equal to what the keyspaces hold.
- Vectors: a save that is interrupted never leaves a file that opens with some
  of its vectors; a vector made of a payload is stored only after the audit
  entry of the access it comes from.
- SDK: the statement that is executed is the one the arguments mean.
- Mobile: acknowledged inserts carry strictly increasing counters; the store
  behind the handle moves as if one thread used it, and no memory is used
  after it was freed unless close() overlaps a call.
- Exposure store: listed events are indexed, erasure erases, and a call that
  fails unnoticed harms no event but those it is about.
- Servers: a session exists only under its server's lock; calls of one server
  are serial; what a caller is told is what happened; every call is answered.
- Reports: what they count from records and what they count from the audit log
  agree; violations are reported exactly when there are some; both whatever
  course the clock took.
- Migration: every line is accounted for, and manifests that agree mean that
  nothing was lost or doubled.
- Policy: the Critical ceiling, deny before allow, no permission without a
  grant, and none lost before its expiry but to a deny rule.

## 2. Plan

Order of work, most important first. Items marked done are in this directory.

1. `AuditHistory`, `AuditedStore` (abstract), `AuditChain`, `RedbStore`: done,
   with type invariant, safety, modes and refinement proved.
2. `FjallStore`, shown by TLC to implement the same abstract store: done.
3. `MobileStore`, `ExposureStore`, `Policy`: done.
4. `Servers`: the locks, threads and handlers around `RedbStore`: done.
5. `Compliance`, `Migration`, composed with a store in `StoreTools`: done.
6. Proofs for `MobileStore` (counters) and `Policy` (ceiling, deny, grants):
   done.
7. `Executor` (the vector index and its file, with sessions that save it after
   the store) and `Eql` (the text of statements): done.
8. Proofs for `FjallStore` (invariant and refinement) and for the safety of
   `Servers` (locks, threads, serial calls, refinement): done.
9. `AndroidDb`: the native handle of the Android layer, the mutex behind it,
   and its refinement of `MobileStore`: done, with proofs.
10. Proofs for `ExposureStore`: done.
11. Proofs for `Executor` with `Eql`, and for `StoreTools` with `Compliance`
    and `Migration`: done.
12. Left: the ARPi codec.

Abstract specifications: `AuditedStore` for both backends and for the servers,
`MobileStore` for the Android threads. Bounds are small ids/owners/times, two
sessions, logs of two or three entries.

## 3. Modules and how they correspond to the code

- **`AuditHistory`** says what a sequence of audit entries means: `LiveBy`
  (which owner an id lives under after n entries), `LegalHistory`,
  `OwnersMatch`, `Extends`. It has no counterpart in the code beyond the entry
  body; it is the yardstick for the rest.
- **`AuditedStore`** is the abstract specification: variables `history` and
  `owners`, one action `Commit` that extends the history legally.
- **`AuditChain`** is the pure part of `lib.rs`: records, hash chain,
  `audit_history_is_prefix`, checkpoints in both modes,
  `classify_checkpoint_state`, and what load and save accept. Cryptography is
  modelled by terms: a hash or a MAC equals another exactly when all its
  inputs do, so collisions and forgeries are outside the model. Encryption is
  left out: a payload is its plaintext.
- **`RedbStore`**: `disk_*` and `checkpoint` are the redb tables,
  `records`/`audit_log` the `Store` of each session. `Open` tests that the
  path exists; `Load`, `LoadRejected`, `Create`, `CreateRejected` are what
  follows. `ExecWrite`, `ExecRead`, `ExecDelete`, `ExecAutoEmbed` change
  memory and move to `saving`; `SaveCommit`, `SaveRejected`, `SaveFails`,
  `SaveInDoubt` are the outcomes of `save_impl`: the last is a commit that
  reports an error although the file has the tables; `SendReply` answers;
  `CloseOrCrash` may come anywhere (so a first commit in doubt is `Create`
  and `CloseOrCrash`). Every reading of the clock may be any time.
  `SaveOnly` is a read of a missing id, which saves all the same.
- **`Executor`** extends the sessions of `RedbStore` with what `EqlExecutor`
  keeps beside the store: `vector_index` (entries in their order),
  `vector_file` (an image and how much of it has been written), and the
  `stage` of each session. `open_impl` opens the store, then loads the
  vectors; a file that `VectorIndex::load` refuses counts as an empty index.
  `Persist` is `EqlExecutor::save`: the store first, and only if that
  succeeds the vectors, by `CreateVectors` (the file is truncated) and one
  `WriteVectors` for each piece that reaches it. A session may die at each of
  these steps, and two may be in them at once: the file is then `Garbled`, and
  what a load makes of it is left open. `persisted`, `latest`, `outdated` and
  `disturbed` are history variables for the properties. The vector of a
  payload is the payload: embedding and approximate search are external.
- **`Eql`** is the text in between: a text is a sequence of words, blanks and
  line breaks; `parse` has one operator for each rule of `grammar.pest`, and
  `sdk_write`, `sdk_read`, `sdk_delete` are the `format!` of the SDK's methods.
  Keywords and tiers are one word each; an id is one word, and a keyword that
  runs into the next word without a blank is left out. The statements that
  change nothing (list, audit, search) and EMBED are translated with the rest
  of the grammar, but no property is about them. Two consequences of the
  grammar are visible in it: the payload of a WRITE takes everything to the
  end of its line, so the suffix AUTO EMBED that `write_stmt` allows after it
  never matches; and a line break inside a payload refuses the statement while
  one at its end is trimmed.
- **`FjallStore`**: `journal` is the sequence of the tables after each batch,
  `synced` how much of it a power loss cannot take, `in_doubt` the batch of a
  failed commit. `audit_len`, `audit_tail`, `commitment` are the cached
  fields. fjall itself (journal, directory lock, poisoning after a failed
  commit) is external and modelled from how it is used.
- **`MobileStore`**: `partition`, `write_counter`; `StoreRecord` and
  `StoreCounter` are the two stores of `MobileDb::insert`. It has no threads.
- **`AndroidDb`** extends it with the threads of the application. `call` says
  where each thread is: `open` and `close` enter the `monitor` of the Kotlin
  object; the data calls do not, they test `dbHandle` (`CheckOpen`), read it
  again (`ReadHandle`), and pass it on. `FollowHandle` is the `&*db` of
  `ffi.rs`, `Lock` its mutex; `NativeClose` frees what is behind the handle,
  and a later `NativeOpen` may get the same address. Following a handle that
  is not live, or freeing memory another thread is using, is undefined
  behaviour: `undefined` is set and the model stops. Everything else is
  `MobileStore`, which the module refines. Power loss is not modelled: fjall's
  journal survives a killed process.
- **`ExposureStore`**: one step per native call of each Kotlin method, one
  program counter per coroutine. Each call has a parameter `ok`: when it fails,
  a query reads as a missing key and an insert or delete changes nothing, and
  the method goes on, as the Kotlin code does with the `null` or `false` it
  gets. `Cut` ends methods halfway: those of one coroutine, when a call throws
  because the database was closed, or all of them, when the application is
  killed. `delete` is not guarded: an event may be deleted again.
  `undisturbed`, `unindexed`, `overdeleted`, `used`, `due` and `erased` are
  history variables: whether everything so far went alone and well, which
  events a failed call concerns, whether the count was lowered for an event
  that was gone, what was inserted, what a `deleteAll` has to erase, and what
  those that ended had to. The locals of a method are cleared when it has no
  more use for them, which changes nothing but the number of states.
- **`Policy`**: `delegations`, `rules`, and a clock that `Clock` may set to any
  time, earlier ones included; `evaluate` is an operator
  over all requests, checked in every state. Rules and delegations are sets
  because no decision depends on their order (each loop of `evaluate` returns
  one kind of decision). `granted_by` is left out: no decision looks at it,
  although its comment (`policy.rs:127`) says it must be the owner or an Admin.
- **`Servers`** puts the handlers of the two servers around the sessions of
  `RedbStore`: a slot for a call is `arrived` (the request is with the
  runtime), `waiting` for its server's lock, `granted`, `running` (its session
  is open), and answered when it is `idle` again. `todo` is what the handler
  still asks of its session; each of its steps is an action of `RedbStore`
  together with what the handler makes of the result (`?` and `map_err` end the
  call: `Fail`). A call whose save ended in doubt is told the same error as one
  whose save failed; the outcome `in_doubt` tells them apart for the
  properties. `OnAThread` says which calls occupy a worker thread: the std
  `Mutex` of `server.rs` blocks the thread of a waiter, the tokio `Mutex` of
  `grpc.rs` does not. `Cancel` drops a gRPC future at its only await. The redb
  backend is meant; with `EDISONDB_BACKEND=fjall` the second of two
  overlapping opens would be refused by fjall's directory lock.
- **`Compliance`** and **`Migration`** are the operators of those files over
  sequences of records. Ids are sequences of letters, because `transform`
  edits prefixes; a payload is a sealed text that remembers the id and tier it
  was sealed for, as the associated data of AES-GCM does. **`StoreTools`** runs
  them: a store in use, then an export in any order the HashMap may have, a file that may be cut short, transformations, one import. Every reading of the
  wall clock is any time, earlier or later than the one before; a write reads
  it twice, for its record and for its audit entry, and `births` (a history
  variable) keeps the first reading for each entry. A report is drawn at any of
  `Moments`.
- **`Subsequence`** is the filter of a sequence, written by the places it keeps
  (`Kept`) and not by recursion: trimming and splitting in `Eql` and the
  iterator filters of `Migration` are instances of it, and their proofs share
  its lemmas.
- **`MC*`** modules add symmetry sets and values for constants.
- **`AuditChainProofs`** (with the lemmas about `Subsequence`),
  **`RedbStoreProofs`**, **`FjallStoreProofs`**, **`ServersProofs`**,
  **`AndroidDbProofs`** (with `MobileStore`), **`ExecutorProofs`** (with
  `Eql`), **`StoreToolsProofs`** (with `Compliance` and `Migration`) and
  **`StandaloneProofs`** (`ExposureStore` and `Policy`, which share nothing
  with the rest) hold the proofs.

## 4. Runs

All specifications but `Servers` are of the form `Init /\ [][Next]_vars`: no
fairness is assumed and no liveness is claimed, because the code has no
background work whose completion it promises; every operation is a synchronous
call. `ServersSpec` adds weak fairness of the steps of each handler: a worker
thread runs the task it has, an idle one takes a task that is ready, and a
handler that waits gets a lock that stays free. That is what the runtime and
the two kinds of mutex give. The std mutex is not fair, so in an unending
stream of calls a REST call could be passed over for ever; the instance has
finitely many calls, and the property is about locks and threads, not about
that. Nothing is assumed of crashes, cancellations or arrivals.

| Run | Instance | Shows |
|---|---|---|
| `redb_store` | 2 sessions, legacy and 2 secrets, 2 owners, 1 id, logs to 2 entries | the log only grows and stays legal, records match it, answers are durable, the mode is fixed by the first checkpoint, the file always reopens; with failed saves, commits in doubt and crashes |
| `redb_two_writers` | 2 sessions | **violated**: two sessions write one id in one second, both succeed, one record is gone |
| `redb_auto_embed` | 1 session | **violated**: the audit entry of an AUTO EMBED read is never saved |
| `servers` | 2 overlapping calls, 3 in all, 1 or 2 worker threads, each slot REST or gRPC | sessions only under the lock; acknowledged writes of one server are not lost or overwritten, its reads return them and each answer has its own entry; answers are true, but for the error of a commit in doubt; every call is answered |
| `fjall_store` | 2 ids, 2 owners, legacy and 1 secret, logs to 3 entries | the log stays legal and records match it, answers are durable, the database reopens, at every point a failed commit, a crash or a power loss may leave; cached fields are current; the abstract store is implemented |
| `android_db` | 2 threads, 2 addresses, 2 keys, 1 value, counter up to 3 | acknowledged counters increase, across crashes, exhaustion, closes and opens; nothing undefined happens unless close() overlaps a data call; the threads implement `MobileStore` |
| `executor` | 2 sessions, 1 record id, 2 vector ids, 1 owner, legacy mode, logs to 2 entries, 3 vector operations; SDK texts of up to 5 words and spaces | the file of vectors opens with what was persisted or not at all; vectors of payloads are accounted for; SDK calls mean what their arguments say |
| `exposure_races` | 2 events, 2 coroutines, any call failing, methods cut short anywhere, events deleted again | listed events are indexed, and a deleteAll that starts alone erases every event then shown, except the events that a failed call concerns; undisturbed use keeps manifest and indexes in agreement with the records and the count never above their number |
| `exposure_leftovers` | same | **violated**: deleteAll leaves the time index entry |
| `store_tools` | 2 ids, one a prefix away from the other, 2 owners, 2 tiers, times 1 and 3 in any order, reports drawn at 1, 3 and 4, retention limits and thresholds 0 to 2, logs to 3 entries, up to 2 transformations of 6 kinds | reports agree with each other and with the audit log; imports account for every line; agreeing manifests mean nothing lost or doubled |
| `migration_verified` | same | **violated**: a transformed tier passes import and manifests, the record cannot be decrypted |
| `policy_grants` | 3 identities, 3 patterns, 2 grants, times 0 to 2 | ceiling, deny, no permission without a grant, and none lost before its expiry but to a deny rule, over all requests |

**Why the bounds are enough.** The redb races need two sessions with stale
copies; a third adds only more stale copies of the same kind. One id suffices
where properties are per id; two are used with fjall, where the commitment
spans ids. Two log entries in `redb_store` allow each operation after a write,
and a stale save against each; longer logs and more of everything are what the
proofs of section 5 are for. Three calls in `servers` allow two that overlap
and one that sees what they left, and three entries in `fjall_store` allow
write, delete, write again. One value of time makes every pair of operations
fall in the same second, the worst case for the prefix test; `Times` never
holds 0 (see below). `MaxLog` and `MaxReplies` only stop new statements, never
a save or an answer under way. The mobile counter's `MaxCounter` stands for
the largest u64, so exhaustion is reached. Owners, sessions, ids, secrets,
events and tasks are interchangeable, which is what the symmetry sets say.
`MaxThreads` is 2 because two slots are all there is to block; with one thread
a waiting REST call would block everything if the holder did not keep its own.
`MaxCalls` bounds arrivals. In `store_tools` the times 1 and 3 and
the moments 1, 3 and 4 leave a record younger than a limit, exactly as old, one
second older, or from the future, and let the two readings of a write differ
either way across a limit; one id becomes the other by adding or stripping the
prefix (so ids can collide, change places, or become empty), and
`MaxExportLog`, `MaxTransforms` bound the stores that are exported and the
edits of a file. In `android_db` two threads are enough for a call to meet a
close, and two addresses for a stale handle to be dead or to name the next
open; the counter reaches exhaustion after three inserts. In `executor`,
`MaxVectorOps` allows two inserts and a save, or an insert and two saves; the
second vector id has no record. In `exposure_races` two events let a call fail, or a
manifest be written back, for one while the other is inserted or erased, and
two coroutines are what it takes to overlap. In `policy_grants` the times 0, 1
and 2 let the clock stand before, at and past the expiry second 1, and 0 is the
expiry that never comes. `StoreTools` stops
after its import, and `AndroidDb` stops once behaviour is undefined, so
deadlock is not checked there; everywhere else it is.

**Disagreements between code and documentation** are findings in
`PROJECT.json`, each with its run. Observed too, without a run of their own:

- Two stale sessions that read one record in one second share one audit entry
  (the same cause as `redb_two_writers`).
- The mobile counter is said to be monotonic (`mobile/mod.rs:51`). A crash
  between the two inserts of `MobileDb::insert` leaves a record whose counter
  the next insert uses again; the first was never acknowledged, so
  `AckedCountersIncrease` holds. The counter lives among the user's keys, so
  deleting `__write_counter__` restarts it and inserting under it makes the
  next open fail.
- `EdisonDbAndroid.kt:6` says "Thread-safe". That holds of calls that overlap
  each other, and of opens and closes that do, but not of a close() that runs
  together with a data call: that is what `UndisturbedCallsAreDefined`
  excludes.
- A session whose index another save has passed overwrites the other's vectors
  when it persists, and two saves at once leave a garbled file
  (`PersistedVectorsReturn` holds of the other behaviours). An unreadable file
  is silently an empty index, so the next persist makes the loss permanent.
  DELETE leaves the vector of its record in the index, and so does a later
  WRITE that does not embed.
- `edctl shell` never saves vectors and the gRPC method Embed only writes a
  record, although the studio page (`studio.html:315`, `:479`) offers to embed
  records, the latter by way of that shell.
- `SdkRecord.created_at` is documented as the time of creation
  (`sdk.rs:39-40`), and `read` returns 0 in it (`sdk.rs:140`).
- An Android process killed between `insert` and `recordInserted` leaves an
  event that `deleteAll` never erases, and two overlapping inserts can lose a
  count or a manifest update.
- `EdisonDbExposureStore` looks at none of the results of its inserts and
  deletes, and takes a failed query for a missing key. So a failed insert
  leaves an event listed without its index entry, a failed delete leaves the
  record of an event that is no longer listed, and one failed query of the
  manifest, written back, makes every event listed before invisible to
  `deleteAll`. Deleting an event twice lowers the count twice. The properties
  of `exposure_races` except exactly these events.
- When a redb commit reports an error the caller is told that the statement
  failed, but it may have been done: `AnswersTellTheTruth` holds of every other
  error.
- The record and the audit entry of a write are stamped by two readings of the
  clock (`lib.rs:286`, `:1034`), so an audit entry may be younger than its
  record, or older. Retention goes by the record.

## 5. Proofs

`RedbStoreProofs` proves, for any sets of sessions, ids, owners, tiers,
payloads, times and secrets and any bounds: `TypeOK`, `HistoryIsLegal`,
`RecordsMatchHistory`, `RepliesAreDurable`, `AuditAppendOnly`, `ModeIsFixed`,
`FileReopens` (if 0 is not a time), and as `Refinement` that the store
implements `AuditedStore`. No run checks that refinement, since each abstract
step is the conjunction of three properties of `redb_store`.

**Assumptions.** `Absent` differs from every owner, secret, record, hash term
and checkpoint; tiers are tiers; the bounds are naturals. `FileReopens` also
needs `0 \notin Times`: a clock before 1970 makes `now_secs` return 0, a
record so stamped is written, and every later load refuses it (LIMIT-013 in
`verification/CLAIMS.md`).

**The inductive invariant.** None of the properties is inductive alone, since
a save copies the memory of an arbitrary session over the file. `IInv` adds:
the checkpoint on disk is the one a save of the stored tables writes
(`CheckpointIsCurrent`); each session's own records and log are consistent
with each other (`Consistent`), even when stale or ahead after a failed save;
a pending reply refers to an entry of its session's log; and a session that
is about to answer holds a log that the stored one extends
(`SessionInv`). A save is accepted only if the stored log is
a prefix of the session's, so the log only grows, entries behind answers stay
in place, and the file moves from one consistent pair to another. The
refinement follows: each accepted save, in doubt or not, is one abstract
`Commit`, every other step a stutter. A session whose commit is in doubt is
like one whose save failed: its memory is ahead of what it was told, and
`Consistent` all the same. `AuditChainProofs` supplies the lemmas: appending an entry
keeps a history legal, keeps `OwnersMatch` when the record map changes
accordingly, keeps the chain verified.

`FjallStoreProofs` proves `TypeOK`, `SurvivorsReopen` (if 0 is not a time),
`SurvivorsMatchHistory`, `CachesCurrent`, `RepliesAreDurable` and the
refinement of `AuditedStore` (every step but a power loss). The invariant is
about every journal that may be recovered, with and without the batch in
doubt: it is a nonempty sequence of tables that are each `WellKept` (an id in
the keyspace of one tier only, its own; records and log consistent; a
checkpoint that fits them) and whose log only grows. A commit appends one such
set of tables, an open at most the empty store, a power loss cuts a suffix
off; all keep it. Replies refer to entries of batches of the journal, cached
fields to the tables of the last one.

`ServersProofs` proves `HandlersOK`, `AnswersTellTheTruth`,
`WritesAreSerial`, `ReadsAreSerial` and the refinement of `AuditedStore`, for
any number of calls, ids, owners and threads. `ServersInv` joins the
invariant of `RedbStore` with: who holds which lock and which thread
(gRPC waiters stand in the queue once); what a handler knows of its session at
each place of its body (`RunningInv`); and, while only one server has calls,
that the session of the holder is alone with the file and at most one
statement ahead of it (`AloneInv`). The last is why serial answers follow: no
other save can come between a load and the save after it. The store's own
steps are not proved again: each step of a handler is a step of `RedbStore` or
leaves it alone.

`ExecutorProofs` proves `ExecutorOK`, `VectorsAreAccountedFor`,
`PersistedVectorsReturn`, `CallsMeanWhatTheySay` and the refinement of
`AuditedStore` for any sessions, ids, payloads and bounds.

- `ExecutorIInv` joins the invariant of `RedbStore` with three facts. Where a
  session is in its open or its save decides what its store is doing
  (`stage` against `pc`), because vectors are loaded only after the store and
  persisted only once it has been saved. Every vector made of a payload, in a
  session's index or in the file, has its entry in the log of that session or
  in the durable one (`Accounted`); the durable log only grows, so an entry
  once there stays. And, as long as no save disturbed another, the image in
  the file is the one last persisted, from its truncation to its last piece
  (`FileIsPersisted`); `PersistedVectorsReturn` alone says nothing of the
  steps between the two.
- A file of vectors written before the session's log reached the disk would
  break `VectorsAreAccountedFor`. It holds because the vectors follow a save
  that succeeded: the durable log then extends the session's own
  (`SessionInv`), so what its index is accounted for by is durable, too.
- `CallsMeanWhatTheySay` is about the grammar: for payloads of any length, the
  text `sdk_write` makes parses to the WRITE of the trimmed payload, or is
  refused if a line break is left in it or in the id. The lemma behind it
  (`TextIsKept`) follows the text through the rules of `grammar.pest`.
- The executors implement `AuditedStore` because a step of theirs is a step of
  `RedbStore` or leaves its variables alone; no step of the store is proved
  again.

`StoreToolsProofs` proves `ToolsOK`, `ImportsAccountForAll`,
`VerifiedLosesNothing`, `ReportsAgree` and `ReportsAreJust` for any ids,
owners, tiers, times, and any bounds on the log and on the transformations.

- `ToolsIInv` keeps, beside the types: a write that no delete followed has its
  record there, stamped with the first of the two readings of the clock in that
  write (`StampedByLog`); there are
  finitely many live records, and as many entries of writes as live records and
  entries of deletes together (`Tallied`); an exported file names no id twice
  and, until a transformation, is a beginning of the export (`Exported`); and
  an outcome is that of importing the lines that are there (`Imported`).
  The reports read records and log separately: that their counts agree rests
  on `Tallied`, that their verdicts are just on `StampedByLog`.
- `VerifiedLosesNothing` needs that the hash of the sorted ids decides the set
  of ids (`SameHashSameIds`): two sorted listings with the same hash term have
  the same length and agree at each place, and the listing of a store has no
  id twice.
- `ReportsAgree` has the hypothesis `0 \notin Times`: `earliest_timestamp`
  treats 0 as "no entry yet".
- `earliest_timestamp` and `latest_timestamp` are folds. What they compute for
  every log is an induction over the log; it is proved through a least
  counterexample (`LeastNumber`, from the well-ordering of the naturals),
  since the induction theorems of the library cannot be instantiated here.
  `EarliestIsLeast` and `LatestIsGreatest` say that they are the least and the
  greatest time of the log, whatever the order of its times: no clock is
  assumed to go forward.
- No set is assumed to be finite (`Tallied` carries that only finitely many
  records are live). `ToolsAssumption` says beside the bounds that `Absent`,
  which stands for "no export yet", is no sequence of records.

The lemmas on `Subsequence` in `AuditChainProofs` say that the places a filter
keeps are listed once each and in order (`InOrderLists`), which place comes
first and which next (`InOrderFirst`, `InOrderNext`), and that there are no
more of them than places (`PlacesFinite`). From them follows in
`StoreToolsProofs` what a filter returns (`KeptIs`), that it returns everything
if everything passes (`KeptAll`), and that filters by exclusive tests share out
a sequence between them (`ThreeParts`).

`AndroidDbProofs` proves first, of `MobileStore`, `TypeOK`,
`AckedCountersIncrease` and `CounterCoversAcked` for any keys, values and largest counter, from the
assumption that the application does not use the reserved key
(`CounterKey \notin UserKeys`); without it they are false, see section 4. The
inductive invariant `CounterInv` relates the counter in memory, the stored
one, and the insert under way: acknowledged counters are covered by the stored
counter, and the stored one never exceeds the one in memory.

It then proves for any number of threads and addresses that
`AndroidDb` implements `MobileStore`, so that the results just named hold
under all its threads (same assumption), and that behaviour is undefined only
if a close() overlapped a data call. The invariant `Coordination` says who
holds the monitor and the mutex, which operations reach which stages, how the
Kotlin copy of the handle and the allocated address agree (always, except
inside the monitor between native call and assignment), and what a data call
holds in its hand as long as nothing was disturbed.

`StandaloneProofs` proves, of `ExposureStore`, `TypeOK`, `KeysAgree`,
`ErasedAreGone` and `ShownIsIndexed` for any finite set of events and any
tasks, with every call failing or not and methods cut short anywhere.
`ExposureInv` adds: keys and tasks know inserted events only, each inserted by
one task (`UsedInv`); the count and every copy of it is at most the number of
inserts that have raised it or were cut short (`CountInv`); the index and
manifest entries of an event go only after its record, unless the delete of
that record failed (`GoneInv`); the manifest and every copy of it in the hands
of a coroutine list indexed events only, but for events with a failed call
(`IndexInv`); what a `deleteAll` still has to erase is in the manifest and in
each copy that will be written back, and a failed query that could take it out
of them releases the `deleteAll` from it (`DueInv`); and a method that nothing
has disturbed runs alone, with keys that differ from the records only as its
place in the method says (`UndisturbedInv`).

Of `Policy` it proves `CeilingHolds`, `DenyAlwaysFinal`,
`OnlyGrantsEverPermit` and `PermitsAlwaysLast` for any identities, patterns and
bounds. The engine only accumulates, so the arguments are about `evaluate`:
adding a delegation or an allow rule can only permit more, a deny rule only
less, and the clock adds or removes a match only by passing the expiry of a
delegation, forwards or backwards (`ExpiresOnce`).

**Only model-checked.** The liveness of `Servers` (`EveryCallIsAnswered`:
fairness and ENABLED are out of the prover's reach), and the four violations,
which are counterexamples and need no proof. Every other property of a run is
a theorem. Hash and MAC properties are assumptions of the term model, not
results.

## 6. Not modelled

redb and fjall internals, HTTP, gRPC and JNI plumbing, wording and formatting
of output, cryptographic strength, embedding, approximate search, clients, the
command line, the repository's own Kani harnesses. The ARPi headers, in Rust
and in Kotlin, are a fixed layout of 78 bytes around a SHA-256 and keep no
state: `AndroidDb` only knows that an insert may be refused because of one. A
REST or gRPC request that is refused before the lock changes nothing and is
left out. A damaged or hostile file is not an input of the models:
`classify_*` is modelled, but only on files the program wrote. A redb commit in
doubt either took effect or did not: that its tables are seen for a while and
lost with the power is not modelled. In `Eql`,
letters, ids of several words and keywords without a blank after them are left
out; elsewhere payloads are opaque. `VectorIndex::remove` is called by nothing
but its test.
