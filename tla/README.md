# A formal model of the Beets Web Manager

The Beets Web Manager is a Flask application that manages a Beets music
library. It plans a change, shows it to an operator, applies it through the
Beets engine that is embedded in the same process, and can roll it back. What
must not go wrong is the *protocol* around a change: which thread may change
what, what the records on disk say about it, and what a restart concludes from
them. This directory models that protocol in TLA+, checks it with TLC on small
instances, and proves the main results with TLAPS for every instance.

Paths below are relative to the repository.

## 1. The system

One process: waitress request threads (`app.py`, `WEBCONTROL_THREADS`), job
threads (`job_engine.py`), a few background threads, and Beets itself
(`backend/beets_embedded.py`, `beetsplug/webmanager`). Everything durable is a
file in one data directory. A restart loses every thread, every in-memory
table and the engine's operation registry, and keeps the files.

### Components

| Component | Code | State it keeps | Operations | Module |
|---|---|---|---|---|
| Resource locks | `backend/resource_locks.py` | one file per held key, `.registry.mutex`, re-entrant counts in memory | acquire, release, hold, heartbeat, reclaim_stale, release_interrupted | `ResourceLocks`, `LockService` |
| Claims | `backend/resource_locks.py` 323-370 | the transaction's status | claim_approved, approve_preview, cancel_unclaimed_on_error | `EngineTransaction` |
| Job store | `job_engine.py`, `routes_jobs.py` | job objects, the store's table, a JSON record per job | start, run, cancel, save, heartbeat, get, recover, tail sweep, clear, prune | `JobStore`, `RecordContract` |
| Job contract | `backend/job_contract.py` | a workflow's lock and the job's checkpoint | held, publish, release_interrupted, live_holder, guarded | `JobContract` |
| Child jobs | `backend/job_service.py` | progress notes of the parent | wait for a child, cancel it, settle it, give up | `JobTransaction` |
| Job hook and reconcile | `backend/transaction_service.py` | the transaction of a job, `originating_job` | create, attach, wrap, settle, done callback, reconcile | `JobTransaction` |
| Transaction store | `backend/transaction_engine.py` | one JSON document per transaction | create, update, transition (compare-and-set), update_from_job, list | `EngineTransaction`, `JobTransaction` (one transaction each) |
| Recovery sweep | `backend/transaction_recovery.py` | - | sweep, resolve_transaction, start_background_sweep | `EngineTransaction` |
| Rollback guard | `backend/rollback_guard.py` | `metadata.rollback_request` | rollback_guard, finish, abandon, record_outcome | `EngineTransaction` |
| Item file replacement | `backend/composite_workflows.py` 1972-2103, `beetsplug/webmanager/replace_ops.py` | engine quarantine and its manifest | apply, finish, rollback | `EngineTransaction`, `Family = "replacement"` |
| Album row merge | `backend/album_row_merge.py`, `beetsplug/webmanager/merge_ops.py` | engine manifest written before any change | apply, finish, rollback | `EngineTransaction`, `Family = "row_merge"` |
| Engine operation registry | `beetsplug/webmanager/operations.py`, `folder_ops.py`, `relocation_ops.py` | operations by idempotency key in memory, the durable ones in a file | register, update, get, prune, bind, precheck | `EngineRegistry`, `ReplayContract`; `EngineTransaction` has one operation of each kind |
| Recovery carrier | `backend/recovery_carrier.py`, and the writers `acquisition_service.py`, `import_service.py`, `recovery_service.py`, `matching_service.py` | one row per missing track: state, checkpoint, revision | download, stage, import (claim, precheck, plan, apply, outcome, Plex), advance, preflight | `RecoveryCarrier` |
| Other transaction families | `duplicate_cleanup.py`, `untracked_recovery_service.py`, the rest of `composite_workflows.py`, the file work of `relocation_ops`, `remove_ops`, `untracked_ops`, `art_ops`, `restore_ops`, `folder_ops` | manifests, plans | plan, apply, finish, rollback | not modelled |
| AI batches, pending reviews | `ai_batch_state_*.py`, `missing_mb_batch.py`, `pending_review_store.py` | resumable progress, compare-and-set documents | - | not modelled |
| Acquisition search, ordinary imports, playlists, Plex, providers | `import_*.py`, `slskd*.py`, `ytdlp*.py`, `playlist_service.py`, `plex*.py`, `provider_boundary.py` | caches, external services | - | not modelled: network and file I/O around the protocol that is |
| Matching | `backend/matching/*`, `matching_service.py` | none (pure) | scoring, alignment | not modelled (floats and strings), except what a preflight records on a carrier |
| Configuration, authentication, user interface, packaging | `config_*.py`, `auth_service.py`, `security.py`, `frontend/`, `scripts/`, `docker/` | settings, sessions | - | not modelled |

`PROJECT.json` has the full list with the reason for each part left out.

### How they interact

* A route approves a transaction (compare-and-set) and calls `apply_*`. The
  apply checks the record, takes the family's resource locks, claims the
  transaction (`Approved` to `Running`, again a compare-and-set under the
  locks), records that it is about to call the engine, calls it with the
  transaction's id as idempotency key, verifies the result against live Beets
  and writes the final status.
* The engine registers the key, does the work under its own lock, writes a
  manifest (before the change for a merge, after it for a replacement) and
  restores what it can when something raises.
* A rollback goes the same way backwards, through `rollback_guard`, except for
  the row merge, which calls the engine first.
* At start, `start_background_sweep` looks for transactions that are still
  `Running`, and decides from the engine's manifest or registry what became of
  them. It runs beside the requests and takes no locks.
* Long work runs as a job. The job store refuses duplicates, records the job
  before its function is called, and after a restart turns what still says
  `running` into `failed` (read-only) or `recovery_required`.
* A job that changes the library runs under the lock of its workflow
  (`job_contract.held`) and has a transaction of its own (the job hook). It may
  start child jobs and wait for them; what a child did decides what the
  parent's transaction may say. The next process resolves the job's record,
  releases the workflow lock the record names, and reconciles the transaction.
* A missing track that is downloaded and imported has a *carrier*, a row that
  a download workflow, import jobs, a scheduled advancer and folder scans all
  write, some of them with a compare-and-swap and some without.

### What is hard about it

Interleavings of request threads, job threads, the heartbeat, lazy loads and
the sweep; a crash between any two writes to disk; evidence that a restart
loses; restores that fail; a stale heartbeat that proves nothing; clears and
prunes racing final saves; a child that finishes after its parent stopped
waiting; a lost reply whose request is sent again; a row with a revision that
half of its writers ignore. The hazards in `PROJECT.json` name each at its line
with the property that would catch it, or say why there is none.

### What makes each component correct

* Locks: conflicting keys are never held by two attempts; a nested release or
  a reclaim never takes what an attempt still relies on; waits cannot form a
  cycle; a waiter is served.
* Transactions: the engine begins the mutation once at most; a status that
  says untouched is true, and so is Completed; cancelled means never sent;
  nothing stays Running.
* Jobs: one effect per key; no two mutating jobs of one request at once; a
  status never promises more than was done; interrupted work is shown, kept
  and never re-run; records settle.
* Job contract: one job of a workflow at a time, over all processes; no lock
  without a job that runs or died; a resume need not wait for a dead job, and
  nobody loses a lock it relies on.
* Job transactions: the job's record and its transaction never contradict;
  whoever settles the transaction first is last; cancelled means that no child
  it stopped had changed anything; nothing is left at work behind a final status.
* Registry: a key changes the library once; an answer is about the request's
  own payload; a burst of imports evicts no durable outcome.
* Carrier: one import past the claim; `importing` has an owner; `imported`
  means delivered; background work keeps off; nothing stays stuck.

## 2. The modules

| Module | What it is |
|---|---|
| `LockService` | the abstract lock service: owners, sets of keys, grants that never conflict |
| `ResourceLocks` | the lock files, the registry mutex, staleness, nesting, crashes; `ServiceSpec` is the refinement |
| `MutationContract` | the abstract contract of an audited mutation: approve, claim, change, and a status that tells the truth |
| `EngineTransaction` | one engine-backed transaction, its attempts, the engine, crashes and the sweep; `ContractSpec` is the refinement |
| `RecordContract` | the abstract contract of a job's record: asked for, recorded, at work, one true outcome, gone |
| `JobStore` | jobs, their objects, the table, the records, restarts, loading and clearing; `RecordSpec` is the refinement |
| `JobContract` | workflow locks of jobs over successive and concurrent processes; composes the lock service with job records |
| `JobTransaction` | one job, its transaction, the children it waits for, and the reconcile of the next process |
| `ReplayContract` | the abstract contract of a replayed key: one change, one answer for each request, a kept success |
| `EngineRegistry` | idempotency keys of the Beets plugin, pruning, the durable file and its load; `ReplaySpec` is the refinement |
| `RecoveryCarrier` | one carrier row and everything that writes it |
| `MC...` | constants, symmetry and instances for TLC, one per module |
| `...Proofs` | the theorems, one module per module |

Operators named `Mutant...` are deliberately wrong variants of the definition
that follows them. They are used by no specification; `PROJECT.json` says which
property each one must break, so that a property nothing can break is noticed.

### ResourceLocks

An *owner* is one attempt (`attempt_owner` makes the string unique), in one
process. `lock[k]` is the key's file: nothing, a record, or a file without a
parsable record (`Torn`). `held` is `ResourceLocks._held`, `stack` the holds
the owner is in, `mutex` the file `.registry.mutex`. An acquire is several
steps: the order check (`Acquire`), entering the registry (`EnterRegistry`, or
the wait that breaks an old mutex), the scan (`ScanFree`, `ScanBlocked`,
`Conflicted`), one step per file of the creation loop (`CreateKey`,
`CreateFails`), the return. Between any two of them its process may die, and
other owners run. `Faults` switches on what goes wrong besides, so that a run
says what it assumes.

Time is abstract: `Expire` lets a heartbeat pass its ttl at any moment, so
reclaiming on age alone would be found; `MutexAges` lets a dead process's mutex
become 30 seconds old. Process identity (pid and start time) is exact.

### EngineTransaction

`status`, `requested`, `result`, `rollback` are the fields of the record that
decide anything; `library` is the part of the library the transaction is about
(`original`, `partial`, `changed`); `manifest` and `registry` are the engine's
evidence. `pc` walks an attempt through apply or rollback, one label for each
point between two durable effects. `sweep`, `snap`, `decided` are the sweep,
which reads a copy of the record, decides later and writes later, beside
whatever requests come: the application starts it as a thread. A crash ends
the attempts, the registry and the sweep, and keeps record, library and
manifest. An engine restore may fail and a read of Beets may raise wherever the
code has one.

Four history variables say what the properties have to except, because the code
does not hold it: `overtook`, the sweep has written a status although an
attempt held the locks since it read the record (`beside`); `unrestored`, a
restore failed, which the engine reports like one that worked; `unread`, a read
of Beets raised since the start. Nothing else depends on them. What is said
holds for every behaviour up to the named event, and beyond it where no event
is named (`NeverReplayed`, `CancelMeansUntouched`, one caller of the engine).

Abstractions: one transaction at a time (locks exist to make that so across
transactions); a dead process's locks count as free, since until they go stale
an attempt is only refused; the content of plans and results is their presence;
a verification may fail on any identity field, so a changed library may verify
or not; the 20 passes of the sweep are an arbitrary number of passes. A
replacement rollback that raised in the engine is never restorable again before
a restart, because its key replays the failure.

### JobStore

A job is up to two objects: the one its thread runs on (`own`) and one that a
loader read back (`copy`); `entry` says which is in the table, and only that
one is ever written. `disk` is the status in its record and `newer` the order
of modification times that the startup window goes by. Each loader (a request
thread in `get`, the boot, the tail sweep) reads, inserts, resolves and saves
in separate steps. `locked` is the store's lock while `clear_finished` holds
it between its two looks at the statuses.

`RecordSpec` maps a job to its `Phase`: what its record says; without one,
"unknown" before it was asked for, "starting" while its own object is in the
table, "gone" after that. Under this map every action is a step of
`RecordContract` or a stutter: a save moves one phase, and a clear, a prune, a
tail deletion or a crash forgets a set of jobs.

Readers load records by id while jobs are cleared and pruned, as in the
application. Two history variables mark the only jobs for which what the code
promises is not kept. `stale`: an object of the job was loaded from a record
that no longer held, because its thread had ended or a clear had taken it, or
its record was deleted under the object; such a job goes "astray" in the
contract, and no other job is affected. `lapsed`: a start left the record to the
tail sweep, or a clear or a prune took the job out of the table, so that its key
is not found. A job whose record says `recovery_required` goes astray by no
step (`RecoveryKept`).

Abstractions: progress saves are the heartbeat's; `kill` is one step, once per
object; a function that raises the text "cancelled" without having looked at
its signal (`job_engine.py:237`) is not modelled, nor are a key sent with
another payload (`IdempotencyKeyReuseError`, 767: refused, nothing starts),
`dedupe_key` (another name by which requests count as identical), `close`, `every`, and writes
that fail (327). `Cancelled` bounds the requests whose jobs may be cancelled. Done
callbacks are in `JobTransaction`, the release of workflow locks in `JobContract`.

### JobContract

A job is one run of a workflow in one process (`ProcOf`); an operator's resume
or retry is another job. `pc` follows `held`: the poll with its deadline,
cancel and fail-fast checks (`CheckCancel`, `GivesUp`), the acquire (`Take`,
`Blocked`), the pause (`Wake`), the checkpoint that names the owner
(`Publish`), the work with its heartbeat, and the release in `finally`,
which works (`Leave`) or raises and is swallowed (`LeaveUnreleased`: the job is
over, its heartbeat has stopped, its files stay under a live process). An
acquire may raise as well, when the registry's mutex file stays taken
(`AcquireFails`). A process boots by resolving the records of dead ones (`Resolve`),
which releases the locks each record names. Time is counted in ticks: `age` of a heartbeat and
`gone` of a process, both capped just above `Ttl`.

Acquire, release and heartbeat are single steps here: `ResourceLocks` shows
that they behave as such, and `ServiceSpec` is what this module relies on.
Not modelled: a checkpoint that cannot be written, and `live_holder` outside the
start of a job.

### JobTransaction

`tx` and `rec` are the two durable records of one run, `child` those of its
children. `pc` is the hook's thread: create the transaction, start the job,
attach it, run; in the run, the loop over the children with
`_wait_for_child_job` (polls, a cancel that is passed on, the settle window,
the deadline, a record that is gone); then the verdict of the wrapper, the
job's final save and the done callback. `tick` is the reconcile, which reads
the job's record and decides in one step and writes in a later one. A crash
ends thread and tick; the next process scans the records and reconciles.

The parent is the import-all job of `routes_library.py`; a child may be
read-only (`ReadOnly`), and `Swallows` says whether the parent goes on after a
failure. Children may run for ever. Not modelled: the mirrored log, the idle
timer (the wait may end at any time), transactions that a route creates itself.
`NextChild` lets a cancel be seen after the last child too, which the loop does
not: the model has more behaviours than the code there.

### EngineRegistry

`ops` are the operations in memory, `file` the durable ones on disk, `newer`
which of two final records is the younger, for the caps. The first request of
any kind after a start loads the file (`Load`). A request takes the mutation lock (steps
and moves) or not (imports), meets a collision, a replay or nobody, runs the
change in one step, and records the outcome, which for a durable kind is in the
file in the same critical section. `effect` is a history variable: `remembered`
while the registry can still answer for the change, `forgotten` when it was
pruned, expired or lost in a crash before it was saved, `repeated` when the
change happened twice although it was remembered. A relocation that puts back
what it moved (`Undone`) drops its key, as the code does. An execution that
fails may have changed a part (`relocation_ops.py:768`); `effect` counts
successes only.

`ReplaySpec` maps a key to what its clients can rely on (`Known`): "done" while
the registry can answer, "kept" once the success of a durable operation is in
the file, "forgotten" afterwards.

### RecoveryCarrier

`state` and `point` are the row; `fresh` is who has read it at its present
revision, which is all a compare-and-swap needs. `Blind` is a write without a
revision, which may also fail (only logged). `claim` and `overwrote` are
history: who owns `importing`, and whether a blind write ever replaced a live
claim. The four writers are the download workflow, the imports (`Merge`), the
advancer (`Sweep`) and preflights (`Scan`). An import from Review is the child
of a job that holds the import slot and may stop waiting for it (`GiveUp`). An
import may end before it looks at the row (`EndsEarly`: cancelled, refused by
its preflight or by Beets, without a release to import), and the advancer then
starts another one.

Not modelled: a carrier that cannot be looked up (the import is then an
ordinary merge) or created, the orphan-staging reconcile
(`recovery_service.py:496`), and the state `rolled_back`, which nothing sets.

## 3. The runs

| Run | Asks | Instance |
|---|---|---|
| `locks_nested` | do the locks exclude, keep what is relied on, order the waits, implement the service | three attempts (two share a process), three keys with library-global, holds nested twice, busy registry, acquires that give up, deaths anywhere |
| `locks_liveness` | is a waiter served | two processes, one hold each, a mutex left by a death and broken after 30 s, torn files |
| `locks_mutex_age` | violated: exclusion, when an old mutex is broken by two waiters | three processes |
| `transaction_replacement` | is Completed true, does the engine have one claimant, is the contract implemented, does nothing stay Running | two attempts beside the sweep, three crashes, failing restores and reads |
| `transaction_faulty` | once only, cancel is final, no hidden change in the family whose evidence is a manifest | a row merge, three attempts beside the sweep, three crashes, failing restores and reads |
| `jobs_restart` | no overlap, honest statuses, is the contract of a record implemented, records settle | two jobs, three kinds of request, a lazy reader, two restarts, a startup window of one record |
| `jobs_clear` | one effect per key, are recovery records kept and interrupted ones shown, and is the contract of a record implemented: no outcome overwritten, nothing cleared written back | two jobs, a lazy reader, a restart, clear, prune and tail pruning |
| `contract_workflow` | one runner per workflow, no lock taken away, none left behind but by a failed release or a death, waits that end and outlast a dead holder | three jobs of one workflow in two processes of one host, one of them fail-fast with no wait; acquires and releases may fail |
| `job_children` | do job, children and transaction agree, is the first settlement last, does it come | two children, one read-only, a parent that goes on after a failure, one crash |
| `job_cancelled` | violated: Cancelled means unchanged | the same; no crash needed |
| `registry_keys` | one change per key, is the contract of a replayed key implemented, durable outcomes survive a burst | a step and a relocation sent twice each (one with another payload), an import, a cap of one, one crash |
| `carrier_claims` | one claim, an owner for it, imported means delivered, background keeps off, stuck rows move | two runs of the download, two imports (one from Review), a preflight, one fault (a crash or a lost write) |

Type correctness is in no run: it is a theorem of every module
(`TypeCorrect`, `TypesKept`) for every value of the constants. The
inductive invariants are theorems as well.

### The bounds

Two attempts are every pair of racing requests (an apply or rollback against
another), beside the sweep and a cancel, and `transaction_faulty` has a third
one to spare. The third lock attempt lets two share a process and a third, with
a process of its own, wait. Three keys give library-global, a coarser and a finer key. Two or
three crashes give a crash during the recovery from a crash. Two jobs suffice
for duplicates, for a window of one with a tail of one, and for a key whose job
is cleared or pruned. A key that falls out of the startup window takes three
jobs, and is left to the theorem `KeysStartOnce` and to section 5. The third job
of `contract_workflow` is the resume in the next process. `Ttl = 1` with
`Wait = 2` is the relation of the code's constants (the wait outlasts the ttl).
Two children give one that ended before the one that is cancelled. Two requests
for one key are a call and its retry, and a cap of one makes the second final
record evict. Two imports are what a claim keeps apart. The sizes of the sets,
`MaxNest`, `MaxCrash`, `MaxDownload`, `MaxScan` and `MaxFault` are the only
bounds; the theorems hold for every value of all of them.

### The fairness, and why the code justifies it

* Locks: threads keep running and blocks end; entering the registry is strongly
  fair, since the mutex is polled every 5 ms and held for moments; heartbeats
  of *dead* processes expire. No fairness is given to deaths, requests or
  heartbeats.
* Transactions: an attempt that has begun goes on until it returns or the
  process dies; the sweep runs after every start. Nobody has to approve, apply
  or roll back.
* Jobs: job threads run to their end; the boot, the tail sweep, a load that
  has begun and a clear that holds the lock go on. Nobody has to start, get,
  cancel or clear anything.
* Job contract: a job's thread goes on, its work ends, and time passes while a
  job waits (`TimePasses`: the deadline is one of the wall clock, which no number
  of polls stops). Nobody has to cancel, to send a heartbeat or to die, and a
  release may always fail.
* Job transactions: the hook's thread goes on; the deadline of a wait passes
  (strongly fair: the wait leaves and enters its poll); the next process loads
  its records, and the reconcile is called again and again. Children need not end.
* Carrier: an import that has begun goes on and gets the slot in its turn
  (strongly fair: the slot is taken and freed); the advancer is scheduled for
  ever and finds the row whenever it is there to be found. Nobody has to
  download, to confirm or to scan.

Deadlock is not checked: attempts end, jobs run out and the crash bound is
reached, so a finished system has nothing left to do.

## 4. What is proved

All for any sets of attempts, keys, jobs, requests and imports (lock owners
finitely many), any nesting and any number of crashes, unless an assumption is
named.

**`ResourceLocksProofs`.** `TypeCorrect` is unconditional. The others assume
`Sound`: no registry mutex is broken by age, and all processes are on one host;
deaths anywhere, torn files, a busy registry and failing acquires are allowed.
A death inside the registry section then blocks later calls, and what was
granted before stays granted: the theorems say nothing of what the break after
30 seconds admits, which `locks_mutex_age` shows. `InvariantHolds` is the inductive invariant `IndInv`:
one owner in the registry section (`OneInRegistry`), a count for every
enclosing hold and for every key of the call under way (`CountsKept`), every
counted key in its owner's file (`CountedKeysMine`), all files pairwise
compatible (`FilesCompatible`), and no rival while files are created
(`NoRivalInLoop`). Exclusion by itself is not inductive: it survives an acquire
only because a granted key is counted, a counted key has its file, and files
are compatible. From it follow `GrantsAreBacked`, `LocksExclude`,
`LiveLocksAreKept` and, step by step, `LocksImplementService`.
`WaitsNeverCycle` adds `WaitersInOrder` (an attempt that waits still satisfies
the order its acquire checked): of two waiting attempts, the one that waits for
the other has its keys below one that the other holds (`Above`), and a finite
set of waiters ordered so has an attempt that waits for none of them.

**`EngineTransactionProofs`.** No theorem assumes anything of the sweep, the
restores or the reads. For both families: `TypeCorrect`; `OnceHolds`
(`AtMostOnce`: whoever is past the locks holds them, and Approved is never
entered again once claimed), from it `MutationOnce` and `CancelIsFinal`; and
`ChangesAreShown`. For the replacement, whose rollback is claimed
(`Replacement`: the family, nothing else): `TruthHolds`, whose invariant
`Truthful` says, until the sweep has written beside an attempt, what is known of
the library at each program point (`PhaseKnows`), what each status implies
(`StatusKnows`), and what a sweep may rely on that no attempt came beside
(`SweepKnows`, `InFlight`); from it `SuccessIsReal`, `EngineIsClaimed` and the
refinement `ImplementsContract`. `SuccessIsReal` and the others are not true of
the row merge, which changes the library before the status: section 5. Its
invariant is another one: several rollbacks may be past the checks, Completed
says nothing about the library, and a rollback still says Rolled Back only over
the original (`RowTruthful`, of `RowStatus`, `RowSweep`, `RowPhase`;
`RowTruthHolds`). The two together give `ChangesAreShown`. A sweep that an
attempt comes beside is harmless until it writes, as it only reads; that it is
harmless when no attempt came beside it needs that nobody moves the status
without the locks while it is Running.

**`JobStoreProofs`.** All unconditional, with clears, prunes, readers and any
startup window. `OneAtATime` rests on `Held` (a working thread's job is in the
table and says running). The inductive invariant of the others is `Sound`, of
two halves. `Follows` is about objects: a job nobody asked for leaves no trace
(`Unasked`), an own object in the table is that of a job of this process
(`Mine`), a loader that resolves has its object in the table (`Resolving`), a
record is what the table shows (`Current`, `Resolved`), and what waits to be
deleted is under nobody (`Dropped`), each but for stale jobs. `Honest` is about
what is said: success only of work that is done (`SuccessesDone`), cancelled
only of a request that was seen (`CancelsSeen`), recovery_required only of a
mutating job whose process died (`RecoveriesDead`, `RanUntilDeath`). A step
changes a record in three ways only (`DiskMoves`): not at all, to what the table
shows, or by a deletion, which is harmless (`DeletesHarmless`). A stale job has
ended or died (`StaleDone`), so that none ever works. From these follow
`EndsStayEnded`, `InterruptedAreShown`, `RecoveriesAreKept`, `ClearedAreGone`,
`StatusesAreHonest`, and, with `AtWork` (a function that runs is on record as
running), the refinement `RecordsKeepContract`. The invariant of `KeysStartOnce`
(`Keys`) is that an effect implies a record (`Saved`), a record implies an entry
once the store serves (`Known`), and a key has one job (`OneOfKey`), for jobs
that have not lapsed; `LapsedFirst` says that what a start left to the tail
sweep has.

**`JobContractProofs`.** `TypeCorrect`, `NoLockWithoutJob`, `KilledLeavesNothing`
and `DeadNeverOutlasts` are unconditional; `NeverTwoRunners` and
`RunningKeepsLocks` assume `OneHostName` (one host, as `release_interrupted` and
`is_stale` can only see the processes of their own). The invariant: a running
job's process is alive (`ThreadsLive`), what died shows as such
(`DeadAreDead`), a job at its work has named its locks (`WorkIsNamed`), files
are of the job's own keys (`OwnKeys`) and have a job that runs, died or could
not release (`FilesHaveJobs`), no heartbeat is younger than its dead process (`DeadAge`),
and on one host a running job has all its files (`FilesHeld`), from which
exclusion follows as a file has one owner.

**`JobTransactionProofs`.** All unconditional, for any number of children,
read-only or not. The invariant says at each point of the thread what the
transaction (`TxPhase`) and the job's record (`RecPhase`) may be, that a verdict
follows the notes of the wait (`Decided`), that the notes know of every child
that may be at work (`ChildrenKnown`) and of what the stopped ones reported
(`StoppedKnown`). From it follow `RecordsNeverContradict`, `FinalHasNoChildren`,
`CancelledIsClean`, `FirstSettlesLast` and `DeadNeedsRecovery`.

**`EngineRegistryProofs`.** `TypesKept` and `OutcomesAreSaved` are
unconditional; `KeyRunsOnce` assumes `NoRace`, no prune between the two calls of
one precheck; `BurstsKeepDurable` and the refinement `RegistryKeepsContract` also
assume `SavesWork`, that the file can be written. The invariant: who runs a
locked operation holds the lock (`LockHeld`), nothing durable is in memory
before the file is loaded (`OnlyLoaded`), the file has durable records only
(`FileFinal`), a success has an effect (`SuccessTrue`, `SuccessKnown`), who was
answered is done (`AnswersLast`), finitely many keys have a record
(`FewRecords`, for the caps), and, without the race, a precheck that saw a
record still has it (`SeenStays`), a running request owns its record (`Owned`)
and a remembered effect has one (`Remembered`).

**`RecoveryCarrierProofs`.** All unconditional: `TypeCorrect`, `ClaimOwned`,
`OneImportClaims`, `NeverFalselyImported`, `BackgroundNeverMoves`. The invariant
adds to `ClaimHasOwner` that who is fresh has read a state it may move from
(`FreshIsOpen`), that everybody past the claim has the claim unless a blind
write took it (`ClaimersHold`), and what an import at each point knows of the
album (`Delivery`).

**Only model-checked:** the liveness properties (`WaiterServed`,
`RunningResolved`, `RecordSettles`, `WaitEnds`, `TxSettles`, `StuckAdvances`):
fairness and ENABLED are out of the prover's reach. Every other property of a
passing run is stated by a theorem. No recursive definition is used.

## 5. Disagreements between the code and what it says

Each of these is a violated run and a finding in `PROJECT.json`:

1. *Breaking an old registry mutex can admit two* (`resource_locks.py:141`):
   `stat` and `unlink` are two steps, and the second removes whatever file has
   the name by then. Needs a death inside the registry section.
2. *A cancelled import-all may have changed the library*
   (`routes_library.py:2671`): the wait for a child that succeeded notes no
   change on the parent, and a cancel that is seen before the next child then
   settles the transaction as Cancelled. `CHANGELOG.md:621` promises Cancelled
   only when nothing was changed. `CancelledBeforeChange` is what does hold: of
   the children whose wait the cancel ended, none had changed anything.

### Known gaps the runs leave out by their constants

The others were found with the same models, with a constant or one conjunct
changed as named:

* *Row merge rollback without a claim* (`album_row_merge.py:322`): the restore
  comes before the status, so a crash between them leaves Completed over a
  restored library. `Family = "row_merge"`, `NoFalseSuccess`.
* *The sweep may write over a live apply* (`transaction_recovery.py:110`): it
  decides from a copy, without lock or compare-and-set, in a thread beside the
  requests. `NoHiddenChange` without `~overtook`: it reads an apply of its own
  process between the claim and the engine request, concludes that nothing was
  sent and writes Failed while the apply goes on to change the library.
* *A failed restore is recorded as one that worked* (`replace_ops.py:228`):
  `NoHiddenChange` without `unrestored`.
* *A read of Beets that raises leaves Running* until the next restart
  (`album_row_merge.py:246`), and a row merge's rollback that cannot read leaves
  Completed over a restored library (325): `RunningResolved` without `unread`.
* *A release that fails blocks its workflow* (`job_contract.py:170-173` swallows
  it, `resource_locks.py:147` raises it): the files stay under a live process,
  which no other process may reclaim, and each later job of the workflow ends as
  busy until that process does, although line 8 says the job holds the lock "for
  as long as it runs". `NothingLeftLocked` without `"unreleased"`.
* *An idempotency key can be forgotten while its record is retained*
  (`job_engine.py:765`): only the table is searched, and a restart loads only
  the newest records, while lines 34-36 promise that the same key never starts a
  second job "also after a restart, while the record is retained".
  `EffectOncePerKey` without `lapsed`, in `JobStore_clear.cfg` with three jobs,
  `Clearing = FALSE`, `Reader = {}`: a keyed import, an edit that fills the window
  of one, a restart, the import again.
* *A cleared job is written back* (`job_engine.py:646`) by a lazy load that read
  its record just before, although line 578 says "A cleared or pruned job is
  never written back": `ClearedStaysCleared` over all jobs, `JobStore_clear.cfg`.
* *A finished job is shown as interrupted* (`job_engine.py:657`, `923`) when it
  is cleared between its finish and its final save and read back:
  `StatusHonest` over all jobs, `JobStore_clear.cfg`. Such a job may also be
  recorded as recovery_required, and the deletion that the clear still owes then
  takes that record away (`RecoveryKept` over all jobs). These are the `stale` jobs, and every property of `JobStore` about a
  job's record has them as its only exception.
* *A torn key file locks its key for ever* (`resource_locks.py:213`), against
  `job_contract.py:9-10`. `WaiterServed` admits this one end of a wait
  (`FailsOnTorn`); without that disjunct `locks_liveness` finds it. After such a
  file, an acquire of two keys that fails on it keeps the other key's file in a
  live process (`CreateFails`; `hold`, line 296, promises "always release").
* *A holder on another host loses its locks* to a restart
  (`resource_locks.py:268`, `job_contract.py:85`): `HostOf <- TwoHosts` in
  `JobContract_workflow.cfg`, `LiveHolderKeeps`.
* *A prune inside a precheck runs a key twice* (`operations.py:1368`):
  `Faults = {"prune-race"}` and a third request for one key, `OncePerKey` and
  `ReplaySpec`.
* *A download writes over a live claim* (`import_service.py:423-424` relies on
  the state alone): the parent of a Review import stops waiting, a download that
  began earlier lands and advances the row without a revision, and a second
  import claims it. `OneClaim` without the disjunct `overwrote`.
* *A claim can stay `importing` for ever*: after a crash, when Beets is
  unavailable at the precheck, when the album is gone at the merge
  (`import_service.py:721`), or when the last write is lost. The advancer and
  later imports keep off such a row; `claim = "left"` marks it.
* *A carrier can be handed off for ever* (`recovery_service.py:180-184`): an
  import that ends before it looks at the carrier, which a preflight that always
  refuses does (`import_service.py:1955-2024`), leaves `verifying`, and the
  advancer starts another one at its next run, with no limit and no note on the
  carrier. `StuckAdvances` without `AlwaysEndsEarly`.

Seen in the code and in no model: the inventory's owner string is the second it
started in (`library_integrity_service.py:50`); `save()` swallows write errors,
so with a full disk the work runs without a record (`job_engine.py:327`); the
sweep asks for 1000 Running transactions and the store's page is clamped to 500
(`transaction_recovery.py:207`).

## 6. Plan

Done: locks, one engine-backed transaction of two families, jobs, the job
contract, job transactions with children, the engine's registry, the recovery
carrier, and the proofs of each; the locks, the replacement, the job records and
the replayed keys implement abstract specifications.

Left, in this order:

1. Further families of `EngineTransaction`: reviewed cleanup, untracked
   recovery, relocation with its `unchanged` evidence, resumable folder
   rollback; the sweep's branches for them.
2. The maintenance runner and Clean All with its checkpoint, on top of
   `JobContract`.
3. The AI batch state and the pending review documents.
4. The pages of the transaction store (the clamp above).
5. `EngineTransaction` over `ReplayContract`: its engine's keys as an instance
   of the contract that `EngineRegistry` implements.
6. Abstract specifications of a job's transaction and of a carrier, with the
   refinements proved; `NoFalseSuccess` of the row merge without crashes.
