------------------------------ MODULE JobStore ------------------------------
(***************************************************************************)
(* job_engine.JobStore with a persistence directory: jobs that run in      *)
(* threads, their records on disk, duplicate starts, the restart that      *)
(* resolves what a crash interrupted, lazy loading and clearing.           *)
(*                                                                         *)
(* A job exists as objects: the one its thread runs on ("own"), and after  *)
(* a restart or a clear the one a loader reads back from the record, named *)
(* by the loader.  The store's table holds one of them, and only that one  *)
(* is ever written to disk.                                                *)
(***************************************************************************)
EXTENDS Naturals, FiniteSets

CONSTANTS
    Job,            \* job ids, handed out once
    Request,        \* what clients ask for: a fingerprint
    Keyed,          \* the requests that carry an Idempotency-Key
    ReadOnly,       \* the requests whose job is read-only
    Cancelled,      \* bound: the requests whose jobs somebody may cancel
    Reader,         \* request threads that may get() a job
    StartupLimit,   \* JOB_STARTUP_LOAD_LIMIT
    Clearing,       \* may jobs be cleared or pruned?
    MaxCrash        \* bound on crashes

ASSUME NoneAssumption == "none" \notin Job \cup Request
ASSUME KeyedAssumption == Keyed \subseteq Request
ASSUME ReadOnlyAssumption == ReadOnly \subseteq Request /\ Cancelled \subseteq Request
ASSUME BoundAssumption == StartupLimit \in Nat /\ MaxCrash \in Nat
ASSUME ReaderAssumption == Reader \cap {"none", "own", "boot", "tail"} = {}

VARIABLES
    request,    \* the request that started a job, or "none"
    thread,     \* where the job's thread is
    effect,     \* what its function has done: "none", "some" or "all"
    killed,     \* its cancel signal: "no", "requested" or "observed"
    own,        \* the status of its own object
    entry,      \* the object in the store's table: "none", "own" or a loader
    copy,       \* the status of a loaded object, while it is in the table
    disk,       \* the status in its record, or "none"
    newer,      \* <<i, j>>: the record of i was modified after that of j
    beat,       \* the job the heartbeat is about to save, and its object
    loader,     \* what each loader is doing
    todo,       \* the records the boot has still to load
    tail,       \* ... and those it leaves to the tail sweep
    removed,    \* cleared jobs whose record is still to be deleted
    locked,     \* clear_finished holds the store's lock
    crashes,
    lapsed,     \* (history) jobs that a start left to the tail sweep, or that
                \* were taken out of the table: their keys are not met again
    stale       \* (history) jobs loaded from a record that no longer held, or
                \* whose record went from under the object that was loaded

job == <<request, thread, effect, killed, own>>
table == <<entry, copy>>
record == <<disk, newer>>
startup == <<todo, tail>>
cleared == <<removed, locked>>
past == <<crashes, lapsed, stale>>
vars == <<job, table, record, beat, loader, startup, cleared, past>>

Terminal == {"success", "failed", "cancelled", "recovery_required"}
Prunable == Terminal \ {"recovery_required"}
Loader == Reader \cup {"boot", "tail"}
Loading(at, j, status) == [at |-> at, job |-> j, status |-> status]
Idle == Loading("idle", "none", "none")
Beat(j, object) == [job |-> j, object |-> object]
NoBeat == Beat("none", "none")
Serving == todo = {} /\ loader["boot"] = Idle

Status(j) == CASE entry[j] = "none" -> "none" [] entry[j] = "own" -> own[j] [] OTHER -> copy[j]
MutantClearAnyTerminal == {j \in Job : Status(j) \in Terminal}
Finished == {j \in Job : Status(j) \in Prunable}

Init ==
    /\ request = [j \in Job |-> "none"] /\ thread = [j \in Job |-> "none"]
    /\ effect = [j \in Job |-> "none"] /\ killed = [j \in Job |-> "no"]
    /\ own = [j \in Job |-> "none"] /\ entry = [j \in Job |-> "none"]
    /\ copy = [j \in Job |-> "none"] /\ disk = [j \in Job |-> "none"]
    /\ newer = {} /\ beat = NoBeat
    /\ loader = [l \in Loader |-> Idle]
    /\ todo = {} /\ tail = {} /\ removed = {}
    /\ locked = FALSE /\ crashes = 0 /\ lapsed = {} /\ stale = {}

-----------------------------------------------------------------------------
(* _write: under the write lock, the current state of the object, and only *)
(* when it is the one in the table; _delete takes the same lock.           *)
Others(j) == {p \in newer : j \notin {p[1], p[2]}}
Put(j, status) ==
    /\ disk' = [disk EXCEPT ![j] = status]
    /\ newer' = Others(j) \cup {<<j, i>> : i \in {k \in Job : k # j /\ disk[k] # "none"}}
MutantWriteAnyway(j, object) == Put(j, IF object = "own" THEN own[j] ELSE copy[j])
Write(j, object) ==
    IF entry[j] = object THEN Put(j, Status(j)) ELSE UNCHANGED record
Delete(j) ==
    /\ disk' = [disk EXCEPT ![j] = "none"]
    /\ newer' = Others(j)

(* find_duplicate: a key's job in any status, else an identical request's  *)
(* running one; read-only jobs are exempt.                                 *)
MutantNoFingerprint(r) == r \in Keyed /\ \E j \in Job : entry[j] # "none" /\ request[j] = r
Duplicate(r) ==
    \E j \in Job : /\ entry[j] # "none" /\ request[j] = r
                   /\ r \in Keyed \/ (r \notin ReadOnly /\ Status(j) = "running")

(* start_python, up to the end of its critical section. *)
Start(j, r) ==
    /\ Serving /\ ~locked /\ request[j] = "none" /\ ~Duplicate(r)
    /\ request' = [request EXCEPT ![j] = r]
    /\ own' = [own EXCEPT ![j] = "running"]
    /\ entry' = [entry EXCEPT ![j] = "own"]
    /\ thread' = [thread EXCEPT ![j] = "start"]
    /\ UNCHANGED <<effect, killed, copy, record, beat, loader, startup, cleared, past>>

Moves(j, from, to) == thread[j] = from /\ thread' = [thread EXCEPT ![j] = to]

(* thread.start() raises: the job has failed. *)
StartFails(j) ==
    /\ Moves(j, "start", "save") /\ own' = [own EXCEPT ![j] = "failed"]
    /\ UNCHANGED <<request, effect, killed, table, record, beat, loader, startup, cleared, past>>

(* PythonJob._run: the record is written, then the function is called. *)
MutantWorkFirst(j) ==
    /\ Moves(j, "start", "work")
    /\ UNCHANGED <<request, effect, killed, own, table, record, beat, loader, startup, cleared, past>>
FirstSave(j) ==
    /\ Moves(j, "start", "work") /\ Write(j, "own")
    /\ UNCHANGED <<request, effect, killed, own, table, beat, loader, startup, cleared, past>>

Act(j) ==
    /\ thread[j] = "work" /\ effect[j] = "none" /\ effect' = [effect EXCEPT ![j] = "some"]
    /\ UNCHANGED <<request, thread, killed, own, table, record, beat, loader, startup, cleared, past>>

(* The function looks at its cancel signal. *)
Observe(j) ==
    /\ thread[j] = "work" /\ killed[j] = "requested"
    /\ killed' = [killed EXCEPT ![j] = "observed"]
    /\ UNCHANGED <<request, thread, effect, own, table, record, beat, loader, startup, cleared, past>>

Returns(j) ==
    /\ effect[j] = "some" /\ effect' = [effect EXCEPT ![j] = "all"]
    /\ Moves(j, "work", "returned")
    /\ UNCHANGED <<request, killed, own, table, record, beat, loader, startup, cleared, past>>

Raises(j) ==
    /\ Moves(j, "work", "raised")
    /\ UNCHANGED <<request, effect, killed, own, table, record, beat, loader, startup, cleared, past>>

(* cancel_honoured decides; the status turns terminal before it is saved.  *)
MutantRequestedIsCancelled(j) ==
    CASE killed[j] # "no" -> "cancelled"
      [] killed[j] = "no" /\ thread[j] = "returned" -> "success"
      [] OTHER -> "failed"
OutcomeOf(j) ==
    CASE killed[j] = "observed" -> "cancelled"
      [] killed[j] # "observed" /\ thread[j] = "returned" -> "success"
      [] OTHER -> "failed"
Finish(j) ==
    /\ own' = [own EXCEPT ![j] = OutcomeOf(j)]
    /\ Moves(j, "returned", "save") \/ Moves(j, "raised", "save")
    /\ UNCHANGED <<request, effect, killed, table, record, beat, loader, startup, cleared, past>>

FinalSave(j) ==
    /\ Moves(j, "save", "ended") /\ Write(j, "own")
    /\ UNCHANGED <<request, effect, killed, own, table, beat, loader, startup, cleared, past>>

(* kill: sets the signal of the object in the table and saves it. *)
Kill(j) ==
    /\ Serving /\ entry[j] # "none" /\ killed[j] = "no" /\ request[j] \in Cancelled
    /\ killed' = [killed EXCEPT ![j] = IF entry[j] = "own" THEN "requested" ELSE @]
    /\ Write(j, entry[j])
    /\ UNCHANGED <<request, thread, effect, own, table, beat, loader, startup, cleared, past>>

(* _heartbeat_loop: a job seen running is saved a moment later.            *)
BeatSees(j) ==
    /\ beat = NoBeat /\ Status(j) = "running" /\ beat' = Beat(j, entry[j])
    /\ UNCHANGED <<job, table, record, loader, startup, cleared, past>>
MutantBeatSavesRunning ==
    /\ beat # NoBeat /\ beat' = NoBeat
    /\ IF entry[beat.job] # beat.object THEN UNCHANGED record ELSE Put(beat.job, "running")
    /\ UNCHANGED <<job, table, loader, startup, cleared, past>>
BeatSaves ==
    /\ beat # NoBeat /\ beat' = NoBeat
    /\ Write(beat.job, beat.object)
    /\ UNCHANGED <<job, table, loader, startup, cleared, past>>

-----------------------------------------------------------------------------
(* _load_path: the record is read without a lock, put in the table unless  *)
(* the job is there, and resolved when it says that the job still runs.    *)
Reads(l, j) ==
    /\ loader[l] = Idle
    /\ loader' = [loader EXCEPT ![l] = IF disk[j] = "none" THEN Idle
                                       ELSE Loading("insert", j, disk[j])]

(* get() of a job that is not in the table. *)
Get(l, j) ==
    /\ Serving /\ l \in Reader /\ entry[j] = "none" /\ disk[j] # "none"
    /\ Reads(l, j)
    /\ UNCHANGED <<job, table, record, beat, startup, cleared, past>>

Insert(l) ==
    /\ loader[l].at = "insert" /\ ~locked
    /\ LET j == loader[l].job
           new == entry[j] = "none"
           fresh == thread[j] = "none" /\ j \notin removed /\ disk[j] = loader[l].status
       IN /\ entry' = [entry EXCEPT ![j] = IF new THEN l ELSE @]
          /\ copy' = [copy EXCEPT ![j] = IF new THEN loader[l].status ELSE @]
          /\ loader' = [loader EXCEPT ![l] =
                 IF new /\ loader[l].status = "running" THEN Loading("resolve", j, "none") ELSE Idle]
          /\ stale' = IF new /\ ~fresh THEN stale \cup {j} ELSE stale
    /\ UNCHANGED <<job, record, beat, startup, cleared, crashes, lapsed>>

(* _resolve_interrupted. *)
MutantInterruptedIsFailed(j) == "failed"
Interrupted(j) == IF request[j] \in ReadOnly THEN "failed" ELSE "recovery_required"
Resolve(l) ==
    /\ loader[l].at = "resolve"
    /\ copy' = [copy EXCEPT ![loader[l].job] = Interrupted(loader[l].job)]
    /\ loader' = [loader EXCEPT ![l] = Loading("save", loader[l].job, "none")]
    /\ UNCHANGED <<job, entry, record, beat, startup, cleared, past>>
SaveResolved(l) ==
    /\ loader[l].at = "save" /\ Write(loader[l].job, l)
    /\ loader' = [loader EXCEPT ![l] = Idle]
    /\ UNCHANGED <<job, table, beat, startup, cleared, past>>

(* _recover loads the newest records before the store serves; the tail     *)
(* sweep resolves what is left and may delete an old finished record.      *)
Newest(j, S) == j \in S /\ \A i \in S : <<i, j>> \notin newer
Boot(j) ==
    /\ Newest(j, todo) /\ todo' = todo \ {j} /\ Reads("boot", j)
    /\ UNCHANGED <<job, table, record, beat, tail, cleared, past>>
MutantSweepSkips(j) ==
    /\ Serving /\ loader["tail"] = Idle /\ Newest(j, tail) /\ tail' = tail \ {j}
    /\ UNCHANGED <<job, table, record, beat, loader, todo, cleared, past>>
SweepTail(j) ==
    /\ Serving /\ loader["tail"] = Idle /\ Newest(j, tail) /\ tail' = tail \ {j}
    /\ IF disk[j] = "running"
       THEN Reads("tail", j) /\ UNCHANGED <<record, stale>>
       ELSE /\ UNCHANGED loader
            /\ \/ UNCHANGED <<record, stale>>
               \/ /\ Clearing /\ disk[j] \in Prunable /\ Delete(j)
                  /\ stale' = IF entry[j] = "none" THEN stale ELSE stale \cup {j}
    /\ UNCHANGED <<job, table, beat, todo, cleared, crashes, lapsed>>

(* Jobs leave the table. *)
Drop(S) ==
    /\ entry' = [j \in Job |-> IF j \in S THEN "none" ELSE entry[j]]
    /\ copy' = [j \in Job |-> IF j \in S THEN "none" ELSE copy[j]]
    /\ lapsed' = lapsed \cup S

(* prune_finished drops some finished jobs from the table under the        *)
(* store's lock, and deletes their records after it.                       *)
Prune ==
    /\ Clearing /\ Serving /\ ~locked
    /\ \E S \in (SUBSET Finished) \ {{}} :
         Drop(S) /\ removed' = removed \cup S
    /\ UNCHANGED <<job, record, beat, loader, startup, locked, crashes, stale>>

(* clear_finished asks for the statuses twice: for the jobs whose records  *)
(* it deletes, then for those it keeps.  Jobs finish in between.           *)
ClearLists ==
    /\ Clearing /\ Serving /\ ~locked /\ locked' = TRUE
    /\ removed' = removed \cup Finished
    /\ UNCHANGED <<job, table, record, beat, loader, startup, past>>
ClearDrops ==
    /\ locked /\ locked' = FALSE /\ Drop(Finished)
    /\ UNCHANGED <<job, record, beat, loader, startup, removed, crashes, stale>>
ClearDelete(j) ==
    /\ j \in removed /\ ~locked /\ removed' = removed \ {j} /\ Delete(j)
    /\ UNCHANGED <<job, table, beat, loader, startup, locked, past>>

-----------------------------------------------------------------------------
(* The records the boot loads: the newest ones, or all of them for 0.      *)
Recorded == {j \in Job : disk[j] # "none"}
Window == IF StartupLimit = 0 THEN Recorded
          ELSE {j \in Recorded : Cardinality({i \in Job : <<i, j>> \in newer}) < StartupLimit}

(* The process dies, and the next one starts. *)
Crash ==
    /\ crashes < MaxCrash /\ crashes' = crashes + 1
    /\ thread' = [j \in Job |-> "none"] /\ own' = [j \in Job |-> "none"]
    /\ killed' = [j \in Job |-> "no"]
    /\ entry' = [j \in Job |-> "none"] /\ copy' = [j \in Job |-> "none"]
    /\ beat' = NoBeat /\ loader' = [l \in Loader |-> Idle]
    /\ removed' = {} /\ locked' = FALSE
    /\ todo' = Window /\ tail' = Recorded \ Window /\ lapsed' = lapsed \cup (Recorded \ Window)
    /\ UNCHANGED <<request, effect, record, stale>>

Run(j) ==
    \/ StartFails(j) \/ FirstSave(j) \/ Act(j) \/ Observe(j) \/ Returns(j) \/ Raises(j)
    \/ Finish(j) \/ FinalSave(j)
Load(l) == Insert(l) \/ Resolve(l) \/ SaveResolved(l)

Next ==
    \/ \E j \in Job : \/ \E r \in Request : Start(j, r)
                      \/ \E l \in Reader : Get(l, j)
                      \/ Boot(j) \/ SweepTail(j)
                      \/ Run(j) \/ Kill(j) \/ BeatSees(j) \/ ClearDelete(j)
    \/ \E l \in Loader : Load(l)
    \/ BeatSaves \/ Prune \/ ClearLists \/ ClearDrops \/ Crash

Spec == Init /\ [][Next]_vars

(* Job threads run to their end, and a restart loads and sweeps. *)
Fairness ==
    /\ \A j \in Job : WF_vars(Run(j))
    /\ \A l \in Loader : WF_vars(Load(l))
    /\ WF_vars(ClearDrops)
    /\ WF_vars(\E j \in Job : Boot(j)) /\ WF_vars(\E j \in Job : SweepTail(j))
FairSpec == Spec /\ Fairness

-----------------------------------------------------------------------------
Statuses == {"none", "running"} \cup Terminal
Threads == {"none", "start", "work", "returned", "raised", "save", "ended"}
JobType ==
    /\ request \in [Job -> Request \cup {"none"}] /\ thread \in [Job -> Threads]
    /\ effect \in [Job -> {"none", "some", "all"}]
    /\ killed \in [Job -> {"no", "requested", "observed"}]
    /\ own \in [Job -> Statuses]
TableType ==
    /\ entry \in [Job -> {"none", "own"} \cup Loader] /\ copy \in [Job -> Statuses]
DiskType == disk \in [Job -> Statuses] /\ newer \subseteq Job \X Job
LoaderType ==
    loader \in [Loader -> {Idle} \cup
                  [at : {"insert", "resolve", "save"}, job : Job, status : Statuses]]
OtherType ==
    /\ beat \in {NoBeat} \cup [job : Job, object : {"own"} \cup Loader] /\ locked \in BOOLEAN
    /\ todo \subseteq Job /\ tail \subseteq Job /\ removed \subseteq Job
HistoryType == lapsed \subseteq Job /\ stale \subseteq Job
(* Every variable has its type.  (The job objects, the table and the       *)
(* records.)                                                               *)
TypeOK ==
    /\ JobType /\ TableType /\ DiskType /\ LoaderType /\ OtherType /\ HistoryType
    /\ crashes \in 0..MaxCrash

(* "the same Idempotency-Key again returns the job it already started, in  *)
(* any status (also after a restart ...), and never starts a second one":  *)
(* whatever crashes in between, a keyed request changes the library        *)
(* through one job at most, until a start does not load the job's record   *)
(* or a clear or a prune takes the job away.                               *)
OneKey(i, j) == i # j /\ request[i] = request[j] /\ request[i] \in Keyed
EffectOncePerKey ==
    \A i, j \in Job :
        OneKey(i, j) /\ effect[i] # "none" /\ effect[j] # "none" => {i, j} \cap lapsed # {}

(* "an identical request while that job is still running is refused": the  *)
(* functions of two mutating jobs of one request never run at once.        *)
Working(j) == thread[j] \in {"start", "work", "returned", "raised"}
NoOverlap ==
    \A i, j \in Job :
        Working(i) /\ Working(j) /\ request[i] = request[j] /\ request[i] \notin ReadOnly => i = j

(* "A record persisted as running has no live thread in this process, so   *)
(* it was interrupted by the restart": what shows as recovery_required     *)
(* belongs to a process that died, unless it was loaded from a stale read. *)
RecoveryMeansInterrupted ==
    \A j \in Job \ stale :
        "recovery_required" \in {Status(j), disk[j]} => thread[j] = "none" /\ request[j] \notin ReadOnly

(* A job shown or recorded as a success has done all of its work, one that *)
(* is cancelled had seen the request, and recovery_required means dead.    *)
StatusHonest ==
    /\ \A j \in Job : /\ "success" \in {Status(j), disk[j]} => effect[j] = "all"
                      /\ own[j] = "cancelled" => killed[j] = "observed"
    /\ RecoveryMeansInterrupted

(* "a stale 'running' can never land after a finish": for any job that was *)
(* not loaded from a stale read.                                           *)
NoStaleRunning ==
    [][\A j \in Job \ stale : disk[j] \in Terminal => disk'[j] # "running"]_vars

(* A mutating job that a crash interrupted is never recorded as anything   *)
(* but recovery_required: "completion cannot be proven".                   *)
InterruptedIsShown ==
    [][\A j \in Job \ stale :
         disk[j] = "running" /\ thread[j] = "none" /\ request[j] \notin ReadOnly
             => disk'[j] \in {"running", "recovery_required"}]_vars

(* "recovery_required is excluded: the operator must still see and resolve *)
(* it": no clearing, pruning, saving, restart or load loses such a record, *)
(* nor does a job with one go stale.                                       *)
RecoveryKept ==
    [][\A j \in Job \ stale : disk[j] = "recovery_required" =>
         disk'[j] = "recovery_required" /\ j \notin stale']_vars

(* "A cleared or pruned job is never written back", unless it is loaded    *)
(* from a record that was about to be deleted.                             *)
ClearedStaysCleared ==
    [][\A j \in Job \ stale :
         request[j] # "none" /\ entry[j] # "own" /\ disk[j] = "none" => disk'[j] = "none"]_vars

(* What a restart, a client and the operator can rely on (RecordContract): *)
(* a record, with what was asked for and not yet recorded, and what is     *)
(* gone; a job that was loaded from a stale read is astray.                *)
Phase(j) ==
    CASE j \in stale -> "astray"
      [] j \notin stale /\ disk[j] # "none" -> disk[j]
      [] j \notin stale /\ disk[j] = "none" /\ request[j] = "none" -> "unknown"
      [] j \notin stale /\ disk[j] = "none" /\ request[j] # "none" /\ entry[j] = "own" -> "starting"
      [] OTHER -> "gone"
Contract == INSTANCE RecordContract WITH phase <- [j \in Job |-> Phase(j)]
(* Work is done under a record that says running, an outcome is written    *)
(* once and never changed or lost to a late save, and nothing comes back;  *)
(* only a job that was cleared, or that ended unrecorded, goes astray.     *)
RecordSpec == Contract!Spec

(* A record does not say "running" for ever: the thread finishes, or the   *)
(* next start's load or sweep resolves it.                                 *)
RecordSettles == \A j \in Job : disk[j] = "running" ~> disk[j] # "running"
=============================================================================
