--------------------------- MODULE JobTransaction ---------------------------
(***************************************************************************)
(* One mutating job, the transaction the job hook records for it           *)
(* (backend/transaction_service.py), and the child jobs it starts and      *)
(* waits for one after the other (_wait_for_child_job in                   *)
(* backend/job_service.py): cancels, timeouts, children that finish late   *)
(* or whose record is gone, a crash at any step, and the reconcile of the  *)
(* next process.  The job record, the children's records and the           *)
(* transaction survive a crash; everything else is memory.                 *)
(***************************************************************************)
EXTENDS Naturals

CONSTANTS
    Children,       \* how many children the job starts
    ReadOnly,       \* which of them are read-only jobs
    Swallows,       \* the job goes on with the next child after a failure
    MaxCrash        \* bound on crashes

ASSUME ChildAssumption == Children \in Nat /\ ReadOnly \subseteq 1..Children
ASSUME BoundAssumption == Swallows \in BOOLEAN /\ MaxCrash \in Nat

VARIABLES
    tx,         \* the transaction's status, or "none"
    txOld,      \* it was last written before this process started
    linked,     \* it names its job (originating_job)
    rec,        \* the job's record: "none", "running" or a final status
    inMemory,   \* the record is among the jobs of this process
    pc,         \* where the job's thread is
    cur,        \* the child it is at
    ending,     \* why it asked that child to stop, or how its function ended
    cancel,     \* its cancel signal: "no", "requested" or "observed"
    mutated,    \* progress["mutated"] of the wrapper
    unknown,    \* progress["unknown"]
    verdict,    \* the status the wrapper is about to write
    child,      \* the children's records
    asked,      \* their cancel signals
    reported,   \* they published mutation_started
    stopped,    \* the mutating children whose wait a cancel ended
    scanned,    \* this process has loaded every job record
    due,        \* reconcile_due
    tick,       \* what a running reconcile found for the transaction
    crashes

thread == <<pc, cur, ending, verdict>>
progress == <<mutated, unknown>>
children == <<child, asked, reported>>
txRecord == <<tx, txOld, linked>>
jobRecord == <<rec, inMemory>>
reconcile == <<scanned, due, tick>>
vars == <<txRecord, jobRecord, thread, cancel, progress, children, stopped, reconcile, crashes>>

Final == {"Completed", "Failed", "Cancelled", "RecoveryRequired"}   \* "Recovery Required"
Ended == {"success", "failed", "cancelled", "recovery_required"}
Child == 1..Children

Init ==
    /\ tx = "none" /\ txOld = FALSE /\ linked = FALSE
    /\ rec = "none" /\ inMemory = FALSE
    /\ pc = "idle" /\ cur = 0 /\ ending = "none" /\ verdict = "none"
    /\ cancel = "no" /\ mutated = FALSE /\ unknown = FALSE
    /\ child = [c \in Child |-> "none"] /\ asked = [c \in Child |-> FALSE]
    /\ reported = [c \in Child |-> FALSE] /\ stopped = {}
    /\ scanned = FALSE /\ due = TRUE /\ tick = "idle"
    /\ crashes = 0

-----------------------------------------------------------------------------
(* Store writes: every one of them stamps updated_at. *)
WriteTx(status) == tx' = status /\ txOld' = FALSE
Goes(from, to) == pc = from /\ pc' = to

(* start_python_with_transaction: the transaction first, then the thread;  *)
(* a thread that does not start leaves it Failed.                          *)
Create ==
    /\ tx = "none" /\ Goes("idle", "created") /\ WriteTx("Running")
    /\ UNCHANGED <<linked, jobRecord, cur, ending, verdict, cancel, progress, children, stopped, reconcile, crashes>>
StartFails ==
    /\ Goes("created", "over") /\ WriteTx("Failed")
    /\ UNCHANGED <<linked, jobRecord, cur, ending, verdict, cancel, progress, children, stopped, reconcile, crashes>>
StartThread ==
    /\ Goes("created", "started") /\ inMemory' = TRUE
    /\ UNCHANGED <<txRecord, rec, cur, ending, verdict, cancel, progress, children, stopped, reconcile, crashes>>

(* attach_job, on the request's thread, while the job already runs. *)
Attach ==
    /\ inMemory /\ pc \notin {"idle", "created"} /\ ~linked /\ linked' = TRUE /\ txOld' = FALSE
    /\ UNCHANGED <<tx, jobRecord, thread, cancel, progress, children, stopped, reconcile, crashes>>

(* PythonJob._run saves the record and calls the wrapper. *)
Run ==
    /\ Goes("started", "loop") /\ rec' = "running"
    /\ WriteTx("Running")
    /\ UNCHANGED <<linked, inMemory, cur, ending, verdict, cancel, progress, children, stopped, reconcile, crashes>>

Kill ==
    /\ inMemory /\ cancel = "no" /\ rec \notin Ended /\ cancel' = "requested"
    /\ UNCHANGED <<txRecord, jobRecord, thread, progress, children, stopped, reconcile, crashes>>

(* The function looks at its cancel event. *)
Sees == cancel' = IF cancel = "requested" THEN "observed" ELSE cancel

-----------------------------------------------------------------------------
(* The loop over the children.  A failure ends the function, or is logged  *)
(* and the next child is started.                                          *)
Ends(how) == pc' = "ended" /\ ending' = how
Fails(how) ==
    IF Swallows THEN pc' = "loop" /\ ending' = "none" ELSE Ends(how)
Note(m, u) == mutated' = (mutated \/ m) /\ unknown' = (unknown \/ u)

NextChild ==
    /\ pc = "loop" /\ Sees
    /\ IF cancel # "no" THEN Ends("cancelled") /\ UNCHANGED <<cur, child>>
       ELSE IF cur = Children
            THEN (\E how \in {"ok", "error"} : Ends(how)) /\ UNCHANGED <<cur, child>>
            ELSE /\ pc' = "polls" /\ cur' = cur + 1
                 /\ child' = [child EXCEPT ![cur + 1] = "running"]
                 /\ UNCHANGED ending
    /\ UNCHANGED <<txRecord, jobRecord, verdict, progress, asked, reported, stopped, reconcile, crashes>>

(* A child works, reports that it may change the library, and ends; the    *)
(* record of an ended job may be cleared.                                  *)
ChildReports(c) ==
    /\ child[c] = "running" /\ c \notin ReadOnly /\ ~reported[c]
    /\ reported' = [reported EXCEPT ![c] = TRUE]
    /\ UNCHANGED <<txRecord, jobRecord, thread, cancel, progress, child, asked, stopped, reconcile, crashes>>
ChildEnds(c) ==
    /\ child[c] = "running"
    /\ \E s \in {"success", "failed"} \cup (IF asked[c] THEN {"cancelled"} ELSE {}) :
         child' = [child EXCEPT ![c] = s]
    /\ UNCHANGED <<txRecord, jobRecord, thread, cancel, progress, asked, reported, stopped, reconcile, crashes>>
ChildCleared(c) ==
    /\ child[c] \in Ended \ {"recovery_required"} /\ child' = [child EXCEPT ![c] = "gone"]
    /\ UNCHANGED <<txRecord, jobRecord, thread, cancel, progress, asked, reported, stopped, reconcile, crashes>>

(* _wait_for_child_job: each round looks at the cancel event first ... *)
Asks(c) == asked' = [asked EXCEPT ![c] = @ \/ child[c] = "running"]
PollUncancelled ==
    /\ Goes("polls", "looks") /\ cancel = "no"
    /\ UNCHANGED <<txRecord, jobRecord, cur, ending, verdict, cancel, progress, children, stopped, reconcile, crashes>>
PollCancelled ==
    /\ pc = "polls" /\ cancel # "no" /\ Sees
    /\ \/ child[cur] = "gone" /\ Fails("cancelled") /\ Note(TRUE, TRUE) /\ UNCHANGED <<asked, stopped>>
       \/ /\ child[cur] # "gone" /\ cur \in ReadOnly
          /\ Fails("cancelled") /\ Asks(cur) /\ UNCHANGED <<progress, stopped>>
       \/ /\ child[cur] # "gone" /\ cur \notin ReadOnly
          /\ pc' = "settles" /\ ending' = "cancelled" /\ Asks(cur)
          /\ stopped' = stopped \cup {cur} /\ UNCHANGED progress
    /\ UNCHANGED <<txRecord, jobRecord, cur, verdict, child, reported, reconcile, crashes>>

(* ... then at the child's record.  A record that is gone counts as a      *)
(* success when the mirrored log says so.                                  *)
LooksAgain ==
    /\ Goes("looks", "polls") /\ child[cur] = "running"
    /\ UNCHANGED <<txRecord, jobRecord, cur, ending, verdict, cancel, progress, children, stopped, reconcile, crashes>>
ChildSucceeded ==
    /\ Goes("looks", "loop") /\ child[cur] \in {"success", "gone"}
    /\ UNCHANGED <<txRecord, jobRecord, cur, ending, verdict, cancel, progress, children, stopped, reconcile, crashes>>
ChildFailed ==
    /\ pc = "looks" /\ child[cur] \in {"failed", "cancelled", "gone"} /\ Fails("error")
    /\ Note(child[cur] = "gone", child[cur] = "gone")
    /\ UNCHANGED <<txRecord, jobRecord, cur, verdict, cancel, children, stopped, reconcile, crashes>>

(* Past the deadline or idle: _give_up stops a read-only child at once. *)
GiveUp ==
    /\ pc = "looks" /\ child[cur] = "running" /\ Asks(cur)
    /\ IF cur \in ReadOnly THEN Fails("error") ELSE pc' = "settles" /\ ending' = "error"
    /\ UNCHANGED <<txRecord, jobRecord, cur, verdict, cancel, progress, child, reported, stopped, reconcile, crashes>>

(* _settle: the child's real outcome; unknown when it still runs after the *)
(* window or its record is gone.                                           *)
MutantOnlyItsStatus(c) == child[c] = "success"
Changed(c) == child[c] = "success" \/ reported[c]
SettleEnded ==
    /\ pc = "settles" /\ child[cur] \in {"success", "failed", "cancelled"}
    /\ IF ending = "error" /\ child[cur] = "success"
       THEN pc' = "loop" /\ ending' = "none" /\ UNCHANGED progress
       ELSE Fails(ending) /\ Note(Changed(cur), FALSE)
    /\ UNCHANGED <<txRecord, jobRecord, cur, verdict, cancel, children, stopped, reconcile, crashes>>
SettleUnknown ==
    /\ pc = "settles" /\ child[cur] \in {"running", "gone"}
    /\ Fails(ending) /\ Note(TRUE, TRUE)
    /\ UNCHANGED <<txRecord, jobRecord, cur, verdict, cancel, children, stopped, reconcile, crashes>>

-----------------------------------------------------------------------------
(* The wrapper's settle and finish, then the end of the job and its done   *)
(* callback (update_from_job).  Both decide by cancel_honoured.            *)
Honoured == ending = "cancelled" \/ cancel = "observed"
MutantVerdictByRequest ==
    CASE unknown -> "RecoveryRequired"
      [] ~unknown /\ cancel # "no" -> IF mutated THEN "Failed" ELSE "Cancelled"
      [] OTHER -> IF ending = "ok" THEN "Completed" ELSE "Failed"
MutantVerdictForgetsUnknown ==
    CASE Honoured -> IF mutated THEN "Failed" ELSE "Cancelled"
      [] OTHER -> IF ending = "ok" THEN "Completed" ELSE "Failed"
Verdict ==
    CASE unknown -> "RecoveryRequired"
      [] ~unknown /\ Honoured -> IF mutated THEN "Failed" ELSE "Cancelled"
      [] OTHER -> IF ending = "ok" THEN "Completed" ELSE "Failed"
Settle ==
    /\ Goes("ended", "settled") /\ verdict' = Verdict
    /\ WriteTx(tx)
    /\ UNCHANGED <<linked, jobRecord, cur, ending, cancel, progress, children, stopped, reconcile, crashes>>
Finish ==
    /\ Goes("settled", "done") /\ WriteTx(verdict)
    /\ UNCHANGED <<linked, jobRecord, cur, ending, verdict, cancel, progress, children, stopped, reconcile, crashes>>
JobEnds ==
    /\ Goes("done", "saved")
    /\ rec' = CASE Honoured -> "cancelled" [] ~Honoured /\ ending = "ok" -> "success" [] OTHER -> "failed"
    /\ UNCHANGED <<txRecord, inMemory, cur, ending, verdict, cancel, progress, children, stopped, reconcile, crashes>>

Synced ==
    CASE rec = "success" -> "Completed" [] rec = "cancelled" -> "Cancelled"
      [] rec = "recovery_required" -> "RecoveryRequired" [] OTHER -> "Failed"
UpdateFromJob == IF tx = "Running" /\ rec \in Ended THEN WriteTx(Synced) ELSE UNCHANGED <<tx, txOld>>
Callback ==
    /\ Goes("saved", "over") /\ UpdateFromJob
    /\ UNCHANGED <<linked, jobRecord, cur, ending, verdict, cancel, progress, children, stopped, reconcile, crashes>>

-----------------------------------------------------------------------------
(* The process dies, and the next one starts: what it wrote is old now.    *)
Crash ==
    /\ crashes < MaxCrash /\ crashes' = crashes + 1
    /\ txOld' = (tx # "none") /\ inMemory' = FALSE
    /\ pc' = IF pc \in {"idle", "over"} THEN pc ELSE "dead"
    /\ cancel' = "no" /\ mutated' = FALSE /\ unknown' = FALSE
    /\ cur' = 0 /\ ending' = "none" /\ verdict' = "none" /\ stopped' = {}
    /\ child' = [c \in Child |-> IF child[c] = "running" THEN "recovery_required" ELSE child[c]]
    /\ asked' = [c \in Child |-> FALSE]
    /\ scanned' = FALSE /\ due' = TRUE /\ tick' = "idle"
    /\ UNCHANGED <<tx, linked, rec, reported>>

(* Its boot, its tail sweep or a get() loads the job's record. *)
LoadRecord ==
    /\ pc \in {"dead", "over"} /\ rec # "none" /\ ~inMemory /\ inMemory' = TRUE
    /\ rec' = IF rec = "running" THEN "recovery_required" ELSE rec
    /\ UNCHANGED <<txRecord, thread, cancel, progress, children, stopped, reconcile, crashes>>
Scanned ==
    /\ ~scanned /\ (rec = "none" \/ inMemory) /\ scanned' = TRUE
    /\ UNCHANGED <<txRecord, jobRecord, thread, cancel, progress, children, stopped, due, tick, crashes>>

(* reconcile_tick: due again until the scan has finished.  The row is read *)
(* first; a transaction without a job is judged only when it is a wrapper  *)
(* an earlier process left, and again under the store's lock.              *)
MutantOrphanAnyAge == scanned
Orphan == scanned /\ txOld
MutantNoRetry == FALSE
Retry == ~scanned
TickLooks ==
    /\ due /\ tick = "idle" /\ due' = Retry
    /\ tick' = CASE tx # "Running" -> "idle"
                 [] tx = "Running" /\ (inMemory \/ (linked /\ rec # "none")) -> "job"
                 [] tx = "Running" /\ ~inMemory /\ rec = "none" /\ Orphan -> "orphan"
                 [] OTHER -> "idle"
    /\ UNCHANGED <<txRecord, jobRecord, thread, cancel, progress, children, stopped, scanned, crashes>>
TickSyncs ==
    /\ tick = "job" /\ inMemory /\ tick' = "idle" /\ UpdateFromJob
    /\ UNCHANGED <<linked, jobRecord, thread, cancel, progress, children, stopped, scanned, due, crashes>>
TickJudges ==
    /\ tick = "orphan" /\ tick' = "idle"
    /\ IF tx = "Running" /\ Orphan THEN WriteTx("RecoveryRequired") ELSE UNCHANGED <<tx, txOld>>
    /\ UNCHANGED <<linked, jobRecord, thread, cancel, progress, children, stopped, scanned, due, crashes>>

-----------------------------------------------------------------------------
Waits == PollUncancelled \/ PollCancelled \/ LooksAgain \/ ChildSucceeded \/ ChildFailed
         \/ SettleEnded \/ SettleUnknown
Thread == Create \/ StartThread \/ Run \/ NextChild \/ Waits \/ Settle \/ Finish \/ JobEnds \/ Callback
Tick == TickLooks \/ TickSyncs \/ TickJudges

Next == \/ Thread \/ StartFails \/ Attach \/ Kill \/ GiveUp
        \/ \E c \in Child : ChildReports(c) \/ ChildEnds(c) \/ ChildCleared(c)
        \/ LoadRecord \/ Scanned \/ Tick \/ Crash

Spec == Init /\ [][Next]_vars

(* The thread runs, the clock of the wait too, and a restarted process     *)
(* scans and reconciles; children need not end.                            *)
Fairness == /\ WF_vars(Thread) /\ SF_vars(GiveUp)
            /\ WF_vars(LoadRecord) /\ WF_vars(Scanned) /\ WF_vars(Tick)
FairSpec == Spec /\ Fairness

-----------------------------------------------------------------------------
(* Every variable has its type.  (The transaction, the job records and the *)
(* state the hook and the wait keep in memory.)                            *)
RecordType ==
    /\ tx \in {"none", "Running"} \cup Final /\ txOld \in BOOLEAN /\ linked \in BOOLEAN
    /\ rec \in {"none", "running"} \cup Ended /\ inMemory \in BOOLEAN
ThreadType ==
    /\ pc \in {"idle", "created", "started", "loop", "polls", "looks", "settles", "ended",
               "settled", "done", "saved", "over", "dead"}
    /\ cur \in 0..Children /\ (pc \in {"polls", "looks", "settles"} => cur # 0)
    /\ ending \in {"none", "ok", "error", "cancelled"}
    /\ verdict \in {"none", "Completed", "Failed", "Cancelled", "RecoveryRequired"}
    /\ cancel \in {"no", "requested", "observed"} /\ mutated \in BOOLEAN /\ unknown \in BOOLEAN
ChildType ==
    /\ child \in [Child -> {"none", "running", "gone"} \cup Ended]
    /\ asked \in [Child -> BOOLEAN] /\ reported \in [Child -> BOOLEAN] /\ stopped \subseteq Child
OtherType ==
    /\ scanned \in BOOLEAN /\ due \in BOOLEAN /\ tick \in {"idle", "job", "orphan"}
    /\ crashes \in 0..MaxCrash
TypeOK == RecordType /\ ThreadType /\ ChildType /\ OtherType

(* "The parent's transaction is Cancelled only when the child stopped      *)
(* before reporting a library change", for the children whose wait the     *)
(* cancel ended.                                                           *)
CancelledBeforeChange ==
    tx = "Cancelled" => \A c \in stopped : ~reported[c] /\ child[c] \notin {"running", "success"}

(* The same of every child the job has waited for. *)
CancelledMeansUnchanged ==
    tx = "Cancelled" => \A c \in Child : ~reported[c] /\ child[c] \notin {"running", "success"}

(* "Recovery Required when the child was still running": a transaction     *)
(* with any other final status has no child at work behind it.             *)
NoChildLeftBehind ==
    tx \in Final \ {"RecoveryRequired"} => \A c \in Child \ ReadOnly : child[c] # "running"

(* "Job status and the hook-created transaction both use this rule": what  *)
(* the two records say of one run never contradicts.                       *)
RecordsAgree ==
    /\ rec = "success" => tx \in {"Running", "Completed", "RecoveryRequired"}
    /\ rec = "failed" => tx \in {"Running", "Failed", "RecoveryRequired"}
    /\ rec = "cancelled" => tx # "Completed"

(* "Job sync no longer corrects a final status afterwards": of the job's   *)
(* thread, its callback and the reconcile, the first to settle it is last. *)
FinalStays == [][(tx \in Final) => tx' = tx]_vars

(* "The process stopped mid-job: completion cannot be proven": the next    *)
(* process settles an interrupted transaction as Recovery Required only.   *)
InterruptedIsRecovery ==
    [][tx = "Running" /\ pc = "dead" => tx' \in {"Running", "RecoveryRequired"}]_vars

(* No transaction of a job stays Running: not when its child hangs, nor    *)
(* when the process dies before the job has a record.                      *)
TxSettles == tx = "Running" ~> tx \in Final
=============================================================================
