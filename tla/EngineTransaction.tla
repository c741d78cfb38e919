------------------------- MODULE EngineTransaction -------------------------
(***************************************************************************)
(* One engine-backed transaction: its record in the transaction store, the *)
(* apply and rollback attempts that threads make on it, the operation in   *)
(* the Beets engine, crashes of the process both live in, and the recovery *)
(* sweep that runs when the process is back.                               *)
(*                                                                         *)
(* Family is one of the two shapes such a transaction has:                 *)
(*   "replacement"  item_file_replacement: the sweep's evidence is the     *)
(*                  engine's in-memory registry, rollbacks go through      *)
(*                  rollback_guard (composite_workflows.py, replace_ops)   *)
(*   "row_merge"    album_row_merge: the sweep's evidence is a manifest    *)
(*                  written before any change; the rollback calls the      *)
(*                  engine first and moves the status last                 *)
(*                  (album_row_merge.py, merge_ops.py)                     *)
(*                                                                         *)
(* The boot sweep is a thread beside the requests.  An engine restore may  *)
(* fail and a read of Beets may raise at any time: the history variables   *)
(* record it, and what the sweep did beside an attempt, for the properties *)
(* alone.                                                                  *)
(*                                                                         *)
(* Beets is embedded: a crash ends the engine's operation and its registry *)
(* together with the threads.  A dead process's locks count as free: until *)
(* they go stale an attempt is refused as busy, which changes nothing.     *)
(***************************************************************************)
EXTENDS Naturals

CONSTANTS
    Attempt,    \* request threads that may apply or roll back
    Family,
    MaxCrash,   \* bound on crashes
    None

ASSUME FamilyAssumption == Family \in {"replacement", "row_merge"}
ASSUME CrashAssumption == MaxCrash \in Nat
ASSUME NoneAssumption == None \notin Attempt

VARIABLES
    status,     \* the record: its status,
    requested,  \* metadata.engine_request is there,
    result,     \* metadata.engine_result is there,
    rollback,   \* metadata.rollback_request: "none", "open" or "closed",
    mine,       \* ... and it started in the running process
    library,    \* the items and rows the transaction is about
    manifest,   \* the engine's file about the operation
    registry,   \* the engine's in-memory operations: apply and rollback
    holder,     \* the attempt that holds the resource locks, or None
    pc,         \* where each attempt is
    seen,       \* the status an attempt read before it took the locks
    verdict,    \* what an attempt's verification of the library found
    sweep,      \* where the recovery sweep is; "off" when it has returned
    snap,       \* the record as the sweep read it
    decided,    \* the status the sweep is about to write
    applies,    \* history: how often the engine has begun the mutation,
    crashes,
    beside,     \* ... an attempt held the locks since the sweep's read,
    overtook,   \* ... the sweep then wrote a status all the same,
    unrestored, \* ... a restore of the engine failed,
    unread      \* ... a read of Beets failed in the running process

record == <<status, requested, result, rollback, mine>>
engine == <<library, manifest, registry>>
locals == <<seen, verdict>>
sweeper == <<sweep, snap, decided>>
history == <<applies, crashes, beside, overtook, unrestored, unread>>
vars == <<record, engine, holder, pc, locals, sweeper, history>>

NoOperations == [op \in {"apply", "rollback"} |-> "none"]
Snapshot == [requested |-> requested, rollback |-> rollback, mine |-> mine]

Init ==
    /\ status = "Preview" /\ requested = FALSE /\ result = FALSE
    /\ rollback = "none" /\ mine = FALSE
    /\ library = "original" /\ manifest = "none"
    /\ registry = NoOperations
    /\ holder = None
    /\ pc = [a \in Attempt |-> "idle"]
    /\ seen = [a \in Attempt |-> "Preview"]
    /\ verdict = [a \in Attempt |-> FALSE]
    /\ sweep = "read" /\ snap = Snapshot /\ decided = "Recovery Required"
    /\ applies = 0 /\ crashes = 0
    /\ beside = FALSE /\ overtook = FALSE /\ unrestored = FALSE /\ unread = FALSE

Goes(a, from, to) == pc[a] = from /\ pc' = [pc EXCEPT ![a] = to]

(* The attempt ends, by return or by exception: `with hold(...)` releases. *)
Leaves(a, from) == Goes(a, from, "idle") /\ holder' = None

SetRegistry(op, value) == registry' = [registry EXCEPT ![op] = value]
NoteManifest(value) ==
    manifest' = IF Family = "row_merge" THEN value ELSE manifest
ReadFails == unread' = TRUE /\ UNCHANGED <<applies, crashes, beside, overtook, unrestored>>
RestoreFails == unrestored' = TRUE /\ UNCHANGED <<applies, crashes, beside, overtook, unread>>

-----------------------------------------------------------------------------
(* The operator's routes. *)
Approve ==
    /\ status = "Preview" /\ status' = "Approved"
    /\ UNCHANGED <<requested, result, rollback, mine, engine, holder, pc, locals, sweeper, history>>

MutantCancelAnything ==
    /\ status' = "Cancelled"
    /\ UNCHANGED <<requested, result, rollback, mine, engine, holder, pc, locals, sweeper, history>>
Cancel ==
    /\ status \in {"Preview", "Approved"} /\ status' = "Cancelled"
    /\ UNCHANGED <<requested, result, rollback, mine, engine, holder, pc, locals, sweeper, history>>

-----------------------------------------------------------------------------
(* apply_*: the checks before the locks. *)
ApplyStart(a) ==
    /\ status = "Approved" /\ ~result
    /\ Goes(a, "idle", "apply: lock")
    /\ UNCHANGED <<record, engine, holder, locals, sweeper, history>>

TakeLocks(a) ==
    /\ holder = None /\ holder' = a
    /\ Goes(a, "apply: lock", "apply: claim") \/ Goes(a, "rollback: lock", "rollback: claim")
    /\ beside' = TRUE
    /\ UNCHANGED <<record, engine, locals, sweeper, applies, crashes, overtook, unrestored, unread>>

(* ResourceLockConflictError after ten seconds. *)
Busy(a) ==
    /\ holder # None
    /\ Goes(a, "apply: lock", "idle") \/ Goes(a, "rollback: lock", "idle")
    /\ UNCHANGED <<record, engine, holder, locals, sweeper, history>>

(* claim_approved: re-read and compare-and-set under the locks. *)
MutantClaimUnlessApplied == ~result
Claimable == status = "Approved" /\ ~result
Claim(a) ==
    /\ Claimable /\ status' = "Running"
    /\ Goes(a, "apply: claim", "apply: request")
    /\ UNCHANGED <<requested, result, rollback, mine, engine, holder, locals, sweeper, history>>

ClaimLost(a) ==
    /\ ~Claimable
    /\ Leaves(a, "apply: claim")
    /\ UNCHANGED <<record, engine, locals, sweeper, history>>

(* The engine request is recorded before the engine is called. *)
Request(a) ==
    /\ status' = "Running" /\ requested' = TRUE
    /\ Goes(a, "apply: request", "apply: call")
    /\ UNCHANGED <<result, rollback, mine, engine, holder, locals, sweeper, history>>

(* album_row_merge reads Beets' statistics between the two. *)
StatsFail(a) ==
    /\ Family = "row_merge"
    /\ Leaves(a, "apply: request") /\ ReadFails
    /\ UNCHANGED <<record, engine, locals, sweeper>>

(* The engine registers the idempotency key, then validates the request.   *)
EngineAccepts(a) ==
    /\ SetRegistry("apply", "running")
    /\ Goes(a, "apply: call", "apply: begin")
    /\ UNCHANGED <<record, library, manifest, holder, locals, sweeper, history>>

EngineRefuses(a) ==
    /\ SetRegistry("apply", "failed")
    /\ Goes(a, "apply: begin", "apply: raised")
    /\ UNCHANGED <<record, library, manifest, holder, locals, sweeper, history>>

EngineBegins(a) ==
    /\ NoteManifest("applying") /\ library' = "partial"
    /\ applies' = applies + 1
    /\ Goes(a, "apply: begin", "apply: commit")
    /\ UNCHANGED <<record, registry, holder, locals, sweeper>>
    /\ UNCHANGED <<crashes, beside, overtook, unrestored, unread>>

EngineCommits(a) ==
    /\ library' = "changed" /\ manifest' = "applied"
    /\ Goes(a, "apply: commit", "apply: record")
    /\ UNCHANGED <<record, registry, holder, locals, sweeper, history>>

EngineSucceeds(a) ==
    /\ SetRegistry("apply", "succeeded")
    /\ Goes(a, "apply: record", "apply: verify")
    /\ UNCHANGED <<record, library, manifest, holder, locals, sweeper, history>>

(* An exception in the middle: the engine restores what it changed, and    *)
(* reports the operation as failed whether or not the restore worked.      *)
EngineFails(a) ==
    /\ \/ library' = "original" /\ NoteManifest("compensated") /\ UNCHANGED history
       \/ library' = "partial" /\ NoteManifest("recovery_required") /\ RestoreFails
    /\ SetRegistry("apply", "failed")
    /\ Goes(a, "apply: commit", "apply: raised")
    /\ UNCHANGED <<record, holder, locals, sweeper>>

ApplyRaised(a) ==
    /\ status' = "Failed"
    /\ Leaves(a, "apply: raised")
    /\ UNCHANGED <<requested, result, rollback, mine, engine, locals, sweeper, history>>

(* finish_*: verify against live Beets, then record the outcome.  Any      *)
(* identity field may disagree, so a changed library may fail as well.     *)
Verifies(ok) == ok \in BOOLEAN /\ (ok => library = "changed")
Outcome(ok) == IF ok THEN "Completed" ELSE "Recovery Required"

Verify(a) ==
    /\ \E ok \in BOOLEAN : Verifies(ok) /\ verdict' = [verdict EXCEPT ![a] = ok]
    /\ Goes(a, "apply: verify", "apply: write")
    /\ UNCHANGED <<record, engine, holder, seen, sweeper, history>>

(* get_item raises: the transaction stays as it is, which is Running in an *)
(* apply; the row merge's rollback verifies as well.                       *)
VerifyFails(a) ==
    /\ \/ Leaves(a, "apply: verify")
       \/ Family = "row_merge" /\ Leaves(a, "rollback: finish")
    /\ ReadFails
    /\ UNCHANGED <<record, engine, locals, sweeper>>

FinishApply(a) ==
    /\ status' = Outcome(verdict[a]) /\ result' = TRUE
    /\ Leaves(a, "apply: write")
    /\ UNCHANGED <<requested, rollback, mine, engine, locals, sweeper, history>>

-----------------------------------------------------------------------------
(* rollback_*: the checks before the locks. *)
RollbackStart(a) ==
    /\ result
    /\ status \notin {"Preview", "Approved", "Cancelled", "Running", "Rolled Back"}
    /\ Goes(a, "idle", "rollback: lock")
    /\ seen' = [seen EXCEPT ![a] = status]
    /\ UNCHANGED <<record, engine, holder, verdict, sweeper, history>>

(* rollback_guard: eligible_status, and one durable write that claims the  *)
(* transaction and opens the rollback request.                             *)
Eligible == status \in {"Completed", "Recovery Required"} \/ (status = "Failed" /\ result)
MutantRollbackNoClaim(a) ==
    /\ Family = "replacement" /\ Eligible
    /\ rollback' = "open" /\ mine' = TRUE
    /\ Goes(a, "rollback: claim", "rollback: call")
    /\ UNCHANGED <<status, requested, result, engine, holder, locals, sweeper, history>>
RollbackClaim(a) ==
    /\ Family = "replacement" /\ Eligible
    /\ status' = "Running" /\ rollback' = "open" /\ mine' = TRUE
    /\ Goes(a, "rollback: claim", "rollback: call")
    /\ UNCHANGED <<requested, result, engine, holder, locals, sweeper, history>>

RollbackRefused(a) ==
    /\ Family = "replacement" /\ ~Eligible
    /\ Leaves(a, "rollback: claim")
    /\ UNCHANGED <<record, engine, locals, sweeper, history>>

(* rollback_album_row_merge has no claim: it calls the engine at once.     *)
RollbackUnclaimed(a) ==
    /\ Family = "row_merge"
    /\ Goes(a, "rollback: claim", "rollback: call")
    /\ UNCHANGED <<record, engine, holder, locals, sweeper, history>>

(* The engine can restore only what its manifest recorded and the library  *)
(* still shows; a failed attempt's key replays the failure until restart.  *)
Restorable ==
    /\ manifest = "applied" /\ registry["rollback"] = "none"
    /\ library = "changed" \/ (Family = "replacement" /\ library = "partial")
RollbackBegins(a) ==
    /\ Restorable
    /\ library' = "partial" /\ SetRegistry("rollback", "running")
    /\ Goes(a, "rollback: call", "rollback: commit")
    /\ UNCHANGED <<record, manifest, holder, locals, sweeper, history>>

(* A finished row merge rollback replays its recorded result. *)
RollbackReplays(a) ==
    /\ Family = "row_merge" /\ manifest = "rolled_back"
    /\ Goes(a, "rollback: call", "rollback: finish")
    /\ UNCHANGED <<record, engine, holder, locals, sweeper, history>>

(* Refused: not Restorable, or the files or rows drifted since the apply.  *)
RollbackNotRun(a) ==
    /\ manifest # "rolled_back"
    /\ Goes(a, "rollback: call", "rollback: raised")
    /\ UNCHANGED <<record, engine, holder, locals, sweeper, history>>

RollbackCommits(a) ==
    /\ library' = "original" /\ NoteManifest("rolled_back")
    /\ SetRegistry("rollback", "succeeded")
    /\ Goes(a, "rollback: commit", "rollback: finish")
    /\ UNCHANGED <<record, holder, locals, sweeper, history>>

(* An exception in the middle: the replacement has no way back, the row    *)
(* merge returns to the merged rows.                                       *)
RollbackFails(a) ==
    /\ \/ Family = "replacement" /\ UNCHANGED <<library, manifest, history>>
       \/ Family = "row_merge" /\ library' = "changed" /\ UNCHANGED <<manifest, history>>
       \/ /\ Family = "row_merge" /\ manifest' = "recovery_required" /\ UNCHANGED library
          /\ RestoreFails
    /\ SetRegistry("rollback", "failed")
    /\ Goes(a, "rollback: commit", "rollback: raised")
    /\ UNCHANGED <<record, holder, locals, sweeper>>

(* abandon, a compare-and-set; the row merge has nothing to give back.     *)
MutantAbandonCompleted(a) ==
    /\ IF Family = "replacement" /\ status = "Running"
       THEN status' = "Completed" /\ rollback' = "closed"
       ELSE UNCHANGED <<status, rollback>>
    /\ Leaves(a, "rollback: raised")
    /\ UNCHANGED <<requested, result, mine, engine, locals, sweeper, history>>
RollbackRaised(a) ==
    /\ IF Family = "replacement" /\ status = "Running"
       THEN status' = "Recovery Required" /\ rollback' = "closed"
       ELSE UNCHANGED <<status, rollback>>
    /\ Leaves(a, "rollback: raised")
    /\ UNCHANGED <<requested, result, mine, engine, locals, sweeper, history>>

(* finish, or the row merge's verification: a compare-and-set either way.  *)
RollbackFinish(a) ==
    /\ \/ /\ Family = "replacement" /\ status = "Running"
          /\ status' = "Rolled Back" /\ rollback' = "closed"
       \/ /\ Family = "row_merge" /\ status = seen[a] /\ UNCHANGED rollback
          /\ status' \in {"Rolled Back", "Recovery Required"}
          /\ status' = "Rolled Back" => library = "original"
       \/ /\ status # IF Family = "replacement" THEN "Running" ELSE seen[a]
          /\ UNCHANGED <<status, rollback>>
    /\ Leaves(a, "rollback: finish")
    /\ UNCHANGED <<requested, result, mine, engine, locals, sweeper, history>>

-----------------------------------------------------------------------------
(* The boot sweep: it lists the Running transactions, and resolves each    *)
(* from a copy of the record and the engine's evidence, without locks.     *)
SweepRead ==
    /\ sweep \in {"read", "again"} /\ status = "Running"
    /\ sweep' = "decide" /\ snap' = Snapshot /\ beside' = (holder # None)
    /\ UNCHANGED <<record, engine, holder, pc, locals, decided>>
    /\ UNCHANGED <<applies, crashes, overtook, unrestored, unread>>

(* It returns when a pass left nothing still running, or after 20 passes.  *)
SweepEnds ==
    /\ \/ sweep = "read" /\ status # "Running"
       \/ sweep = "again"
    /\ sweep' = "off"
    /\ UNCHANGED <<record, engine, holder, pc, locals, snap, decided, history>>

(* resolve_transaction. *)
MutantApplyingIsFailed ==
    CASE manifest = "applied" -> "finish"
      [] registry["apply"] = "running" /\ manifest # "applied" -> "still running"
      [] OTHER -> "Failed"
FromManifest ==
    CASE manifest = "applied" -> "finish"
      [] manifest = "compensated" -> "Failed"
      [] manifest \in {"none", "applying"} /\ registry["apply"] = "running" -> "still running"
      [] manifest = "none" /\ registry["apply"] # "running" -> "Failed"
      [] OTHER -> "Recovery Required"
MutantNoRecordIsFailed ==
    CASE registry["apply"] = "running" -> "still running"
      [] registry["apply"] = "succeeded" -> "finish"
      [] OTHER -> "Failed"
MutantNoRecordIsRunning ==
    CASE registry["apply"] \in {"none", "running"} -> "still running"
      [] registry["apply"] = "succeeded" -> "finish"
      [] OTHER -> "Failed"
FromRegistry ==
    CASE registry["apply"] = "none" -> "Recovery Required"
      [] registry["apply"] = "running" -> "still running"
      [] registry["apply"] = "succeeded" -> "finish"
      [] registry["apply"] = "failed" -> "Failed"
Resolution ==
    CASE snap.rollback = "open" -> IF snap.mine THEN "still running" ELSE "Recovery Required"
      [] snap.rollback # "open" /\ ~snap.requested -> "Failed"
      [] OTHER -> IF Family = "row_merge" THEN FromManifest ELSE FromRegistry

SweepDecide ==
    /\ sweep = "decide"
    /\ sweep' = CASE Resolution = "still running" -> "again"
                  [] Resolution = "finish" -> "verify"
                  [] OTHER -> "write"
    /\ decided' = IF sweep' = "write" THEN Resolution ELSE decided
    /\ UNCHANGED <<record, engine, holder, pc, locals, snap, history>>

SweepVerify ==
    /\ sweep = "verify" /\ sweep' = "finish"
    /\ \E ok \in BOOLEAN : Verifies(ok) /\ decided' = Outcome(ok)
    /\ UNCHANGED <<record, engine, holder, pc, locals, snap, history>>

(* An update, not a compare-and-set; finish_* adds the engine's result.    *)
SweepWrite ==
    /\ sweep \in {"write", "finish"} /\ sweep' = "off"
    /\ status' = decided /\ result' = (result \/ sweep = "finish")
    /\ overtook' = (overtook \/ beside)
    /\ UNCHANGED <<requested, rollback, mine, engine, holder, pc, locals, snap, decided>>
    /\ UNCHANGED <<applies, crashes, beside, unrestored, unread>>

(* A BeetsError: engine_unavailable, so the sweep comes back. *)
SweepUnavailable ==
    /\ sweep \in {"decide", "verify"} /\ sweep' = "again" /\ ReadFails
    /\ UNCHANGED <<record, engine, holder, pc, locals, snap, decided>>

-----------------------------------------------------------------------------
Crash ==
    /\ crashes < MaxCrash /\ crashes' = crashes + 1
    /\ registry' = NoOperations
    /\ holder' = None /\ mine' = FALSE
    /\ pc' = [a \in Attempt |-> "idle"]
    /\ sweep' = "read" /\ unread' = FALSE
    /\ UNCHANGED <<status, requested, result, rollback, library, manifest,
                   locals, snap, decided, applies, beside, overtook, unrestored>>

ApplyStep(a) ==
    \/ Claim(a) \/ ClaimLost(a) \/ Request(a) \/ StatsFail(a)
    \/ EngineAccepts(a) \/ EngineRefuses(a) \/ EngineBegins(a) \/ EngineCommits(a)
    \/ EngineSucceeds(a) \/ EngineFails(a) \/ ApplyRaised(a)
    \/ Verify(a) \/ VerifyFails(a) \/ FinishApply(a)
RollbackStep(a) ==
    \/ RollbackClaim(a) \/ RollbackRefused(a) \/ RollbackUnclaimed(a)
    \/ RollbackBegins(a) \/ RollbackReplays(a) \/ RollbackNotRun(a)
    \/ RollbackCommits(a) \/ RollbackFails(a) \/ RollbackRaised(a) \/ RollbackFinish(a)
SweepStep ==
    SweepRead \/ SweepEnds \/ SweepDecide \/ SweepVerify \/ SweepWrite \/ SweepUnavailable

Next ==
    \/ Approve \/ Cancel \/ SweepStep \/ Crash
    \/ \E a \in Attempt : \/ ApplyStart(a) \/ RollbackStart(a) \/ TakeLocks(a) \/ Busy(a)
                          \/ ApplyStep(a) \/ RollbackStep(a)

Spec == Init /\ [][Next]_vars

(* Threads keep running until the process crashes, and the boot sweep runs *)
(* after every start; nobody has to approve, apply or roll back.           *)
Fairness ==
    /\ WF_vars(SweepStep)
    /\ \A a \in Attempt : WF_vars(TakeLocks(a) \/ Busy(a) \/ ApplyStep(a) \/ RollbackStep(a))
FairSpec == Spec /\ Fairness

-----------------------------------------------------------------------------
Statuses == {"Preview", "Approved", "Running", "Completed", "Cancelled", "Failed",
             "Rolled Back", "Recovery Required"}
ApplyPhases == {"apply: claim", "apply: request", "apply: call", "apply: begin", "apply: commit",
                "apply: record", "apply: raised", "apply: verify", "apply: write"}
RollbackPhases == {"rollback: claim", "rollback: call", "rollback: commit", "rollback: raised",
                   "rollback: finish"}
Outside == {"idle", "apply: lock", "rollback: lock"}
RecordType ==
    /\ status \in Statuses
    /\ requested \in BOOLEAN /\ result \in BOOLEAN /\ mine \in BOOLEAN
    /\ rollback \in {"none", "open", "closed"}
EngineType ==
    /\ library \in {"original", "partial", "changed"}
    /\ manifest \in {"none", "applying", "applied", "compensated", "recovery_required", "rolled_back"}
    /\ registry \in [DOMAIN NoOperations -> {"none", "running", "succeeded", "failed"}]
AttemptType ==
    /\ holder \in Attempt \cup {None}
    /\ pc \in [Attempt -> Outside \cup ApplyPhases \cup RollbackPhases]
    /\ seen \in [Attempt -> Statuses] /\ verdict \in [Attempt -> BOOLEAN]
SweepType ==
    /\ sweep \in {"off", "read", "again", "decide", "verify", "finish", "write"}
    /\ snap \in [requested : BOOLEAN, rollback : {"none", "open", "closed"}, mine : BOOLEAN]
    /\ decided \in Statuses
HistoryType ==
    /\ applies \in Nat /\ crashes \in Nat
    /\ beside \in BOOLEAN /\ overtook \in BOOLEAN
    /\ unrestored \in BOOLEAN /\ unread \in BOOLEAN
(* Every variable has its type.  (The transaction record and the state     *)
(* around it.)                                                             *)
TypeOK == RecordType /\ EngineType /\ AttemptType /\ SweepType /\ HistoryType

(* The sweep "NEVER replays the mutation", and neither does a second       *)
(* attempt, a retry after a crash or an apply that lost its claim: the     *)
(* engine begins the mutation of a transaction at most once.               *)
NeverReplayed == applies <= 1

(* A status that says the library was not touched, or was put back, is     *)
(* true: no crash, failed engine call or lost race hides a change from the *)
(* operator.  There are two ways to lose it: the sweep writes beside an    *)
(* attempt, and Failed is said whether or not the engine's restore worked. *)
NoHiddenChange ==
    status \in {"Preview", "Approved", "Cancelled", "Failed", "Rolled Back"} /\ ~overtook
        => library = "original" \/ (status = "Failed" /\ unrestored)

(* ... and Completed means that the library is in the applied state.       *)
NoFalseSuccess == status = "Completed" /\ ~overtook => library = "changed"

(* Applies and rollbacks of one transaction never overlap in the engine,   *)
(* and until the sweep has written beside an attempt an operation in the   *)
(* engine is one of a transaction the store calls Running: "the CAS is     *)
(* what stops two concurrent rollbacks from both reaching Beets".          *)
InEngine(a) == pc[a] \in {"apply: call", "apply: begin", "apply: commit", "apply: record",
                          "rollback: call", "rollback: commit"}
EngineCallsClaimed ==
    \A a \in Attempt : InEngine(a) =>
        /\ status = "Running" \/ overtook
        /\ \A b \in Attempt : InEngine(b) => b = a

(* "A cancel racing an apply never overwrites its outcome", and an apply   *)
(* racing a cancel never runs: Cancelled means that the engine was never   *)
(* asked, and is not being asked.                                          *)
CancelMeansUntouched ==
    status = "Cancelled" => applies = 0 /\ \A a \in Attempt : ~InEngine(a)

(* "left Running, checked again later": whoever crashes, a transaction     *)
(* does not stay Running, unless Beets could not be read since the start:  *)
(* then the sweep may give up after 20 passes, and a verification that     *)
(* raises leaves the transaction to the sweep of the next start.           *)
RunningResolved == status = "Running" ~> status # "Running" \/ unread

(* Why the mutation happens at most once and a cancel is final: the locks  *)
(* have one holder, and Approved is never entered again once an attempt    *)
(* has claimed the transaction.                                            *)
LocksHeld == \A a \in Attempt : pc[a] \in ApplyPhases \cup RollbackPhases <=> holder = a
Started == status \notin {"Preview", "Approved", "Cancelled"}
AttemptOnce(a) ==
    /\ pc[a] \in {"apply: request", "apply: call", "apply: begin"} => applies = 0
    /\ pc[a] \in (ApplyPhases \ {"apply: claim"}) \cup RollbackPhases \cup {"rollback: lock"}
            => Started
RecordOnce ==
    /\ applies \in {0, 1} /\ (applies = 1 \/ requested \/ result => Started)
    /\ sweep \in {"decide", "verify", "finish", "write"} => Started
    /\ decided \notin {"Preview", "Approved", "Cancelled"}
AtMostOnce == LocksHeld /\ RecordOnce /\ \A a \in Attempt : AttemptOnce(a)

(* Why the statuses tell the truth, for a transaction whose rollback is    *)
(* claimed, until the sweep writes beside an attempt: who works on the     *)
(* library has the transaction Running, and knows at every point of the    *)
(* work what became of the library; a sweep that no attempt came beside    *)
(* writes of a record and a library that are still as it read them.        *)
PhaseKnows(a) ==
    /\ pc[a] \in (ApplyPhases \ {"apply: claim"}) => status = "Running" /\ ~result
    /\ pc[a] \in RollbackPhases \ {"rollback: claim"} => status = "Running"
    /\ pc[a] \in ApplyPhases \ {"apply: claim", "apply: request"} => requested
    /\ pc[a] \in RollbackPhases \cup {"rollback: lock"} => result
    /\ pc[a] \in {"apply: request", "apply: call", "apply: begin", "rollback: finish"}
           => library = "original"
    /\ pc[a] = "apply: raised" => library = "original" \/ unrestored
    /\ pc[a] \in {"apply: record", "apply: verify"} => library = "changed"
    /\ pc[a] \in {"apply: verify", "apply: write"} => registry["apply"] = "succeeded"
    /\ pc[a] = "apply: write" /\ verdict[a] => library = "changed"
StatusKnows ==
    /\ ~Started => ~requested
    /\ ~requested => library = "original" /\ ~result /\ registry["apply"] = "none"
    /\ status = "Failed" => ~result /\ (library = "original" \/ unrestored)
    /\ status = "Rolled Back" => library = "original"
    /\ status = "Completed" => library = "changed"
    /\ registry["apply"] = "failed" => ~result
    /\ registry["apply"] = "failed" /\ status = "Running" => /\ holder \in Attempt
                                                         /\ pc[holder] = "apply: raised"
InFlight == sweep \in {"decide", "verify", "finish", "write"} /\ ~beside
SweepKnows ==
    /\ InFlight => holder = None /\ status = "Running"
    /\ InFlight /\ sweep = "decide" => snap.requested = requested
    /\ InFlight /\ sweep = "write" => /\ decided \in {"Failed", "Recovery Required"}
                                      /\ decided = "Failed" => library = "original" /\ ~result
    /\ InFlight /\ sweep \in {"verify", "finish"} => registry["apply"] = "succeeded"
    /\ InFlight /\ sweep = "finish" => /\ decided \in {"Completed", "Recovery Required"}
                                       /\ decided = "Completed" => library = "changed"
Truthful == overtook \/ (StatusKnows /\ SweepKnows /\ \A a \in Attempt : PhaseKnows(a))

(* The transaction implements the contract of an audited mutation.         *)
Contract == INSTANCE MutationContract
ContractSpec == Contract!Spec
=============================================================================
