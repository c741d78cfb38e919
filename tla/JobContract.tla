----------------------------- MODULE JobContract -----------------------------
(***************************************************************************)
(* The shared contract of long mutating jobs (backend/job_contract.py):    *)
(* a job holds the durable lock of its workflow while it runs, waits for   *)
(* it at most so long, names it in its record, and a restarted process     *)
(* releases the locks of the jobs it finds interrupted.                    *)
(*                                                                         *)
(* acquire, release, heartbeat and release_interrupted are one step each   *)
(* here: ResourceLocks shows that they are (LockService).  Time runs in    *)
(* ticks much longer than the second between two polls, so that a waiting  *)
(* job polls at least once in every tick.                                  *)
(***************************************************************************)
EXTENDS Naturals, FiniteSets

CONSTANTS
    Job,            \* jobs; what an operator resumes is another job
    Proc,           \* processes; a restart is another element
    Key,            \* the keys `workflow:<name>`
    ProcOf,         \* [Job -> Proc]
    HostOf,         \* [Proc -> host name]
    KeysOf,         \* [Job -> the keys of its workflow]
    FailFast,       \* the jobs with fail_fast_in_process
    Probing,        \* the jobs whose start route asks live_holder first
    Wait,           \* [Job -> ticks]: wait_seconds
    Ttl,            \* ticks: LOCK_TTL_SECONDS
    None            \* no file

ASSUME JobAssumption == ProcOf \in [Job -> Proc] /\ KeysOf \in [Job -> SUBSET Key]
ASSUME TimeAssumption == Ttl \in Nat /\ Wait \in [Job -> Nat]
ASSUME FileAssumption == None \notin [job : Job, age : Nat]

VARIABLES
    up,         \* what a process does: "off", "boots", "serves" or "dead"
    todo,       \* the interrupted records its boot has still to resolve
    lock,       \* key -> its record, with the ticks since its heartbeat
    pc,         \* where a job is
    named,      \* its record has a workflow_lock that names its owner
    resolved,   \* its record says recovery_required
    cancel,     \* its cancel event is set
    waited,     \* ticks since it entered `held`
    gone        \* ticks since a process died

vars == <<up, todo, lock, pc, named, resolved, cancel, waited, gone>>
process == <<up, todo, gone>>
records == <<named, resolved>>

Alive(p) == up[p] \in {"boots", "serves"}
Rec(j) == [job |-> j, age |-> 0]
Holder(k) == ProcOf[lock[k].job]
SameHost(p, q) == HostOf[p] = HostOf[q]
Least(m, n) == IF m < n THEN m ELSE n

(* ResourceLocks.is_stale, seen from process p. *)
MutantHeartbeatOnly(k, p) == lock[k].age > Ttl
IsStale(k, p) == lock[k].age > Ttl /\ (SameHost(p, Holder(k)) => ~Alive(Holder(k)))

Taken(j) == {k \in KeysOf[j] : lock[k] # None}
Stale(j) == {k \in Taken(j) : IsStale(k, ProcOf[j])}
Blockers(j) == Taken(j) \ Stale(j)
Without(K) == [k \in Key |-> IF k \in K THEN None ELSE lock[k]]
Waits(j) == pc[j] \in {"polls", "acquires", "sleeps"}
Mine(j) == {k \in Key : lock[k] # None /\ lock[k].job = j}

Init ==
    /\ up = [p \in Proc |-> "off"] /\ gone = [p \in Proc |-> 0]
    /\ todo = [p \in Proc |-> {}]
    /\ lock = [k \in Key |-> None]
    /\ pc = [j \in Job |-> "new"] /\ waited = [j \in Job |-> 0]
    /\ named = [j \in Job |-> FALSE] /\ resolved = [j \in Job |-> FALSE]
    /\ cancel = [j \in Job |-> FALSE]

-----------------------------------------------------------------------------
(* A process starts, and resolves the records that say running: that job   *)
(* is recovery_required, and the locks its record names go at once, unless *)
(* their holder is alive on this host (release_interrupted).               *)
Over == {"ended", "unreleased", "busy", "failed", "cancelled"}
Started == {j \in Job : pc[j] \notin {"new", "refused"} \cup Over}
Running == {j \in Started : ~resolved[j]}
Boot(p) ==
    /\ up[p] = "off"
    /\ up' = [up EXCEPT ![p] = "boots"] /\ todo' = [todo EXCEPT ![p] = Running]
    /\ UNCHANGED <<gone, lock, pc, records, cancel, waited>>

MutantReleasesLive(p, j) == Mine(j)
Orphaned(p, j) ==
    IF named[j] /\ ~(SameHost(p, ProcOf[j]) /\ Alive(ProcOf[j])) THEN Mine(j) ELSE {}
Resolve(p, j) ==
    /\ up[p] = "boots" /\ j \in todo[p]
    /\ todo' = [todo EXCEPT ![p] = @ \ {j}]
    /\ resolved' = [resolved EXCEPT ![j] = TRUE]
    /\ lock' = Without(Orphaned(p, j))
    /\ UNCHANGED <<up, gone, pc, named, cancel, waited>>
Serve(p) ==
    /\ up[p] = "boots" /\ todo[p] = {}
    /\ up' = [up EXCEPT ![p] = "serves"]
    /\ UNCHANGED <<todo, gone, lock, pc, records, cancel, waited>>

Die(p) ==
    /\ Alive(p)
    /\ up' = [up EXCEPT ![p] = "dead"]
    /\ pc' = [j \in Job |-> CASE ProcOf[j] # p \/ j \notin Started -> pc[j]
                               [] ProcOf[j] = p /\ pc[j] = "works" -> "killed"
                               [] OTHER -> "dead"]
    /\ waited' = [j \in Job |-> IF ProcOf[j] = p THEN 0 ELSE waited[j]]
    /\ cancel' = [j \in Job |-> cancel[j] /\ ProcOf[j] # p]
    /\ UNCHANGED <<todo, gone, lock, records>>

-----------------------------------------------------------------------------
(* A route starts a job.  One that probes answers 409 when another process *)
(* holds the lock (live_holder), and no job is recorded.                   *)
Foreign(j) == {k \in Blockers(j) : Holder(k) # ProcOf[j]}
Start(j) ==
    /\ up[ProcOf[j]] = "serves" /\ pc[j] = "new"
    /\ pc' = [pc EXCEPT ![j] = IF j \in Probing /\ Foreign(j) # {} THEN "refused" ELSE "polls"]
    /\ UNCHANGED <<process, lock, records, cancel, waited>>

Cancel(j) ==
    /\ Waits(j) /\ ~cancel[j]
    /\ cancel' = [cancel EXCEPT ![j] = TRUE]
    /\ UNCHANGED <<process, lock, pc, records, waited>>

(* The wait is over, and with it the use of the clock and of the event.    *)
Settles(j, place) ==
    /\ pc' = [pc EXCEPT ![j] = place]
    /\ cancel' = [cancel EXCEPT ![j] = FALSE] /\ waited' = [waited EXCEPT ![j] = 0]

(* The loop of `held`: the cancel event is looked at first ... *)
CheckCancel(j) ==
    /\ pc[j] = "polls"
    /\ IF cancel[j] THEN Settles(j, "cancelled")
       ELSE pc' = [pc EXCEPT ![j] = "acquires"] /\ UNCHANGED <<cancel, waited>>
    /\ UNCHANGED <<process, lock, records>>

(* ... then acquire(timeout=0) takes all keys ... *)
Take(j) ==
    /\ pc[j] = "acquires" /\ Blockers(j) = {}
    /\ lock' = [k \in Key |-> IF k \in KeysOf[j] THEN Rec(j) ELSE lock[k]]
    /\ Settles(j, "taken")
    /\ UNCHANGED <<process, records>>

(* ... or reports one blocker, having removed some stale files.  A holder  *)
(* in this process, or the deadline, ends the wait; the first conflict     *)
(* publishes the owner's name.                                             *)
MutantDeadlineIsTtl(j, k) ==
    waited[j] >= Least(Wait[j], Ttl) \/ (j \in FailFast /\ Holder(k) = ProcOf[j])
GivesUp(j, k) == waited[j] >= Wait[j] \/ (j \in FailFast /\ Holder(k) = ProcOf[j])
MutantDeadlineRestarts(j) ==
    /\ pc[j] = "acquires"
    /\ \E k \in Blockers(j) :
         IF GivesUp(j, k)
         THEN Settles(j, "busy") /\ UNCHANGED named
         ELSE /\ pc' = [pc EXCEPT ![j] = "sleeps"] /\ named' = [named EXCEPT ![j] = TRUE]
              /\ waited' = [waited EXCEPT ![j] = 0] /\ UNCHANGED cancel
    /\ \E S \in SUBSET Stale(j) : lock' = Without(S)
    /\ UNCHANGED <<process, resolved>>
Blocked(j) ==
    /\ pc[j] = "acquires"
    /\ \E k \in Blockers(j) :
         IF GivesUp(j, k)
         THEN Settles(j, "busy") /\ UNCHANGED named
         ELSE /\ pc' = [pc EXCEPT ![j] = "sleeps"] /\ named' = [named EXCEPT ![j] = TRUE]
              /\ UNCHANGED <<cancel, waited>>
    /\ \E S \in SUBSET Stale(j) : lock' = Without(S)
    /\ UNCHANGED <<process, resolved>>
(* ... or the mutex file of the registry stays taken: acquire raises.      *)
AcquireFails(j) ==
    /\ pc[j] = "acquires" /\ Settles(j, "failed")
    /\ UNCHANGED <<process, lock, records>>
Wake(j) ==
    /\ pc[j] = "sleeps" /\ pc' = [pc EXCEPT ![j] = "polls"]
    /\ UNCHANGED <<process, lock, records, cancel, waited>>

(* The checkpoint names the owner, then the block runs. *)
MutantNotPublished(j) ==
    /\ pc[j] = "taken" /\ pc' = [pc EXCEPT ![j] = "works"]
    /\ UNCHANGED <<process, lock, records, cancel, waited>>
Publish(j) ==
    /\ pc[j] = "taken" /\ pc' = [pc EXCEPT ![j] = "works"]
    /\ named' = [named EXCEPT ![j] = TRUE]
    /\ UNCHANGED <<process, lock, resolved, cancel, waited>>

(* The thread `beat`: only the files of this owner, in this process. *)
Heartbeat(j) ==
    /\ pc[j] = "works" /\ \E k \in Mine(j) : lock[k].age > 0
    /\ lock' = [k \in Key |-> IF k \in Mine(j) THEN Rec(j) ELSE lock[k]]
    /\ UNCHANGED <<process, pc, records, cancel, waited>>

(* The block ends, with or without an exception: `finally` releases. *)
MutantKeepsLock(j) ==
    /\ pc[j] = "works" /\ pc' = [pc EXCEPT ![j] = "ended"]
    /\ UNCHANGED <<process, lock, records, cancel, waited>>
Leave(j) ==
    /\ pc[j] = "works" /\ pc' = [pc EXCEPT ![j] = "ended"]
    /\ lock' = Without(Mine(j) \cap KeysOf[j])
    /\ UNCHANGED <<process, records, cancel, waited>>

(* An error of release is swallowed: the job ends, its heartbeat stops and *)
(* its files stay.                                                         *)
LeaveUnreleased(j) ==
    /\ pc[j] = "works" /\ pc' = [pc EXCEPT ![j] = "unreleased"]
    /\ UNCHANGED <<process, lock, records, cancel, waited>>

(* Time: every polling job has polled since the last tick. *)
Tick ==
    /\ \A j \in Job : pc[j] \notin {"polls", "acquires"}
    /\ lock' = [k \in Key |-> IF lock[k] = None THEN None
                              ELSE [lock[k] EXCEPT !.age = Least(@ + 1, Ttl + 1)]]
    /\ waited' = [j \in Job |-> IF pc[j] = "sleeps" THEN waited[j] + 1 ELSE waited[j]]
    /\ gone' = [p \in Proc |-> IF up[p] = "dead" THEN Least(gone[p] + 1, Ttl + 1) ELSE 0]
    /\ pc' = [j \in Job |-> IF pc[j] = "sleeps" THEN "polls" ELSE pc[j]]
    /\ UNCHANGED <<up, todo, records, cancel>>

Step(j) ==
    \/ CheckCancel(j) \/ Take(j) \/ Blocked(j) \/ AcquireFails(j) \/ Wake(j)
    \/ Publish(j) \/ Leave(j) \/ LeaveUnreleased(j)
Next ==
    \/ \E p \in Proc : \/ Boot(p) \/ Serve(p) \/ Die(p)
                       \/ \E j \in Job : Resolve(p, j)
    \/ \E j \in Job : Start(j) \/ Cancel(j) \/ Step(j) \/ Heartbeat(j)
    \/ Tick

Spec == Init /\ [][Next]_vars

(* Threads run, the work of a job ends, and time passes while a job waits, *)
(* however often it polls; nobody has to start, to crash or to send a      *)
(* heartbeat.                                                              *)
TimePasses == []<><<Tick>>_vars \/ []<>(\A j \in Job : ~Waits(j))
Fairness == (\A j \in Job : WF_vars(Step(j))) /\ TimePasses
FairSpec == Spec /\ Fairness

-----------------------------------------------------------------------------
(* Every variable has its type.  (What `held` and the restart keep in      *)
(* memory, in the job records and in the lock files.)                      *)
Places == {"new", "refused", "polls", "acquires", "sleeps", "taken", "works",
           "dead", "killed"} \cup Over
TypeOK ==
    /\ up \in [Proc -> {"off", "boots", "serves", "dead"}] /\ todo \in [Proc -> SUBSET Job]
    /\ lock \in [Key -> [job : Job, age : 0..Ttl + 1] \cup {None}]
    /\ pc \in [Job -> Places]
    /\ named \in [Job -> BOOLEAN] /\ resolved \in [Job -> BOOLEAN] /\ cancel \in [Job -> BOOLEAN]
    /\ waited \in [Job -> Nat] /\ gone \in [Proc -> 0..Ttl + 1]

(* "so a restart never runs two": while a job runs it has the files of its *)
(* workflow, so no other job of that workflow runs in any process.         *)
Holds(j) == pc[j] \in {"taken", "works"}
OneRunner == \A i, j \in Job : Holds(i) /\ Holds(j) /\ KeysOf[i] \cap KeysOf[j] # {} => i = j

(* "so a resume need not wait": a job that died at its work has no lock    *)
(* left once a restart has resolved its record.                            *)
ResumeNeedNotWait ==
    [][\A j \in Job : pc[j] = "killed" /\ resolved'[j] # resolved[j] => Mine(j)' = {}]_vars

(* A job that ends leaves its workflow locked only if its release failed   *)
(* or its process died, and what stays behind then is stale for everyone   *)
(* once its process is dead for longer than the ttl.                       *)
NothingLeftLocked ==
    /\ \A j \in Job : Mine(j) # {} => Holds(j) \/ pc[j] \in {"dead", "killed", "unreleased"}
    /\ \A k \in Key, p \in Proc : lock[k] # None /\ gone[Holder(k)] > Ttl => IsStale(k, p)

(* "Longer than a lock's ttl, so a lock left by a dead process is          *)
(* reclaimed (and the job proceeds) before the wait gives up": a job with  *)
(* such a wait gives up only on a process that lived while it waited.      *)
LivedMeanwhile(j, k) == Alive(Holder(k)) \/ gone[Holder(k)] < Least(waited[j], Ttl + 1)
NeverGivesUpOnDead ==
    [][\A j \in Job :
         pc[j] = "acquires" /\ pc'[j] = "busy" /\ Wait[j] > Ttl =>
             \E k \in Blockers(j) : LivedMeanwhile(j, k)]_vars

(* "Only that job's owner; a live holder keeps its locks": a restart takes *)
(* no lock file from a job that runs.                                      *)
LiveHolderKeeps == [][\A j \in Job : Holds(j) /\ pc'[j] = pc[j] => Mine(j)' = Mine(j)]_vars

(* A waiting job gets its lock, gives up, fails or is cancelled. *)
WaitEnds == \A j \in Job : pc[j] = "polls" ~> pc[j] \in {"works", "dead", "killed"} \cup Over
=============================================================================
