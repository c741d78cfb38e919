--------------------------- MODULE RecordContract ---------------------------
(***************************************************************************)
(* What the job store promises of a job's record over all the processes    *)
(* it outlives (job_engine.py:1-28, 574-583, 657-666, 916-919): work is    *)
(* done only under a record that says running, an outcome is written once  *)
(* and is true, and what is gone never comes back.  A record that the      *)
(* operator has to resolve never goes.  The contract ends for a job that   *)
(* was read back while it was being cleared, or had ended unrecorded.      *)
(***************************************************************************)
CONSTANTS Job

VARIABLES
    phase,      \* "unknown", "starting", what the record says, "gone" or "astray"
    effect      \* what the job's function has done: "none", "some" or "all"

Outcomes == {"success", "failed", "cancelled"}
Final == Outcomes \cup {"recovery_required"}

Init == phase = [j \in Job |-> "unknown"] /\ effect = [j \in Job |-> "none"]

Moves(j, from, to) ==
    phase[j] \in from /\ phase' = [phase EXCEPT ![j] = to] /\ UNCHANGED effect

Ask(j) == Moves(j, {"unknown"}, "starting")
Record(j) == Moves(j, {"starting"}, "running")
Work(j) ==
    /\ phase[j] = "running" /\ UNCHANGED phase
    /\ effect' = [effect EXCEPT ![j] = IF @ = "none" THEN "some" ELSE "all"]
Succeed(j) == effect[j] = "all" /\ Moves(j, {"running"}, "success")
NotStarted(j) == Moves(j, {"starting"}, "failed")
EndOtherwise(j) == \E s \in Final \ {"success"} : Moves(j, {"running"}, s)

(* A clear, a prune or a crash before the first save forgets some jobs.    *)
Forget(S) ==
    /\ \A j \in S : phase[j] \in {"starting", "running"} \cup Outcomes
    /\ phase' = [j \in Job |-> IF j \in S THEN "gone" ELSE phase[j]]
    /\ UNCHANGED effect

(* An object of the job is loaded from a record that no longer holds. *)
Stray(j) == Moves(j, {"running", "gone"} \cup Outcomes, "astray")

Next ==
    \/ \E j \in Job : \/ Ask(j) \/ Record(j) \/ Work(j) \/ Stray(j)
                      \/ Succeed(j) \/ NotStarted(j) \/ EndOtherwise(j)
    \/ \E S \in SUBSET Job : Forget(S)

Spec == Init /\ [][Next]_<<phase, effect>>
=============================================================================
