--------------------------- MODULE ReplayContract ---------------------------
(***************************************************************************)
(* What the Beets plugin promises the clients of an idempotency key        *)
(* (beetsplug/webmanager/operations.py and its callers): a key changes the *)
(* library again only after its outcome was pruned or lost, every request  *)
(* gets one answer, about its own payload, and a success that was answered *)
(* for a durable operation survives every restart until it is pruned.      *)
(***************************************************************************)
EXTENDS Naturals

CONSTANTS
    Key, Request, KeyOf, PayloadOf, None,
    Kept            \* the keys of durable operations

VARIABLES
    outcome,    \* of a key: "none", "done", "kept" (a restart finds it) or "forgotten"
    reply,      \* what a request was answered
    crashes

Init ==
    /\ outcome = [k \in Key |-> "none"] /\ reply = [r \in Request |-> None] /\ crashes = 0

Change(k) ==
    /\ outcome[k] \in {"none", "forgotten"} /\ outcome' = [outcome EXCEPT ![k] = "done"]
    /\ UNCHANGED <<reply, crashes>>

(* An answer other than a success says nothing of the library; a success   *)
(* of a durable operation is kept before it is told.                       *)
Answer(r) ==
    /\ reply[r] = None
    /\ \E s \in {"failed", "running", "busy", "refused", "collision"} :
           reply' = [reply EXCEPT ![r] = [payload |-> PayloadOf[r], status |-> s]]
    /\ UNCHANGED <<outcome, crashes>>
AnswerSuccess(r) ==
    /\ reply[r] = None /\ outcome[KeyOf[r]] \in {"done", "kept"}
    /\ reply' = [reply EXCEPT ![r] = [payload |-> PayloadOf[r], status |-> "succeeded"]]
    /\ outcome' = [outcome EXCEPT ![KeyOf[r]] = IF KeyOf[r] \in Kept THEN "kept" ELSE "done"]
    /\ UNCHANGED crashes

(* Retention and caps. *)
Forget ==
    /\ \E K \in (SUBSET Key) \ {{}} :
           /\ \A k \in K : outcome[k] # "none"
           /\ outcome' = [k \in Key |-> IF k \in K THEN "forgotten" ELSE outcome[k]]
    /\ UNCHANGED <<reply, crashes>>

(* A restart loses what was not kept; it may find again what the memory    *)
(* had forgotten and the file had not.                                     *)
Survives(o) == CASE o = "none" -> {"none"} [] o = "kept" -> {"kept"} [] OTHER -> {"forgotten", "kept"}
Restart ==
    /\ crashes' = crashes + 1
    /\ \E o \in [Key -> {"none", "kept", "forgotten"}] :
           outcome' = o /\ \A k \in Key : o[k] \in Survives(outcome[k])
    /\ UNCHANGED reply

Next == \/ \E k \in Key : Change(k)
        \/ \E r \in Request : Answer(r) \/ AnswerSuccess(r)
        \/ Forget \/ Restart

Spec == Init /\ [][Next]_<<outcome, reply, crashes>>
=============================================================================
