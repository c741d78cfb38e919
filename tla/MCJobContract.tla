---------------------------- MODULE MCJobContract ----------------------------
(* Small instances of JobContract for TLC. *)
EXTENDS JobContract

CONSTANTS j1, j2, j3, p1, p2, w

(* Two starts of a workflow in one process, and one in the next process.   *)
MCProcOf == [j \in Job |-> IF j = j3 THEN p2 ELSE p1]
OneWorkflow == [j \in Job |-> {w}]
OneHost == [p \in Proc |-> "host"]
TwoHosts == [p \in Proc |-> p]
(* wait_seconds exceeds the ttl of 1 tick, except for Clean All's 0. *)
MCWait == [j \in Job |-> IF j = j2 THEN 0 ELSE 2]
=============================================================================
