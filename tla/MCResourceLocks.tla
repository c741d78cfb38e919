-------------------------- MODULE MCResourceLocks --------------------------
(* Small instances of ResourceLocks for TLC. *)
EXTENDS ResourceLocks

CONSTANTS o1, o2, o3, p1, p2, p3, g, a, b

(* library-global, album:1 and item:9, in their (level, key) order. *)
MCRank == [k \in Key |-> CASE k = g -> 0 [] k = a -> 1 [] k = b -> 2]

(* One attempt in each process; or two in the first and one in the second. *)
ProcsApart == [o \in Owner |-> CASE o = o1 -> p1 [] o = o2 -> p2 [] o = o3 -> p3]
ProcsShared == [o \in Owner |-> CASE o = o1 -> p1 [] o = o2 -> p1 [] o = o3 -> p2]

OneHost == [p \in Proc |-> "host"]

Singles == {{k} : k \in Key}
SinglesAndPair == Singles \cup {{a, b}}
LowAndGlobal == {{a}, {b}, {g, a}}
=============================================================================
