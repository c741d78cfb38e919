---------------------------- MODULE LockService ----------------------------
(***************************************************************************)
(* What the resource locks promise their callers, without files, mutexes   *)
(* or heartbeats: an owner holds a set of keys, takes a whole set of keys  *)
(* in one step, and no two owners ever hold keys that conflict.            *)
(* backend/resource_locks.py is shown to implement this by ResourceLocks.  *)
(***************************************************************************)
CONSTANTS Owner, Key, LibraryGlobal

VARIABLE owns                     \* owner -> the keys it may rely on

(* Identical keys conflict; the library-wide key conflicts with every key. *)
Conflicts(a, b) == a = b \/ a = LibraryGlobal \/ b = LibraryGlobal

Init == owns = [o \in Owner |-> {}]

Grant(o, K) ==
    /\ \A p \in Owner \ {o} : \A k \in K, j \in owns[p] : ~Conflicts(k, j)
    /\ owns' = [owns EXCEPT ![o] = @ \cup K]

(* A release may keep keys that an enclosing hold of the owner still needs. *)
GiveBack(o, K) == owns' = [owns EXCEPT ![o] = @ \ K]

(* A process dies: all its owners lose everything at once. *)
Lose(S) == owns' = [o \in Owner |-> IF o \in S THEN {} ELSE owns[o]]

Next == \/ \E o \in Owner, K \in SUBSET Key : Grant(o, K) \/ GiveBack(o, K)
        \/ \E S \in SUBSET Owner : Lose(S)

Spec == Init /\ [][Next]_owns
=============================================================================
