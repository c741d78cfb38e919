--------------------------- MODULE ResourceLocks ---------------------------
(***************************************************************************)
(* The durable, hierarchical resource locks (backend/resource_locks.py).   *)
(*                                                                         *)
(* A held key is a file in a directory every process shares.  An attempt   *)
(* (an owner string, unique to one attempt_owner call) runs in one process *)
(* and calls acquire/release, possibly nested.  Conflict checks and file   *)
(* creation happen inside a registry section guarded by the file           *)
(* .registry.mutex.  A process may die anywhere; the files it leaves       *)
(* behind stay.                                                            *)
(*                                                                         *)
(* Faults names what may go wrong besides a crash between two steps:       *)
(*   "mutex-ages"        a mutex left by a dead process reaches 30 seconds *)
(*   "torn-write"        a process dies between creating and writing a key *)
(*   "registry-timeout"  _registry gives up after mutex_timeout            *)
(*   "impatient"         acquire may reach its deadline while blocked      *)
(*   "mid-section"       a process dies while inside the registry section  *)
(***************************************************************************)
EXTENDS Naturals, Sequences, FiniteSets

CONSTANTS
    Proc,               \* processes; a restarted process is another element
    Owner,              \* attempts, each with an owner string of its own
    Key,                \* resource keys
    LibraryGlobal,      \* the key `library-global`
    Rank,               \* [Key -> Nat]: position in the (level, key) order
    ProcOf,             \* [Owner -> Proc]
    HostOf,             \* [Proc -> host name]
    KeySets,            \* the key sets a caller may ask for
    MaxNest,            \* bound: how deep one owner nests its holds, and so
                        \* the count at which it stops re-entering a key
    Faults,
    None,               \* no file
    Torn                \* a file with no parsable record: _read_all skips it

FaultNames == {"mutex-ages", "torn-write", "registry-timeout", "impatient", "mid-section"}

ASSUME RankAssumption ==
    /\ Rank \in [Key -> Nat]
    /\ \A a, b \in Key : Rank[a] = Rank[b] => a = b
    /\ LibraryGlobal \in Key => \A k \in Key : Rank[LibraryGlobal] <= Rank[k]
ASSUME OwnerAssumption ==
    /\ ProcOf \in [Owner -> Proc]
    /\ IsFiniteSet(Owner)
    /\ None \notin Owner
ASSUME FileAssumption ==
    None # Torn /\ {None, Torn} \cap [owner : Owner, fresh : BOOLEAN] = {}
ASSUME KeySetsAssumption == KeySets \subseteq SUBSET Key /\ MaxNest \in Nat
ASSUME FaultsAssumption == Faults \subseteq FaultNames

VARIABLES
    alive,      \* the running processes
    mutex,      \* who created .registry.mutex, or None
    mutexOld,   \* its mtime is more than 30 seconds ago
    lock,       \* <key>.lock: a record, an unparsable file, or None
    held,       \* ResourceLocks._held: owner -> key -> re-entrant count
    pc,         \* where each owner is
    op,         \* the call it is in
    want,       \* the keys of that call
    todo,       \* the keys the creation loop has yet to do
    stack       \* the holds it is in, innermost last

vars == <<alive, mutex, mutexOld, lock, held, pc, op, want, todo, stack>>
memory == <<held, want, todo, stack>>

LockRec == [owner : Owner, fresh : BOOLEAN]
Own(o) == [owner |-> o, fresh |-> TRUE]

IsRec(k) == lock[k] \notin {None, Torn}
Mine(o, k) == IsRec(k) /\ lock[k].owner = o

Conflicts(a, b) == a = b \/ a = LibraryGlobal \/ b = LibraryGlobal

(* _pid_alive for a record written on this host. *)
HolderAlive(k) == ProcOf[lock[k].owner] \in alive
SameHost(o, k) == HostOf[ProcOf[o]] = HostOf[ProcOf[lock[k].owner]]

(* is_stale, evaluated by owner o's process. *)
MutantHeartbeatOnly(o, k) == ~lock[k].fresh
MutantLocalNeverStale(o, k) == ~lock[k].fresh /\ ~SameHost(o, k)
IsStale(o, k) == ~lock[k].fresh /\ (SameHost(o, k) => ~HolderAlive(k))

(* The keys of other owners that conflict with a key o wants. *)
MutantSameKeyOnly(o) == {k \in want[o] : IsRec(k) /\ lock[k].owner # o}
Rivals(o) == {k \in Key : /\ IsRec(k) /\ lock[k].owner # o
                          /\ \E w \in want[o] : Conflicts(w, k)}
StaleRivals(o) == {k \in Rivals(o) : IsStale(o, k)}
Blockers(o) == Rivals(o) \ StaleRivals(o)

(* The next key of the creation loop: sorted(keys, key=_order). *)
IsNext(o, k) == k \in todo[o] /\ \A j \in todo[o] : Rank[k] <= Rank[j]

Unlinked(K) == [k \in Key |-> IF k \in K THEN None ELSE lock[k]]

HeldKeys(o) == {k \in Key : held[o][k] > 0}

(* A new key must not sort before the highest key the owner already holds. *)
MutantNoOrder(o, K) == TRUE
InOrder(o, K) == \A k \in K \ HeldKeys(o), h \in HeldKeys(o) : Rank[k] > Rank[h]

(* The keys an owner relies on: those of the holds it is in. *)
Granted(o) == UNION {stack[o][i] : i \in 1..Len(stack[o])}

-----------------------------------------------------------------------------
Init ==
    /\ alive = Proc
    /\ mutex = None /\ mutexOld = FALSE
    /\ lock = [k \in Key |-> None]
    /\ held = [o \in Owner |-> [k \in Key |-> 0]]
    /\ pc = [o \in Owner |-> "ready"]
    /\ op = [o \in Owner |-> "none"]
    /\ want = [o \in Owner |-> {}]
    /\ todo = [o \in Owner |-> {}]
    /\ stack = [o \in Owner |-> << >>]

(* The call returns or raises: an owner out of holds is finished. *)
Returns(o) == /\ pc' = [pc EXCEPT ![o] = IF stack'[o] = << >> THEN "done" ELSE "ready"]
              /\ want' = [want EXCEPT ![o] = {}]
              /\ todo' = [todo EXCEPT ![o] = {}]
              /\ op' = [op EXCEPT ![o] = "none"]

(* The `finally: path.unlink()` of _registry: it removes whatever mutex    *)
(* file is there.                                                          *)
LeaveRegistry == mutex' = None /\ mutexOld' = FALSE

(* acquire(K, o) up to its loop; LockOrderError raises before any effect.  *)
Acquire(o, K) ==
    /\ pc[o] = "ready" /\ K # {}
    /\ Len(stack[o]) < MaxNest /\ \A k \in K : held[o][k] < MaxNest
    /\ InOrder(o, K)
    /\ pc' = [pc EXCEPT ![o] = "queued"]
    /\ op' = [op EXCEPT ![o] = "acquire"]
    /\ want' = [want EXCEPT ![o] = K]
    /\ UNCHANGED <<alive, mutex, mutexOld, lock, held, todo, stack>>

(* The end of a `with hold(...)` block: release of the innermost hold.     *)
Release(o) ==
    /\ pc[o] = "ready" /\ stack[o] # << >>
    /\ pc' = [pc EXCEPT ![o] = "queued"]
    /\ op' = [op EXCEPT ![o] = "release"]
    /\ want' = [want EXCEPT ![o] = stack[o][Len(stack[o])]]
    /\ stack' = [stack EXCEPT ![o] = SubSeq(@, 1, Len(@) - 1)]
    /\ UNCHANGED <<alive, mutex, mutexOld, lock, held, todo>>

(* _registry: os.open(.registry.mutex, O_CREAT | O_EXCL) succeeds. *)
EnterRegistry(o) ==
    /\ pc[o] = "queued" /\ mutex = None
    /\ mutex' = o /\ mutexOld' = FALSE
    /\ pc' = [pc EXCEPT ![o] = "inside"]
    /\ UNCHANGED <<alive, lock, op, memory>>

(* _registry: FileExistsError, and stat() shows a mutex over 30 s old. *)
SeeOldMutex(o) ==
    /\ pc[o] = "queued" /\ mutex # None /\ mutexOld
    /\ pc' = [pc EXCEPT ![o] = "breaking"]
    /\ UNCHANGED <<alive, mutex, mutexOld, lock, op, memory>>

(* ... path.unlink(): of the file that has that name now. *)
BreakMutex(o) ==
    /\ pc[o] = "breaking"
    /\ LeaveRegistry
    /\ pc' = [pc EXCEPT ![o] = "queued"]
    /\ UNCHANGED <<alive, lock, op, memory>>

(* _registry: TimeoutError. acquire fails; a release leaves its files.     *)
RegistryBusy(o) ==
    /\ "registry-timeout" \in Faults
    /\ pc[o] = "queued" /\ mutex # None
    /\ UNCHANGED <<alive, mutex, mutexOld, lock, held, stack>>
    /\ Returns(o)

(* acquire under the registry, no blocker: every stale rival is unlinked.  *)
ScanFree(o) ==
    /\ pc[o] = "inside" /\ op[o] = "acquire" /\ Blockers(o) = {}
    /\ lock' = Unlinked(StaleRivals(o))
    /\ pc' = [pc EXCEPT ![o] = "creating"]
    /\ todo' = [todo EXCEPT ![o] = want[o]]
    /\ UNCHANGED <<alive, mutex, mutexOld, held, op, want, stack>>

(* A blocker: the scan stops at it, having unlinked the stale rivals it    *)
(* met before, and the loop sleeps and retries.                            *)
ScanBlocked(o) ==
    /\ pc[o] = "inside" /\ op[o] = "acquire" /\ Blockers(o) # {}
    /\ \E S \in SUBSET StaleRivals(o) : lock' = Unlinked(S)
    /\ LeaveRegistry
    /\ pc' = [pc EXCEPT ![o] = "queued"]
    /\ UNCHANGED <<alive, op, memory>>

(* A blocker past the deadline: ResourceLockConflictError. *)
Conflicted(o) ==
    /\ "impatient" \in Faults
    /\ pc[o] = "inside" /\ op[o] = "acquire" /\ Blockers(o) # {}
    /\ \E S \in SUBSET StaleRivals(o) : lock' = Unlinked(S)
    /\ LeaveRegistry
    /\ UNCHANGED <<alive, held, stack>>
    /\ Returns(o)

(* One iteration of the creation loop: an own record is re-entered, a      *)
(* missing file is created with O_EXCL.                                    *)
CreateKey(o) ==
    /\ pc[o] = "creating"
    /\ \E k \in Key :
         /\ IsNext(o, k)
         /\ Mine(o, k) \/ lock[k] = None
         /\ lock' = [lock EXCEPT ![k] = IF Mine(o, k) THEN @ ELSE Own(o)]
         /\ held' = [held EXCEPT ![o][k] = @ + 1]
         /\ todo' = [todo EXCEPT ![o] = @ \ {k}]
    /\ UNCHANGED <<alive, mutex, mutexOld, pc, op, want, stack>>

(* The file exists but _read_all could not see it: FileExistsError leaves  *)
(* the call; the keys created so far stay, and so do their counts.         *)
CreateFails(o) ==
    /\ pc[o] = "creating"
    /\ \E k \in Key : IsNext(o, k) /\ ~Mine(o, k) /\ lock[k] # None
    /\ LeaveRegistry
    /\ UNCHANGED <<alive, lock, held, stack>>
    /\ Returns(o)

(* acquire returns the keys. *)
AcquireReturns(o) ==
    /\ pc[o] = "creating" /\ todo[o] = {}
    /\ LeaveRegistry
    /\ stack' = [stack EXCEPT ![o] = Append(@, want[o])]
    /\ UNCHANGED <<alive, lock, held>>
    /\ Returns(o)

(* release under the registry: a key an enclosing hold still counts stays. *)
MutantEveryReleaseIsLast(o, k) == TRUE
LastCount(o, k) == held[o][k] <= 1
DoRelease(o) ==
    /\ pc[o] = "inside" /\ op[o] = "release"
    /\ lock' = Unlinked({k \in want[o] : LastCount(o, k) /\ Mine(o, k)})
    /\ held' = [held EXCEPT ![o] = [k \in Key |-> IF k \notin want[o] THEN @[k]
                                      ELSE IF LastCount(o, k) THEN 0 ELSE @[k] - 1]]
    /\ LeaveRegistry
    /\ UNCHANGED <<alive, stack>>
    /\ Returns(o)

(* The heartbeat thread of a hold, alive while the block runs. *)
Heartbeat(o) ==
    /\ stack[o] # << >> /\ mutex = None
    /\ \E k \in Key : Mine(o, k) /\ ~lock[k].fresh
    /\ lock' = [k \in Key |-> IF Mine(o, k) THEN Own(o) ELSE lock[k]]
    /\ UNCHANGED <<alive, mutex, mutexOld, pc, op, memory>>

(* release_interrupted(o), called by process q when it recovers o's job. *)
ReleaseInterrupted(q, o) ==
    /\ q \in alive /\ q # ProcOf[o] /\ mutex = None
    /\ ~(HostOf[q] = HostOf[ProcOf[o]] /\ ProcOf[o] \in alive)
    /\ \E k \in Key : Mine(o, k)
    /\ lock' = Unlinked({k \in Key : Mine(o, k)})
    /\ UNCHANGED <<alive, mutex, mutexOld, pc, op, memory>>

(* reclaim_stale(), called in owner o's process. *)
ReclaimStale(o) ==
    /\ ProcOf[o] \in alive /\ mutex = None
    /\ \E k \in Key : IsRec(k) /\ IsStale(o, k)
    /\ lock' = Unlinked({k \in Key : IsRec(k) /\ IsStale(o, k)})
    /\ UNCHANGED <<alive, mutex, mutexOld, pc, op, memory>>

(* Time: more than ttl seconds since the last heartbeat of a key. *)
Expire(k) ==
    /\ IsRec(k) /\ lock[k].fresh
    /\ lock' = [lock EXCEPT ![k].fresh = FALSE]
    /\ UNCHANGED <<alive, mutex, mutexOld, pc, op, memory>>

(* Time: "a mutex older than 30 s is from a dead process". *)
MutexAges ==
    /\ "mutex-ages" \in Faults
    /\ mutex # None /\ ~mutexOld /\ ProcOf[mutex] \notin alive
    /\ mutexOld' = TRUE
    /\ UNCHANGED <<alive, mutex, lock, pc, op, memory>>

InRegistry(o) == pc[o] \in {"inside", "creating"}
Dies(p) ==
    /\ p \in alive
    /\ "mid-section" \in Faults \/ \A o \in Owner : ProcOf[o] = p => ~InRegistry(o)
    /\ alive' = alive \ {p}
    /\ pc' = [o \in Owner |-> IF ProcOf[o] = p THEN "dead" ELSE pc[o]]
    /\ op' = [o \in Owner |-> IF ProcOf[o] = p THEN "none" ELSE op[o]]
    /\ held' = [o \in Owner |-> IF ProcOf[o] = p THEN [k \in Key |-> 0] ELSE held[o]]
    /\ want' = [o \in Owner |-> IF ProcOf[o] = p THEN {} ELSE want[o]]
    /\ todo' = [o \in Owner |-> IF ProcOf[o] = p THEN {} ELSE todo[o]]
    /\ stack' = [o \in Owner |-> IF ProcOf[o] = p THEN << >> ELSE stack[o]]
    /\ UNCHANGED <<mutex, mutexOld>>

Crash(p) == Dies(p) /\ UNCHANGED lock

(* ... between os.open(O_CREAT | O_EXCL) and os.write of a key's file. *)
CrashTearing(o) ==
    /\ "torn-write" \in Faults
    /\ pc[o] = "creating"
    /\ \E k \in Key : /\ IsNext(o, k) /\ lock[k] = None
                      /\ lock' = [lock EXCEPT ![k] = Torn]
    /\ Dies(ProcOf[o])

-----------------------------------------------------------------------------
Step(o) == \/ EnterRegistry(o) \/ SeeOldMutex(o) \/ BreakMutex(o) \/ RegistryBusy(o)
           \/ ScanFree(o) \/ ScanBlocked(o) \/ Conflicted(o)
           \/ CreateKey(o) \/ CreateFails(o) \/ AcquireReturns(o) \/ DoRelease(o)

Next == \/ \E o \in Owner : \/ \E K \in KeySets : Acquire(o, K)
                            \/ Release(o) \/ Step(o) \/ Heartbeat(o) \/ ReclaimStale(o)
                            \/ CrashTearing(o)
                            \/ \E q \in Proc : ReleaseInterrupted(q, o)
        \/ \E k \in Key : Expire(k)
        \/ MutexAges
        \/ \E p \in Proc : Crash(p)

Spec == Init /\ [][Next]_vars

(* Threads keep running, blocks end, time passes; nobody has to crash, to  *)
(* ask for a lock, or to send a heartbeat in time.  Entering the registry  *)
(* is strongly fair: the mutex is polled every 5 ms and held for moments.  *)
Fairness ==
    /\ \A o \in Owner : WF_vars(Release(o)) /\ WF_vars(Step(o)) /\ SF_vars(EnterRegistry(o))
    /\ \A k \in Key : WF_vars(Expire(k) /\ ~HolderAlive(k))
    /\ WF_vars(MutexAges)

FairSpec == Spec /\ Fairness

-----------------------------------------------------------------------------
(* Every variable has its type.  (The data ResourceLocks keeps in memory   *)
(* and in the locks directory.)                                            *)
TypeOK ==
    /\ alive \subseteq Proc
    /\ mutex \in Owner \cup {None} /\ mutexOld \in BOOLEAN
    /\ lock \in [Key -> LockRec \cup {None, Torn}]
    /\ held \in [Owner -> [Key -> Nat]]
    /\ pc \in [Owner -> {"ready", "queued", "breaking", "inside", "creating", "done", "dead"}]
    /\ op \in [Owner -> {"none", "acquire", "release"}]
    /\ want \in [Owner -> SUBSET Key] /\ todo \in [Owner -> SUBSET Key]
    /\ stack \in [Owner -> Seq(SUBSET Key)]

(* "two processes can never both believe they hold conflicting keys": the  *)
(* holds of two different owners are compatible.                           *)
MutualExclusion ==
    \A o, p \in Owner : o # p =>
        \A a \in Granted(o), b \in Granted(p) : ~Conflicts(a, b)

(* What an owner relies on is backed by its own file: a nested release, a  *)
(* sweep or a recovery never takes a key an enclosing hold still needs.    *)
GrantBacked == \A o \in Owner : \A k \in Granted(o) : Mine(o, k)

(* "rules out deadlock cycles": among any owners waiting in acquire there  *)
(* is one that waits for nothing another of them holds.                    *)
Waiting(o) == pc[o] = "queued" /\ op[o] = "acquire"
WaitsFor(o, p) == \E w \in want[o], k \in Granted(p) : o # p /\ Conflicts(w, k)
NoWaitCycle ==
    \A S \in SUBSET {o \in Owner : Waiting(o)} : S # {} =>
        \E o \in S : \A p \in S : ~WaitsFor(o, p)

(* "A live long operation is therefore never stolen": a record leaves its  *)
(* file only by its owner's own release or after its process is gone.      *)
NotStolen(o, k) == Mine(o, k) /\ ProcOf[o] \in alive =>
                       Mine(o, k)' \/ (pc[o] = "inside" /\ op[o] = "release")
NeverStolen == [][\A o \in Owner, k \in Key : NotStolen(o, k)]_vars

(* DEFAULT_WAIT_SECONDS exceeds the ttl, so a waiter that does not give up *)
(* gets its keys once the holders have released them or died.  Only a key  *)
(* file that a death left torn ends the wait otherwise: the call raises.   *)
FailsOnTorn(o) == pc[o] = "done" /\ \E k \in Key : lock[k] = Torn
WaiterServed ==
    \A o \in Owner : Waiting(o) ~> (stack[o] # << >> \/ pc[o] = "dead" \/ FailsOnTorn(o))

(* Why the locks exclude each other: the facts an acquire or a release     *)
(* keeps true at every step, in a deployment whose registry mutex is sound *)
(* (Sound).  Counts bound what _held must remember: one for each enclosing *)
(* hold, one for a key the creation loop has done, one for a release that  *)
(* has not happened yet.                                                   *)
Sound == "mutex-ages" \notin Faults /\ \A p, q \in Proc : HostOf[p] = HostOf[q]
Depth(s, k) == Cardinality({i \in 1..Len(s) : k \in s[i]})
Pending(o, k) == \/ pc[o] = "creating" /\ k \in want[o] \ todo[o]
                 \/ op[o] = "release" /\ k \in want[o]
OneInRegistry == /\ mutexOld = FALSE
                 /\ \A o \in Owner : /\ pc[o] # "breaking"
                                      /\ (InRegistry(o) => mutex = o)
                                      /\ (pc[o] = "creating" => op[o] = "acquire")
                                      /\ (pc[o] = "dead" <=> ProcOf[o] \notin alive)
CountsKept == \A o \in Owner, k \in Key :
                 /\ held[o][k] >= Depth(stack[o], k) + (IF Pending(o, k) THEN 1 ELSE 0)
                 /\ pc[o] = "dead" => held[o][k] = 0
CountedKeysMine == \A o \in Owner, k \in Key : held[o][k] > 0 => Mine(o, k)
FilesCompatible == \A j, k \in Key :
                      IsRec(j) /\ IsRec(k) /\ lock[j].owner # lock[k].owner => ~Conflicts(j, k)
NoRivalInLoop == \A o \in Owner : pc[o] = "creating" => Rivals(o) = {} /\ todo[o] \subseteq want[o]
IndInv == /\ OneInRegistry /\ CountsKept /\ CountedKeysMine
          /\ FilesCompatible /\ NoRivalInLoop

(* The detailed locks implement the abstract lock service. *)
Service == INSTANCE LockService WITH owns <- [o \in Owner |-> Granted(o)]
ServiceSpec == Service!Spec
=============================================================================
