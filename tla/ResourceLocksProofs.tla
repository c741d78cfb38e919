------------------------ MODULE ResourceLocksProofs ------------------------
(***************************************************************************)
(* Machine-checked theorems about ResourceLocks, for every set of          *)
(* processes, attempts and keys.                                           *)
(***************************************************************************)
EXTENDS ResourceLocks, FiniteSetTheorems, TLAPS

-----------------------------------------------------------------------------
(* Lemmas about the operators. *)

(* Depth counts one more hold after a push and one less after a pop. *)
LEMMA DepthNat ==
    ASSUME NEW s \in Seq(SUBSET Key), NEW k
    PROVE  /\ IsFiniteSet({i \in 1..Len(s) : k \in s[i]})
           /\ Depth(s, k) \in Nat
<1>1. IsFiniteSet(1..Len(s))
  BY FS_Interval
<1>2. IsFiniteSet({i \in 1..Len(s) : k \in s[i]})
  BY <1>1, FS_Subset
<1> QED BY <1>2, FS_CardinalityType DEF Depth

LEMMA DepthPush ==
    ASSUME NEW s \in Seq(SUBSET Key), NEW K \in SUBSET Key, NEW k
    PROVE  Depth(Append(s, K), k) = Depth(s, k) + (IF k \in K THEN 1 ELSE 0)
<1> DEFINE t == Append(s, K)
           A == {i \in 1..Len(s) : k \in s[i]}
<1>1. IsFiniteSet(A) /\ Cardinality(A) \in Nat
  BY DepthNat DEF Depth
<1>2. Len(s) \in Nat /\ Len(t) = Len(s) + 1 /\ t[Len(s) + 1] = K
  OBVIOUS
<1>3. \A i \in 1..Len(s) : t[i] = s[i]
  OBVIOUS
<1>4. CASE k \in K
  <2>1. {i \in 1..Len(t) : k \in t[i]} = A \cup {Len(s) + 1}
    BY <1>2, <1>3, <1>4
  <2>2. Len(s) + 1 \notin A
    BY <1>2
  <2>3. Cardinality(A \cup {Len(s) + 1}) = Cardinality(A) + 1
    BY <2>2, <1>1, FS_AddElement
  <2>4. Depth(t, k) = Depth(s, k) + 1
    BY <2>1, <2>3 DEF Depth
  <2> QED BY <2>4, <1>4
<1>5. CASE k \notin K
  <2>1. {i \in 1..Len(t) : k \in t[i]} = A
    BY <1>2, <1>3, <1>5
  <2>2. Depth(t, k) = Depth(s, k) /\ Depth(s, k) \in Nat
    BY <2>1, <1>1 DEF Depth
  <2> QED BY <2>2, <1>5
<1> QED BY <1>4, <1>5

LEMMA DepthPop ==
    ASSUME NEW s \in Seq(SUBSET Key), s # << >>, NEW k
    PROVE  /\ SubSeq(s, 1, Len(s) - 1) \in Seq(SUBSET Key)
           /\ s[Len(s)] \in SUBSET Key
           /\ Depth(SubSeq(s, 1, Len(s) - 1), k) + (IF k \in s[Len(s)] THEN 1 ELSE 0)
                = Depth(s, k)
<1> DEFINE r == SubSeq(s, 1, Len(s) - 1)
           K == s[Len(s)]
<1>1. Len(s) \in Nat \ {0} /\ K \in SUBSET Key
  OBVIOUS
<1>2. r \in Seq(SUBSET Key)
  BY <1>1
<1>3. s = Append(r, K)
  BY <1>1
<1> HIDE DEF r, K
<1>4. Depth(Append(r, K), k) = Depth(r, k) + (IF k \in K THEN 1 ELSE 0)
  BY <1>1, <1>2, DepthPush
<1>5. Depth(r, k) + (IF k \in K THEN 1 ELSE 0) = Depth(s, k)
  BY <1>3, <1>4
<1> QED BY <1>1, <1>2, <1>5 DEF r, K

(* A key an owner relies on is counted. *)
LEMMA GrantedDepth ==
    ASSUME TypeOK, NEW o \in Owner, NEW k \in Granted(o)
    PROVE  k \in Key /\ Depth(stack[o], k) > 0
<1>1. stack[o] \in Seq(SUBSET Key)
  BY DEF TypeOK
<1>2. PICK i \in 1..Len(stack[o]) : k \in stack[o][i]
  BY DEF Granted
<1> DEFINE A == {j \in 1..Len(stack[o]) : k \in stack[o][j]}
<1>3. IsFiniteSet(A) /\ A # {} /\ Cardinality(A) \in Nat
  BY <1>1, <1>2, DepthNat DEF Depth
<1>4. Cardinality(A) # 0
  BY <1>3, FS_EmptySet
<1> QED BY <1>1, <1>2, <1>3, <1>4 DEF Depth

-----------------------------------------------------------------------------
(* Type correctness. *)
LEMMA TypeInit == Init => TypeOK
<1> SUFFICES ASSUME Init PROVE TypeOK
  OBVIOUS
<1>1. << >> \in Seq(SUBSET Key)
  OBVIOUS
<1>2. stack \in [Owner -> Seq(SUBSET Key)]
  BY <1>1 DEF Init
<1>3. held \in [Owner -> [Key -> Nat]]
  BY DEF Init
<1> QED BY <1>2, <1>3 DEF Init, TypeOK

LEMMA TypeStep ==
    ASSUME TypeOK, [Next]_vars
    PROVE  TypeOK'
<1> USE DEF TypeOK
<1>1. ASSUME NEW o \in Owner, NEW K \in KeySets, Acquire(o, K) PROVE TypeOK'
  BY <1>1, KeySetsAssumption DEF Acquire
<1>2. ASSUME NEW o \in Owner, Release(o) PROVE TypeOK'
  <2>1. /\ SubSeq(stack[o], 1, Len(stack[o]) - 1) \in Seq(SUBSET Key)
        /\ stack[o][Len(stack[o])] \in SUBSET Key
    BY <1>2, DepthPop DEF Release
  <2> QED BY <1>2, <2>1 DEF Release
<1>3. ASSUME NEW o \in Owner, EnterRegistry(o) PROVE TypeOK'
  BY <1>3 DEF EnterRegistry, memory
<1>4. ASSUME NEW o \in Owner, SeeOldMutex(o) PROVE TypeOK'
  BY <1>4 DEF SeeOldMutex, memory
<1>5. ASSUME NEW o \in Owner, BreakMutex(o) PROVE TypeOK'
  BY <1>5 DEF BreakMutex, LeaveRegistry, memory
<1>6. ASSUME NEW o \in Owner, RegistryBusy(o) PROVE TypeOK'
  BY <1>6 DEF RegistryBusy, Returns
<1>7. ASSUME NEW o \in Owner, ScanFree(o) PROVE TypeOK'
  BY <1>7 DEF ScanFree, Unlinked
<1>8. ASSUME NEW o \in Owner, ScanBlocked(o) PROVE TypeOK'
  BY <1>8 DEF ScanBlocked, Unlinked, LeaveRegistry, memory
<1>9. ASSUME NEW o \in Owner, Conflicted(o) PROVE TypeOK'
  BY <1>9 DEF Conflicted, Unlinked, LeaveRegistry, Returns
<1>10. ASSUME NEW o \in Owner, CreateKey(o) PROVE TypeOK'
  BY <1>10 DEF CreateKey, IsNext, Own, LockRec
<1>11. ASSUME NEW o \in Owner, CreateFails(o) PROVE TypeOK'
  BY <1>11 DEF CreateFails, LeaveRegistry, Returns
<1>12. ASSUME NEW o \in Owner, AcquireReturns(o) PROVE TypeOK'
  <2>1. Append(stack[o], want[o]) \in Seq(SUBSET Key)
    OBVIOUS
  <2>2. stack' \in [Owner -> Seq(SUBSET Key)]
    BY <1>12, <2>1 DEF AcquireReturns
  <2>3. /\ pc' \in [Owner -> {"ready", "queued", "breaking", "inside", "creating", "done", "dead"}]
        /\ want' \in [Owner -> SUBSET Key] /\ todo' \in [Owner -> SUBSET Key]
        /\ op' \in [Owner -> {"none", "acquire", "release"}]
    BY <1>12 DEF AcquireReturns, Returns
  <2> QED BY <1>12, <2>2, <2>3 DEF AcquireReturns, LeaveRegistry
<1>13. ASSUME NEW o \in Owner, DoRelease(o) PROVE TypeOK'
  <2>1. lock' \in [Key -> LockRec \cup {None, Torn}]
    BY <1>13 DEF DoRelease, Unlinked
  <2>2. held' \in [Owner -> [Key -> Nat]]
    <3> DEFINE row == [k \in Key |-> IF k \notin want[o] THEN held[o][k]
                                     ELSE IF LastCount(o, k) THEN 0 ELSE held[o][k] - 1]
    <3>1. \A k \in Key : ~LastCount(o, k) => held[o][k] - 1 \in Nat
      BY DEF LastCount
    <3>2. row \in [Key -> Nat]
      BY <3>1
    <3>3. held' = [held EXCEPT ![o] = row]
      BY <1>13 DEF DoRelease
    <3> HIDE DEF row
    <3> QED BY <3>2, <3>3
  <2>3. /\ pc' \in [Owner -> {"ready", "queued", "breaking", "inside", "creating", "done", "dead"}]
        /\ want' \in [Owner -> SUBSET Key] /\ todo' \in [Owner -> SUBSET Key]
        /\ op' \in [Owner -> {"none", "acquire", "release"}]
    BY <1>13 DEF DoRelease, Returns
  <2> QED BY <1>13, <2>1, <2>2, <2>3 DEF DoRelease, LeaveRegistry
<1>14. ASSUME NEW o \in Owner, Heartbeat(o) PROVE TypeOK'
  BY <1>14 DEF Heartbeat, Own, LockRec, memory
<1>15. ASSUME NEW o \in Owner, NEW q \in Proc, ReleaseInterrupted(q, o) PROVE TypeOK'
  BY <1>15 DEF ReleaseInterrupted, Unlinked, memory
<1>15a. ASSUME NEW o \in Owner, ReclaimStale(o) PROVE TypeOK'
  BY <1>15a DEF ReclaimStale, Unlinked, memory
<1>16. ASSUME NEW k \in Key, Expire(k) PROVE TypeOK'
  BY <1>16 DEF Expire, IsRec, LockRec, memory
<1>17. ASSUME MutexAges PROVE TypeOK'
  BY <1>17 DEF MutexAges, memory
<1>18. ASSUME NEW p \in Proc, Dies(p) PROVE /\ alive' \subseteq Proc
                                             /\ mutex' = mutex /\ mutexOld' = mutexOld
                                             /\ held' \in [Owner -> [Key -> Nat]]
                                             /\ pc' \in [Owner -> {"ready", "queued", "breaking", "inside",
                                                                  "creating", "done", "dead"}]
                                             /\ op' \in [Owner -> {"none", "acquire", "release"}]
                                             /\ want' \in [Owner -> SUBSET Key]
                                             /\ todo' \in [Owner -> SUBSET Key]
                                             /\ stack' \in [Owner -> Seq(SUBSET Key)]
  BY <1>18 DEF Dies
<1>19. ASSUME NEW p \in Proc, Crash(p) PROVE TypeOK'
  BY <1>18, <1>19 DEF Crash
<1>20. ASSUME NEW o \in Owner, CrashTearing(o) PROVE TypeOK'
  BY <1>18, <1>20, OwnerAssumption DEF CrashTearing
<1>21. CASE UNCHANGED vars
  BY <1>21 DEF vars
<1> QED BY <1>1, <1>2, <1>3, <1>4, <1>5, <1>6, <1>7, <1>8, <1>9, <1>10, <1>11, <1>12, <1>13,
           <1>14, <1>15, <1>15a, <1>16, <1>17, <1>19, <1>20, <1>21 DEF Next, Step

(* Every variable keeps its type in every reachable state. *)
THEOREM TypeCorrect == Spec => []TypeOK
  BY TypeInit, TypeStep, PTL DEF Spec

(* At most one owner is inside the registry section, and the mutex is its. *)
LEMMA OneInRegistryStep ==
    ASSUME Sound, TypeOK, IndInv, [Next]_vars
    PROVE  OneInRegistry'
<1> USE OwnerAssumption DEF Sound, TypeOK, IndInv, OneInRegistry, InRegistry
<1>1. ASSUME NEW o \in Owner, NEW K \in KeySets, Acquire(o, K) PROVE OneInRegistry'
  BY <1>1 DEF Acquire
<1>2. ASSUME NEW o \in Owner, Release(o) PROVE OneInRegistry'
  BY <1>2 DEF Release
<1>3. ASSUME NEW o \in Owner, EnterRegistry(o) PROVE OneInRegistry'
  BY <1>3 DEF EnterRegistry, memory
<1>4. ASSUME NEW o \in Owner, SeeOldMutex(o) PROVE OneInRegistry'
  BY <1>4 DEF SeeOldMutex, memory
<1>5. ASSUME NEW o \in Owner, BreakMutex(o) PROVE OneInRegistry'
  BY <1>5 DEF BreakMutex, memory
<1>6. ASSUME NEW o \in Owner, RegistryBusy(o) PROVE OneInRegistry'
  BY <1>6 DEF RegistryBusy, Returns
<1>7. ASSUME NEW o \in Owner, ScanFree(o) PROVE OneInRegistry'
  BY <1>7 DEF ScanFree, Unlinked
<1>8. ASSUME NEW o \in Owner, ScanBlocked(o) PROVE OneInRegistry'
  BY <1>8 DEF ScanBlocked, Unlinked, LeaveRegistry, memory
<1>9. ASSUME NEW o \in Owner, Conflicted(o) PROVE OneInRegistry'
  BY <1>9 DEF Conflicted, Unlinked, LeaveRegistry, Returns
<1>10. ASSUME NEW o \in Owner, CreateKey(o) PROVE OneInRegistry'
  BY <1>10 DEF CreateKey, IsNext, Own
<1>11. ASSUME NEW o \in Owner, CreateFails(o) PROVE OneInRegistry'
  BY <1>11 DEF CreateFails, LeaveRegistry, Returns
<1>12. ASSUME NEW o \in Owner, AcquireReturns(o) PROVE OneInRegistry'
  BY <1>12 DEF AcquireReturns, LeaveRegistry, Returns
<1>13. ASSUME NEW o \in Owner, DoRelease(o) PROVE OneInRegistry'
  BY <1>13 DEF DoRelease, Unlinked, LeaveRegistry, Returns, LastCount
<1>14. ASSUME NEW o \in Owner, Heartbeat(o) PROVE OneInRegistry'
  BY <1>14 DEF Heartbeat, Own, memory
<1>15. ASSUME NEW o \in Owner, NEW q \in Proc, ReleaseInterrupted(q, o) PROVE OneInRegistry'
  BY <1>15 DEF ReleaseInterrupted, Unlinked, memory
<1>15a. ASSUME NEW o \in Owner, ReclaimStale(o) PROVE OneInRegistry'
  BY <1>15a DEF ReclaimStale, Unlinked, memory
<1>16. ASSUME NEW k \in Key, Expire(k) PROVE OneInRegistry'
  BY <1>16 DEF Expire, memory
<1>17. ASSUME MutexAges PROVE OneInRegistry'
  BY <1>17 DEF MutexAges, memory
<1>18. ASSUME NEW p \in Proc, Crash(p) PROVE OneInRegistry'
  BY <1>18 DEF Crash, Dies
<1>19. ASSUME NEW o \in Owner, CrashTearing(o) PROVE OneInRegistry'
  BY <1>19 DEF CrashTearing, Dies, IsNext
<1>20. CASE UNCHANGED vars
  BY <1>20 DEF vars
<1> QED BY <1>1, <1>2, <1>3, <1>4, <1>5, <1>6, <1>7, <1>8, <1>9, <1>10, <1>11, <1>12, <1>13, <1>14, <1>15, <1>15a, <1>16, <1>17, <1>18, <1>19, <1>20 DEF Next, Step

(* While a section creates keys, no other owner's file conflicts with them. *)
LEMMA NoRivalStep ==
    ASSUME Sound, TypeOK, IndInv, [Next]_vars
    PROVE  NoRivalInLoop'
<1> USE OwnerAssumption DEF Sound, TypeOK, IndInv, OneInRegistry, InRegistry, NoRivalInLoop, Rivals, IsRec, LockRec
<1>1. ASSUME NEW o \in Owner, NEW K \in KeySets, Acquire(o, K) PROVE NoRivalInLoop'
  BY <1>1 DEF Acquire
<1>2. ASSUME NEW o \in Owner, Release(o) PROVE NoRivalInLoop'
  BY <1>2 DEF Release
<1>3. ASSUME NEW o \in Owner, EnterRegistry(o) PROVE NoRivalInLoop'
  BY <1>3 DEF EnterRegistry, memory
<1>4. ASSUME NEW o \in Owner, SeeOldMutex(o) PROVE NoRivalInLoop'
  BY <1>4 DEF SeeOldMutex, memory
<1>5. ASSUME NEW o \in Owner, BreakMutex(o) PROVE NoRivalInLoop'
  BY <1>5 DEF BreakMutex, memory
<1>6. ASSUME NEW o \in Owner, RegistryBusy(o) PROVE NoRivalInLoop'
  BY <1>6 DEF RegistryBusy, Returns
<1>7. ASSUME NEW o \in Owner, ScanFree(o) PROVE NoRivalInLoop'
  <2>1. Rivals(o)' = {} /\ todo'[o] = want'[o]
    BY <1>7, FileAssumption DEF ScanFree, Unlinked, Blockers, StaleRivals
  <2>2. \A p \in Owner \ {o} : pc'[p] # "creating"
    BY <1>7 DEF ScanFree
  <2> QED BY <2>1, <2>2
<1>8. ASSUME NEW o \in Owner, ScanBlocked(o) PROVE NoRivalInLoop'
  BY <1>8 DEF ScanBlocked, Unlinked, LeaveRegistry, memory
<1>9. ASSUME NEW o \in Owner, Conflicted(o) PROVE NoRivalInLoop'
  BY <1>9 DEF Conflicted, Unlinked, LeaveRegistry, Returns
<1>10. ASSUME NEW o \in Owner, CreateKey(o) PROVE NoRivalInLoop'
  BY <1>10 DEF CreateKey, IsNext, Own
<1>11. ASSUME NEW o \in Owner, CreateFails(o) PROVE NoRivalInLoop'
  BY <1>11 DEF CreateFails, LeaveRegistry, Returns
<1>12. ASSUME NEW o \in Owner, AcquireReturns(o) PROVE NoRivalInLoop'
  BY <1>12 DEF AcquireReturns, LeaveRegistry, Returns
<1>13. ASSUME NEW o \in Owner, DoRelease(o) PROVE NoRivalInLoop'
  BY <1>13 DEF DoRelease, Unlinked, LeaveRegistry, Returns, LastCount
<1>14. ASSUME NEW o \in Owner, Heartbeat(o) PROVE NoRivalInLoop'
  BY <1>14 DEF Heartbeat, Own, memory
<1>15. ASSUME NEW o \in Owner, NEW q \in Proc, ReleaseInterrupted(q, o) PROVE NoRivalInLoop'
  BY <1>15 DEF ReleaseInterrupted, Unlinked, memory
<1>15a. ASSUME NEW o \in Owner, ReclaimStale(o) PROVE NoRivalInLoop'
  BY <1>15a DEF ReclaimStale, Unlinked, memory
<1>16. ASSUME NEW k \in Key, Expire(k) PROVE NoRivalInLoop'
  BY <1>16 DEF Expire, memory
<1>17. ASSUME MutexAges PROVE NoRivalInLoop'
  BY <1>17 DEF MutexAges, memory
<1>18. ASSUME NEW p \in Proc, Crash(p) PROVE NoRivalInLoop'
  BY <1>18 DEF Crash, Dies
<1>19. ASSUME NEW o \in Owner, CrashTearing(o) PROVE NoRivalInLoop'
  BY <1>19 DEF CrashTearing, Dies, IsNext
<1>20. CASE UNCHANGED vars
  BY <1>20 DEF vars
<1> QED BY <1>1, <1>2, <1>3, <1>4, <1>5, <1>6, <1>7, <1>8, <1>9, <1>10, <1>11, <1>12, <1>13, <1>14, <1>15, <1>15a, <1>16, <1>17, <1>18, <1>19, <1>20 DEF Next, Step

(* Files of different owners never conflict. *)
LEMMA FilesStep ==
    ASSUME Sound, TypeOK, IndInv, [Next]_vars
    PROVE  FilesCompatible'
<1> USE OwnerAssumption, FileAssumption DEF Sound, TypeOK, IndInv, OneInRegistry, InRegistry, NoRivalInLoop, Rivals, IsRec, Mine, LockRec, FilesCompatible, Conflicts
<1>1. ASSUME NEW o \in Owner, NEW K \in KeySets, Acquire(o, K) PROVE FilesCompatible'
  BY <1>1 DEF Acquire
<1>2. ASSUME NEW o \in Owner, Release(o) PROVE FilesCompatible'
  BY <1>2 DEF Release
<1>3. ASSUME NEW o \in Owner, EnterRegistry(o) PROVE FilesCompatible'
  BY <1>3 DEF EnterRegistry, memory
<1>4. ASSUME NEW o \in Owner, SeeOldMutex(o) PROVE FilesCompatible'
  BY <1>4 DEF SeeOldMutex, memory
<1>5. ASSUME NEW o \in Owner, BreakMutex(o) PROVE FilesCompatible'
  BY <1>5 DEF BreakMutex, memory
<1>6. ASSUME NEW o \in Owner, RegistryBusy(o) PROVE FilesCompatible'
  BY <1>6 DEF RegistryBusy, Returns
<1>7. ASSUME NEW o \in Owner, ScanFree(o) PROVE FilesCompatible'
  BY <1>7 DEF ScanFree, Unlinked
<1>8. ASSUME NEW o \in Owner, ScanBlocked(o) PROVE FilesCompatible'
  BY <1>8 DEF ScanBlocked, Unlinked, LeaveRegistry, memory
<1>9. ASSUME NEW o \in Owner, Conflicted(o) PROVE FilesCompatible'
  BY <1>9 DEF Conflicted, Unlinked, LeaveRegistry, Returns
<1>10. ASSUME NEW o \in Owner, CreateKey(o) PROVE FilesCompatible'
  <2>1. PICK k \in Key : /\ k \in want[o]
                         /\ lock' = [lock EXCEPT ![k] = IF Mine(o, k) THEN @ ELSE Own(o)]
    BY <1>10 DEF CreateKey, IsNext
  <2>2. Rivals(o) = {}
    BY <1>10 DEF CreateKey
  <2>3. \A j \in Key : IsRec(j) /\ lock[j].owner # o => ~Conflicts(k, j)
    BY <2>1, <2>2
  <2>4. \A j \in Key \ {k} : lock'[j] = lock[j]
    BY <2>1
  <2>5. lock'[k] \in LockRec /\ lock'[k].owner = o
    BY <2>1 DEF Own
  <2> QED BY <2>3, <2>4, <2>5
<1>11. ASSUME NEW o \in Owner, CreateFails(o) PROVE FilesCompatible'
  BY <1>11 DEF CreateFails, LeaveRegistry, Returns
<1>12. ASSUME NEW o \in Owner, AcquireReturns(o) PROVE FilesCompatible'
  BY <1>12 DEF AcquireReturns, LeaveRegistry, Returns
<1>13. ASSUME NEW o \in Owner, DoRelease(o) PROVE FilesCompatible'
  BY <1>13 DEF DoRelease, Unlinked, LeaveRegistry, Returns, LastCount
<1>14. ASSUME NEW o \in Owner, Heartbeat(o) PROVE FilesCompatible'
  BY <1>14 DEF Heartbeat, Own, memory
<1>15. ASSUME NEW o \in Owner, NEW q \in Proc, ReleaseInterrupted(q, o) PROVE FilesCompatible'
  BY <1>15 DEF ReleaseInterrupted, Unlinked, memory
<1>15a. ASSUME NEW o \in Owner, ReclaimStale(o) PROVE FilesCompatible'
  BY <1>15a DEF ReclaimStale, Unlinked, memory
<1>16. ASSUME NEW k \in Key, Expire(k) PROVE FilesCompatible'
  BY <1>16 DEF Expire, memory
<1>17. ASSUME MutexAges PROVE FilesCompatible'
  BY <1>17 DEF MutexAges, memory
<1>18. ASSUME NEW p \in Proc, Crash(p) PROVE FilesCompatible'
  BY <1>18 DEF Crash, Dies
<1>19. ASSUME NEW o \in Owner, CrashTearing(o) PROVE FilesCompatible'
  BY <1>19 DEF CrashTearing, Dies, IsNext
<1>20. CASE UNCHANGED vars
  BY <1>20 DEF vars
<1> QED BY <1>1, <1>2, <1>3, <1>4, <1>5, <1>6, <1>7, <1>8, <1>9, <1>10, <1>11, <1>12, <1>13, <1>14, <1>15, <1>15a, <1>16, <1>17, <1>18, <1>19, <1>20 DEF Next, Step

(* _held never forgets a hold. *)
LEMMA CountsStep ==
    ASSUME TypeOK, IndInv, [Next]_vars
    PROVE  CountsKept'
<1> USE OwnerAssumption DEF IndInv
<1>a. \A p \in Owner, k \in Key : /\ Depth(stack[p], k) \in Nat /\ held[p][k] \in Nat
                                  /\ stack[p] \in Seq(SUBSET Key)
  <2> TAKE p \in Owner, k \in Key
  <2>1. held[p][k] \in Nat /\ stack[p] \in Seq(SUBSET Key)
    BY DEF TypeOK
  <2> QED BY <2>1, DepthNat
<1>0. ASSUME stack' = stack, held' = held,
             \A p \in Owner, k \in Key : Pending(p, k)' => Pending(p, k),
             \A p \in Owner : pc'[p] = "dead" => pc[p] = "dead"
      PROVE  CountsKept'
  <2> SUFFICES ASSUME NEW p \in Owner, NEW k \in Key
               PROVE  /\ held[p][k] >= Depth(stack[p], k) + (IF Pending(p, k)' THEN 1 ELSE 0)
                      /\ pc'[p] = "dead" => held[p][k] = 0
    BY <1>0 DEF CountsKept
  <2> QED BY <1>0, <1>a DEF CountsKept
<1>1. ASSUME NEW o \in Owner, NEW K \in KeySets, Acquire(o, K) PROVE CountsKept'
  <2>1. /\ stack' = stack /\ held' = held
        /\ \A p \in Owner, k \in Key : Pending(p, k)' => Pending(p, k)
        /\ \A p \in Owner : pc'[p] = "dead" => pc[p] = "dead"
    BY <1>1 DEF Acquire, Pending, OneInRegistry, InRegistry, TypeOK
  <2> QED BY <2>1, <1>0
<1>2. ASSUME NEW o \in Owner, Release(o) PROVE CountsKept'
  <2> SUFFICES ASSUME NEW p \in Owner, NEW k \in Key
               PROVE  /\ held[p][k] >= Depth(stack'[p], k) + (IF Pending(p, k)' THEN 1 ELSE 0)
                      /\ pc'[p] = "dead" => held[p][k] = 0
    BY <1>2 DEF Release, CountsKept
  <2>1. pc'[p] = "dead" => pc[p] = "dead"
    BY <1>2 DEF Release, TypeOK
  <2>2. CASE p = o
    <3> DEFINE r == SubSeq(stack[o], 1, Len(stack[o]) - 1)
               K == stack[o][Len(stack[o])]
    <3>1. Depth(r, k) + (IF k \in K THEN 1 ELSE 0) = Depth(stack[o], k) /\ Depth(r, k) \in Nat
      BY <1>2, <1>a, DepthPop, DepthNat DEF Release
    <3>2. stack'[o] = r /\ want'[o] = K /\ pc'[o] = "queued" /\ op'[o] = "release"
      BY <1>2 DEF Release, TypeOK
    <3>3. Pending(o, k)' <=> k \in K
      BY <3>2 DEF Pending
    <3>4. held[o][k] >= Depth(stack[o], k)
      BY <1>a DEF CountsKept
    <3> HIDE DEF r, K
    <3>5. held[o][k] >= Depth(r, k) + (IF Pending(o, k)' THEN 1 ELSE 0)
      BY <3>1, <3>3, <3>4, <1>a
    <3> QED BY <3>2, <3>5, <2>1, <2>2 DEF CountsKept
  <2>3. CASE p # o
    <3>1. stack'[p] = stack[p] /\ (Pending(p, k)' <=> Pending(p, k))
      BY <1>2, <2>3 DEF Release, Pending, TypeOK
    <3> QED BY <3>1, <2>1 DEF CountsKept
  <2> QED BY <2>2, <2>3
<1>3. ASSUME NEW o \in Owner, EnterRegistry(o) PROVE CountsKept'
  <2>1. /\ stack' = stack /\ held' = held
        /\ \A p \in Owner, k \in Key : Pending(p, k)' => Pending(p, k)
        /\ \A p \in Owner : pc'[p] = "dead" => pc[p] = "dead"
    BY <1>3 DEF EnterRegistry, memory, Pending, OneInRegistry, InRegistry, TypeOK
  <2> QED BY <2>1, <1>0
<1>4. ASSUME NEW o \in Owner, SeeOldMutex(o) PROVE CountsKept'
  <2>1. /\ stack' = stack /\ held' = held
        /\ \A p \in Owner, k \in Key : Pending(p, k)' => Pending(p, k)
        /\ \A p \in Owner : pc'[p] = "dead" => pc[p] = "dead"
    BY <1>4 DEF SeeOldMutex, memory, Pending, OneInRegistry, InRegistry, TypeOK
  <2> QED BY <2>1, <1>0
<1>5. ASSUME NEW o \in Owner, BreakMutex(o) PROVE CountsKept'
  <2>1. /\ stack' = stack /\ held' = held
        /\ \A p \in Owner, k \in Key : Pending(p, k)' => Pending(p, k)
        /\ \A p \in Owner : pc'[p] = "dead" => pc[p] = "dead"
    BY <1>5 DEF BreakMutex, memory, Pending, OneInRegistry, InRegistry, TypeOK
  <2> QED BY <2>1, <1>0
<1>6. ASSUME NEW o \in Owner, RegistryBusy(o) PROVE CountsKept'
  <2>1. /\ stack' = stack /\ held' = held
        /\ \A p \in Owner, k \in Key : Pending(p, k)' => Pending(p, k)
        /\ \A p \in Owner : pc'[p] = "dead" => pc[p] = "dead"
    BY <1>6 DEF RegistryBusy, Returns, Pending, OneInRegistry, InRegistry, TypeOK
  <2> QED BY <2>1, <1>0
<1>7. ASSUME NEW o \in Owner, ScanFree(o) PROVE CountsKept'
  <2>1. /\ stack' = stack /\ held' = held
        /\ \A p \in Owner, k \in Key : Pending(p, k)' => Pending(p, k)
        /\ \A p \in Owner : pc'[p] = "dead" => pc[p] = "dead"
    BY <1>7 DEF ScanFree, Pending, OneInRegistry, InRegistry, TypeOK
  <2> QED BY <2>1, <1>0
<1>8. ASSUME NEW o \in Owner, ScanBlocked(o) PROVE CountsKept'
  <2>1. /\ stack' = stack /\ held' = held
        /\ \A p \in Owner, k \in Key : Pending(p, k)' => Pending(p, k)
        /\ \A p \in Owner : pc'[p] = "dead" => pc[p] = "dead"
    BY <1>8 DEF ScanBlocked, memory, Pending, OneInRegistry, InRegistry, TypeOK
  <2> QED BY <2>1, <1>0
<1>9. ASSUME NEW o \in Owner, Conflicted(o) PROVE CountsKept'
  <2>1. /\ stack' = stack /\ held' = held
        /\ \A p \in Owner, k \in Key : Pending(p, k)' => Pending(p, k)
        /\ \A p \in Owner : pc'[p] = "dead" => pc[p] = "dead"
    BY <1>9 DEF Conflicted, Returns, Pending, OneInRegistry, InRegistry, TypeOK
  <2> QED BY <2>1, <1>0
<1>10. ASSUME NEW o \in Owner, CreateKey(o) PROVE CountsKept'
  <2>1. PICK k \in Key : /\ held' = [held EXCEPT ![o][k] = @ + 1]
                         /\ todo' = [todo EXCEPT ![o] = @ \ {k}]
    BY <1>10 DEF CreateKey
  <2>2. stack' = stack /\ pc' = pc /\ op' = op /\ want' = want /\ pc[o] = "creating"
    BY <1>10 DEF CreateKey
  <2> SUFFICES ASSUME NEW p \in Owner, NEW j \in Key
               PROVE  /\ held'[p][j] >= Depth(stack[p], j) + (IF Pending(p, j)' THEN 1 ELSE 0)
                      /\ pc[p] = "dead" => held'[p][j] = 0
    BY <2>2 DEF CountsKept
  <2>3. CASE p = o /\ j = k
    <3>1. held'[p][j] = held[p][j] + 1
      BY <2>1, <2>3 DEF TypeOK
    <3>2. held[p][j] >= Depth(stack[p], j)
      BY <1>a DEF CountsKept
    <3> QED BY <3>1, <3>2, <2>2, <2>3, <1>a
  <2>4. CASE ~(p = o /\ j = k)
    <3>1. held'[p][j] = held[p][j]
      BY <2>1, <2>4 DEF TypeOK
    <3>2. Pending(p, j)' <=> Pending(p, j)
      BY <2>1, <2>2, <2>4 DEF Pending, TypeOK
    <3> QED BY <3>1, <3>2 DEF CountsKept
  <2> QED BY <2>3, <2>4
<1>11. ASSUME NEW o \in Owner, CreateFails(o) PROVE CountsKept'
  <2>1. /\ stack' = stack /\ held' = held
        /\ \A p \in Owner, k \in Key : Pending(p, k)' => Pending(p, k)
        /\ \A p \in Owner : pc'[p] = "dead" => pc[p] = "dead"
    BY <1>11 DEF CreateFails, Returns, Pending, OneInRegistry, InRegistry, TypeOK
  <2> QED BY <2>1, <1>0
<1>12. ASSUME NEW o \in Owner, AcquireReturns(o) PROVE CountsKept'
  <2>1. held' = held /\ pc[o] = "creating" /\ todo[o] = {} /\ op[o] = "acquire"
    BY <1>12 DEF AcquireReturns, OneInRegistry
  <2> SUFFICES ASSUME NEW p \in Owner, NEW k \in Key
               PROVE  /\ held[p][k] >= Depth(stack'[p], k) + (IF Pending(p, k)' THEN 1 ELSE 0)
                      /\ pc'[p] = "dead" => held[p][k] = 0
    BY <2>1 DEF CountsKept
  <2>2. pc'[p] = "dead" => pc[p] = "dead"
    BY <1>12 DEF AcquireReturns, Returns, TypeOK
  <2>3. CASE p = o
    <3>1. stack'[o] = Append(stack[o], want[o]) /\ want[o] \in SUBSET Key
      BY <1>12 DEF AcquireReturns, TypeOK
    <3>2. ~Pending(o, k)'
      BY <1>12 DEF AcquireReturns, Returns, Pending, TypeOK
    <3>3. Pending(o, k) <=> k \in want[o]
      BY <2>1 DEF Pending
    <3>4. Depth(stack'[o], k) = Depth(stack[o], k) + (IF k \in want[o] THEN 1 ELSE 0)
      <4>1. \A s \in Seq(SUBSET Key), K \in SUBSET Key :
               Depth(Append(s, K), k) = Depth(s, k) + (IF k \in K THEN 1 ELSE 0)
        BY DepthPush
      <4> QED BY <3>1, <4>1, <1>a
    <3>5. held[o][k] >= Depth(stack[o], k) + (IF k \in want[o] THEN 1 ELSE 0)
      BY <3>3 DEF CountsKept
    <3>6. held[o][k] >= Depth(stack'[o], k) + 0
      BY <3>4, <3>5, <1>a
    <3> QED BY <3>2, <3>6, <2>2, <2>3 DEF CountsKept
  <2>4. CASE p # o
    <3>1. stack'[p] = stack[p] /\ (Pending(p, k)' <=> Pending(p, k))
      BY <1>12, <2>4 DEF AcquireReturns, Returns, Pending, TypeOK
    <3> QED BY <3>1, <2>2 DEF CountsKept
  <2> QED BY <2>3, <2>4
<1>13. ASSUME NEW o \in Owner, DoRelease(o) PROVE CountsKept'
  <2>1. stack' = stack /\ op[o] = "release" /\ pc[o] = "inside"
    BY <1>13 DEF DoRelease
  <2> SUFFICES ASSUME NEW p \in Owner, NEW k \in Key
               PROVE  /\ held'[p][k] >= Depth(stack[p], k) + (IF Pending(p, k)' THEN 1 ELSE 0)
                      /\ pc'[p] = "dead" => held'[p][k] = 0
    BY <2>1 DEF CountsKept
  <2>2. pc'[p] = "dead" => pc[p] = "dead" /\ p # o
    BY <1>13 DEF DoRelease, Returns, TypeOK
  <2>3. CASE p = o
    <3>1. ~Pending(o, k)'
      BY <1>13 DEF DoRelease, Returns, Pending, TypeOK
    <3>2. CASE k \notin want[o]
      <4>1. held'[o][k] = held[o][k]
        BY <1>13, <3>2 DEF DoRelease, TypeOK
      <4>2. held[o][k] >= Depth(stack[o], k)
        BY <1>a DEF CountsKept
      <4> QED BY <4>1, <4>2, <3>1, <2>2, <2>3, <1>a
    <3>3. CASE k \in want[o]
      <4>1. Pending(o, k)
        BY <3>3, <2>1 DEF Pending
      <4>2. held[o][k] >= Depth(stack[o], k) + 1
        BY <4>1 DEF CountsKept
      <4>3. held'[o][k] = IF held[o][k] <= 1 THEN 0 ELSE held[o][k] - 1
        BY <1>13, <3>3 DEF DoRelease, LastCount, TypeOK
      <4> QED BY <4>2, <4>3, <3>1, <2>2, <2>3, <1>a
    <3> QED BY <3>2, <3>3
  <2>4. CASE p # o
    <3>1. held'[p][k] = held[p][k] /\ (Pending(p, k)' <=> Pending(p, k))
      BY <1>13, <2>4 DEF DoRelease, Returns, Pending, TypeOK
    <3> QED BY <3>1, <2>2 DEF CountsKept
  <2> QED BY <2>3, <2>4
<1>14. ASSUME NEW o \in Owner, Heartbeat(o) PROVE CountsKept'
  <2>1. /\ stack' = stack /\ held' = held
        /\ \A p \in Owner, k \in Key : Pending(p, k)' => Pending(p, k)
        /\ \A p \in Owner : pc'[p] = "dead" => pc[p] = "dead"
    BY <1>14 DEF Heartbeat, memory, Pending, OneInRegistry, InRegistry, TypeOK
  <2> QED BY <2>1, <1>0
<1>15. ASSUME NEW o \in Owner, NEW q \in Proc, ReleaseInterrupted(q, o) PROVE CountsKept'
  <2>1. /\ stack' = stack /\ held' = held
        /\ \A p \in Owner, k \in Key : Pending(p, k)' => Pending(p, k)
        /\ \A p \in Owner : pc'[p] = "dead" => pc[p] = "dead"
    BY <1>15 DEF ReleaseInterrupted, memory, Pending, OneInRegistry, InRegistry, TypeOK
  <2> QED BY <2>1, <1>0
<1>15a. ASSUME NEW o \in Owner, ReclaimStale(o) PROVE CountsKept'
  <2>1. /\ stack' = stack /\ held' = held
        /\ \A p \in Owner, k \in Key : Pending(p, k)' => Pending(p, k)
        /\ \A p \in Owner : pc'[p] = "dead" => pc[p] = "dead"
    BY <1>15a DEF ReclaimStale, memory, Pending, OneInRegistry, InRegistry, TypeOK
  <2> QED BY <2>1, <1>0
<1>16. ASSUME NEW x \in Key, Expire(x) PROVE CountsKept'
  <2>1. /\ stack' = stack /\ held' = held
        /\ \A p \in Owner, k \in Key : Pending(p, k)' => Pending(p, k)
        /\ \A p \in Owner : pc'[p] = "dead" => pc[p] = "dead"
    BY <1>16 DEF Expire, memory, Pending, OneInRegistry, InRegistry, TypeOK
  <2> QED BY <2>1, <1>0
<1>17. ASSUME MutexAges PROVE CountsKept'
  <2>1. /\ stack' = stack /\ held' = held
        /\ \A p \in Owner, k \in Key : Pending(p, k)' => Pending(p, k)
        /\ \A p \in Owner : pc'[p] = "dead" => pc[p] = "dead"
    BY <1>17 DEF MutexAges, memory, Pending, OneInRegistry, InRegistry, TypeOK
  <2> QED BY <2>1, <1>0
<1>18. ASSUME NEW q \in Proc, Dies(q) PROVE CountsKept'
  <2> SUFFICES ASSUME NEW p \in Owner, NEW k \in Key
               PROVE  /\ held'[p][k] >= Depth(stack'[p], k) + (IF Pending(p, k)' THEN 1 ELSE 0)
                      /\ pc'[p] = "dead" => held'[p][k] = 0
    BY DEF CountsKept
  <2>1. CASE ProcOf[p] = q
    <3>1. held'[p][k] = 0 /\ stack'[p] = << >> /\ ~Pending(p, k)'
      BY <1>18, <2>1 DEF Dies, Pending
    <3>2. Depth(<< >>, k) = 0
      BY FS_EmptySet DEF Depth
    <3> QED BY <3>1, <3>2
  <2>2. CASE ProcOf[p] # q
    <3>1. /\ held'[p] = held[p] /\ stack'[p] = stack[p] /\ pc'[p] = pc[p]
          /\ (Pending(p, k)' <=> Pending(p, k))
      BY <1>18, <2>2 DEF Dies, Pending
    <3> QED BY <3>1 DEF CountsKept
  <2> QED BY <2>1, <2>2
<1>19. ASSUME NEW q \in Proc, Crash(q) PROVE CountsKept'
  BY <1>18, <1>19 DEF Crash
<1>20. ASSUME NEW o \in Owner, CrashTearing(o) PROVE CountsKept'
  BY <1>18, <1>20 DEF CrashTearing
<1>21. CASE UNCHANGED vars
  BY <1>21, <1>0 DEF vars, Pending
<1> QED BY <1>1, <1>2, <1>3, <1>4, <1>5, <1>6, <1>7, <1>8, <1>9, <1>10, <1>11, <1>12, <1>13, <1>14, <1>15, <1>15a, <1>16, <1>17, <1>19, <1>20, <1>21 DEF Next, Step

(* A counted key's file is the owner's own. *)
LEMMA CountedStep ==
    ASSUME Sound, TypeOK, IndInv, [Next]_vars
    PROVE  CountedKeysMine'
<1> USE OwnerAssumption DEF Sound, IndInv
<1>r. \A k \in Key : IsRec(k) => lock[k] \in LockRec
  BY DEF TypeOK, IsRec
<1>f. \A r \in LockRec : r \notin {None, Torn}
  BY FileAssumption DEF LockRec
<1>s. \A o, p \in Owner, k \in Key : k \in StaleRivals(o) /\ lock[k].owner = p => held[p][k] = 0
  <2> SUFFICES ASSUME NEW o \in Owner, NEW p \in Owner, NEW k \in Key,
                      k \in StaleRivals(o), lock[k].owner = p
               PROVE  held[p][k] = 0
    OBVIOUS
  <2>1. ProcOf[p] \notin alive
    BY DEF StaleRivals, IsStale, SameHost, HolderAlive
  <2> QED BY <2>1 DEF OneInRegistry, CountsKept
<1>u. ASSUME NEW o \in Owner, held' = held,
             \E S \in SUBSET StaleRivals(o) : lock' = Unlinked(S)
      PROVE  CountedKeysMine'
  <2> SUFFICES ASSUME NEW p \in Owner, NEW k \in Key, held[p][k] > 0
               PROVE  Mine(p, k)'
    BY <1>u DEF CountedKeysMine
  <2>1. Mine(p, k)
    BY DEF CountedKeysMine
  <2>2. k \notin StaleRivals(o)
    BY <1>s, <2>1 DEF Mine
  <2>3. lock'[k] = lock[k]
    BY <1>u, <2>2 DEF Unlinked
  <2> QED BY <2>1, <2>3 DEF Mine, IsRec
<1>1. ASSUME NEW o \in Owner, NEW K \in KeySets, Acquire(o, K) PROVE CountedKeysMine'
  BY <1>1, <1>f, FileAssumption DEF Acquire, TypeOK, OneInRegistry, InRegistry, CountsKept, CountedKeysMine, Mine, IsRec
<1>2. ASSUME NEW o \in Owner, Release(o) PROVE CountedKeysMine'
  BY <1>2, <1>f, FileAssumption DEF Release, TypeOK, OneInRegistry, InRegistry, CountsKept, CountedKeysMine, Mine, IsRec
<1>3. ASSUME NEW o \in Owner, EnterRegistry(o) PROVE CountedKeysMine'
  BY <1>3, <1>f, FileAssumption DEF EnterRegistry, memory, TypeOK, OneInRegistry, InRegistry, CountsKept, CountedKeysMine, Mine, IsRec
<1>4. ASSUME NEW o \in Owner, SeeOldMutex(o) PROVE CountedKeysMine'
  BY <1>4, <1>f, FileAssumption DEF SeeOldMutex, memory, TypeOK, OneInRegistry, InRegistry, CountsKept, CountedKeysMine, Mine, IsRec
<1>5. ASSUME NEW o \in Owner, BreakMutex(o) PROVE CountedKeysMine'
  BY <1>5, <1>f, FileAssumption DEF BreakMutex, memory, TypeOK, OneInRegistry, InRegistry, CountsKept, CountedKeysMine, Mine, IsRec
<1>6. ASSUME NEW o \in Owner, RegistryBusy(o) PROVE CountedKeysMine'
  BY <1>6, <1>f, FileAssumption DEF RegistryBusy, Returns, TypeOK, OneInRegistry, InRegistry, CountsKept, CountedKeysMine, Mine, IsRec
<1>7. ASSUME NEW o \in Owner, ScanFree(o) PROVE CountedKeysMine'
  BY <1>7, <1>u DEF ScanFree
<1>8. ASSUME NEW o \in Owner, ScanBlocked(o) PROVE CountedKeysMine'
  BY <1>8, <1>u DEF ScanBlocked, memory
<1>9. ASSUME NEW o \in Owner, Conflicted(o) PROVE CountedKeysMine'
  BY <1>9, <1>u DEF Conflicted
<1>10. ASSUME NEW o \in Owner, CreateKey(o) PROVE CountedKeysMine'
  <2>1. PICK k \in Key : /\ Mine(o, k) \/ lock[k] = None
                         /\ lock' = [lock EXCEPT ![k] = IF Mine(o, k) THEN @ ELSE Own(o)]
                         /\ held' = [held EXCEPT ![o][k] = @ + 1]
    BY <1>10 DEF CreateKey
  <2> SUFFICES ASSUME NEW p \in Owner, NEW j \in Key, held'[p][j] > 0
               PROVE  Mine(p, j)'
    BY DEF CountedKeysMine
  <2>2. CASE j = k
    <3>1. lock'[k] = (IF Mine(o, k) THEN lock[k] ELSE Own(o)) /\ Own(o) \in LockRec
      BY <2>1 DEF TypeOK, Own, LockRec
    <3>2. Mine(o, k)'
      <4>1. Own(o).owner = o /\ Own(o) \notin {None, Torn}
        BY <3>1, <1>f DEF Own
      <4> QED BY <3>1, <4>1 DEF Mine, IsRec
    <3>3. p # o => held'[p][k] = held[p][k]
      BY <2>1 DEF TypeOK
    <3>4. p = o
      BY <2>1, <2>2, <3>3 DEF CountedKeysMine, Mine, IsRec
    <3> QED BY <2>2, <3>2, <3>4
  <2>3. CASE j # k
    <3>1. held'[p][j] = held[p][j] /\ lock'[j] = lock[j]
      BY <2>1, <2>3 DEF TypeOK
    <3> QED BY <3>1 DEF CountedKeysMine, Mine, IsRec
  <2> QED BY <2>2, <2>3
<1>11. ASSUME NEW o \in Owner, CreateFails(o) PROVE CountedKeysMine'
  BY <1>11, <1>f, FileAssumption DEF CreateFails, LeaveRegistry, Returns, TypeOK, OneInRegistry, InRegistry, CountsKept, CountedKeysMine, Mine, IsRec
<1>12. ASSUME NEW o \in Owner, AcquireReturns(o) PROVE CountedKeysMine'
  BY <1>12, <1>f, FileAssumption DEF AcquireReturns, LeaveRegistry, Returns, TypeOK, OneInRegistry, InRegistry, CountsKept, CountedKeysMine, Mine, IsRec
<1>13. ASSUME NEW o \in Owner, DoRelease(o) PROVE CountedKeysMine'
  BY <1>13, <1>f, FileAssumption DEF DoRelease, Unlinked, LeaveRegistry, Returns, LastCount, TypeOK, OneInRegistry, InRegistry, CountsKept, CountedKeysMine, Mine, IsRec
<1>14. ASSUME NEW o \in Owner, Heartbeat(o) PROVE CountedKeysMine'
  <2>1. held' = held
    BY <1>14 DEF Heartbeat, memory
  <2>2. ASSUME NEW k \in Key, Mine(o, k) PROVE lock'[k] = Own(o) /\ Own(o) \in LockRec
    BY <1>14, <2>2 DEF Heartbeat, Own, LockRec
  <2>3. ASSUME NEW k \in Key, ~Mine(o, k) PROVE lock'[k] = lock[k]
    BY <1>14, <2>3 DEF Heartbeat
  <2>4. \A p \in Owner, k \in Key : Mine(p, k) => Mine(p, k)'
    BY <2>2, <2>3, <1>f DEF Mine, IsRec, Own
  <2> QED BY <2>1, <2>4 DEF CountedKeysMine
<1>15. ASSUME NEW o \in Owner, NEW q \in Proc, ReleaseInterrupted(q, o) PROVE CountedKeysMine'
  BY <1>15, <1>f, FileAssumption DEF ReleaseInterrupted, Unlinked, memory, TypeOK, OneInRegistry, InRegistry, CountsKept, CountedKeysMine, Mine, IsRec
<1>15a. ASSUME NEW o \in Owner, ReclaimStale(o) PROVE CountedKeysMine'
  <2> SUFFICES ASSUME NEW p \in Owner, NEW k \in Key, held'[p][k] > 0
               PROVE  Mine(p, k)'
    BY DEF CountedKeysMine
  <2>1. held[p][k] > 0 /\ Mine(p, k)
    BY <1>15a DEF ReclaimStale, memory, CountedKeysMine
  <2>2. ProcOf[p] \in alive
    BY <2>1, OwnerAssumption DEF TypeOK, OneInRegistry, CountsKept
  <2>3. ~IsStale(o, k)
    BY <2>1, <2>2, OwnerAssumption DEF Sound, IsStale, SameHost, HolderAlive, Mine
  <2> QED BY <1>15a, <2>1, <2>3 DEF ReclaimStale, Unlinked, Mine, IsRec
<1>16. ASSUME NEW k \in Key, Expire(k) PROVE CountedKeysMine'
  <2>1. held' = held /\ IsRec(k)
    BY <1>16 DEF Expire, memory
  <2>2. lock'[k] = [lock[k] EXCEPT !.fresh = FALSE]
    BY <1>16 DEF Expire, TypeOK
  <2>3. lock'[k] \in LockRec /\ lock'[k].owner = lock[k].owner
    BY <2>1, <2>2, <1>r DEF LockRec
  <2>4. \A j \in Key \ {k} : lock'[j] = lock[j]
    BY <1>16 DEF Expire, TypeOK
  <2>5. \A p \in Owner, j \in Key : Mine(p, j) => Mine(p, j)'
    BY <2>3, <2>4, <1>f DEF Mine, IsRec
  <2> QED BY <2>1, <2>5 DEF CountedKeysMine
<1>17. ASSUME MutexAges PROVE CountedKeysMine'
  BY <1>17, <1>f, FileAssumption DEF MutexAges, memory, TypeOK, OneInRegistry, InRegistry, CountsKept, CountedKeysMine, Mine, IsRec
<1>18. ASSUME NEW p \in Proc, Crash(p) PROVE CountedKeysMine'
  BY <1>18, <1>f, FileAssumption DEF Crash, Dies, TypeOK, OneInRegistry, InRegistry, CountsKept, CountedKeysMine, Mine, IsRec
<1>19. ASSUME NEW o \in Owner, CrashTearing(o) PROVE CountedKeysMine'
  BY <1>19, <1>f, FileAssumption DEF CrashTearing, Dies, IsNext, TypeOK, OneInRegistry, InRegistry, CountsKept, CountedKeysMine, Mine, IsRec
<1>20. CASE UNCHANGED vars
  BY <1>20, <1>f, FileAssumption DEF vars, TypeOK, OneInRegistry, InRegistry, CountsKept, CountedKeysMine, Mine, IsRec
<1> QED BY <1>1, <1>2, <1>3, <1>4, <1>5, <1>6, <1>7, <1>8, <1>9, <1>10, <1>11, <1>12, <1>13, <1>14, <1>15, <1>15a, <1>16, <1>17, <1>18, <1>19, <1>20 DEF Next, Step

-----------------------------------------------------------------------------
(* The theorems. *)
LEMMA IndInvInit == Init => IndInv
<1> SUFFICES ASSUME Init PROVE IndInv
  OBVIOUS
<1>1. \A k : Depth(<< >>, k) = 0
  BY FS_EmptySet DEF Depth
<1>2. CountsKept
  BY <1>1 DEF Init, CountsKept, Pending
<1> QED BY <1>2, OwnerAssumption
       DEF Init, IndInv, OneInRegistry, InRegistry, CountedKeysMine, FilesCompatible, NoRivalInLoop, IsRec

LEMMA IndInvStep ==
    ASSUME Sound, TypeOK, IndInv, [Next]_vars
    PROVE  IndInv'
  BY OneInRegistryStep, NoRivalStep, FilesStep, CountsStep, CountedStep DEF IndInv

(* The inductive invariant holds wherever the registry mutex is sound.     *)
THEOREM InvariantHolds == ASSUME Sound PROVE Spec => []IndInv
<1>1. Init => TypeOK /\ IndInv
  BY TypeInit, IndInvInit
<1>2. TypeOK /\ IndInv /\ [Next]_vars => (TypeOK /\ IndInv)'
  BY TypeStep, IndInvStep
<1> QED BY <1>1, <1>2, PTL DEF Spec

LEMMA InvImpliesBacked ==
    ASSUME TypeOK, IndInv
    PROVE  GrantBacked
<1> SUFFICES ASSUME NEW o \in Owner, NEW k \in Granted(o)
             PROVE  Mine(o, k)
  BY DEF GrantBacked
<1>1. k \in Key /\ Depth(stack[o], k) > 0
  BY GrantedDepth
<1>2. held[o][k] \in Nat /\ Depth(stack[o], k) \in Nat
  BY <1>1, DepthNat DEF TypeOK
<1>3. held[o][k] >= Depth(stack[o], k) + (IF Pending(o, k) THEN 1 ELSE 0)
  BY <1>1 DEF IndInv, CountsKept
<1> QED BY <1>1, <1>2, <1>3 DEF IndInv, CountedKeysMine

LEMMA InvImpliesExclusion ==
    ASSUME TypeOK, IndInv
    PROVE  MutualExclusion
<1> SUFFICES ASSUME NEW o \in Owner, NEW p \in Owner, o # p,
                    NEW a \in Granted(o), NEW b \in Granted(p)
             PROVE  ~Conflicts(a, b)
  BY DEF MutualExclusion
<1>1. a \in Key /\ b \in Key
  BY GrantedDepth
<1>2. Mine(o, a) /\ Mine(p, b)
  BY InvImpliesBacked DEF GrantBacked
<1> QED BY <1>1, <1>2 DEF IndInv, FilesCompatible, Mine

(* What an owner relies on is backed by its own lock file, through nested  *)
(* releases, failed calls, reclaims, recoveries and crashes.               *)
THEOREM GrantsAreBacked == ASSUME Sound PROVE Spec => []GrantBacked
  BY TypeCorrect, InvariantHolds, InvImpliesBacked, PTL

(* Two owners never hold conflicting keys.                                 *)
THEOREM LocksExclude == ASSUME Sound PROVE Spec => []MutualExclusion
  BY TypeCorrect, InvariantHolds, InvImpliesExclusion, PTL
(* A key's file, once a live process's, leaves only by its owner's release. *)
LEMMA StepNotStolen ==
    ASSUME Sound, TypeOK, [Next]_vars
    PROVE  \A o \in Owner, k \in Key : NotStolen(o, k)
<1> SUFFICES ASSUME NEW o \in Owner, NEW k \in Key, Mine(o, k), ProcOf[o] \in alive,
                    ~(pc[o] = "inside" /\ op[o] = "release")
             PROVE  Mine(o, k)'
  BY DEF NotStolen
<1>f. \A r \in LockRec : r \notin {None, Torn}
  BY FileAssumption DEF LockRec
<1>0. ASSUME lock'[k] = lock[k] PROVE Mine(o, k)'
  BY <1>0 DEF Mine, IsRec
<1>1. ASSUME NEW p \in Owner, NEW S \in SUBSET StaleRivals(p), lock' = Unlinked(S)
      PROVE  Mine(o, k)'
  <2>1. k \notin StaleRivals(p)
    BY OwnerAssumption DEF Sound, StaleRivals, IsStale, SameHost, HolderAlive, Mine
  <2> QED BY <1>0, <1>1, <2>1 DEF Unlinked
<1>2. ASSUME NEW p \in Owner, ScanFree(p) \/ ScanBlocked(p) \/ Conflicted(p) PROVE Mine(o, k)'
  BY <1>1, <1>2 DEF ScanFree, ScanBlocked, Conflicted
<1>3. ASSUME NEW p \in Owner, CreateKey(p) PROVE Mine(o, k)'
  <2>1. PICK j \in Key : /\ Mine(p, j) \/ lock[j] = None
                         /\ lock' = [lock EXCEPT ![j] = IF Mine(p, j) THEN @ ELSE Own(p)]
    BY <1>3 DEF CreateKey
  <2> QED BY <1>0, <2>1 DEF TypeOK, Mine, IsRec
<1>4. ASSUME NEW p \in Owner, DoRelease(p) PROVE Mine(o, k)'
  <2>1. p # o
    BY <1>4 DEF DoRelease
  <2>2. lock'[k] = lock[k]
    BY <1>4, <2>1 DEF DoRelease, Unlinked, Mine
  <2> QED BY <1>0, <2>2
<1>5. ASSUME NEW p \in Owner, Heartbeat(p) PROVE Mine(o, k)'
  <2>1. lock'[k] = Own(o) \/ lock'[k] = lock[k]
    BY <1>5 DEF Heartbeat, Mine
  <2>2. Own(o) \in LockRec /\ Own(o).owner = o
    BY DEF Own, LockRec
  <2>3. CASE lock'[k] = Own(o)
    BY <2>2, <2>3, <1>f DEF Mine, IsRec
  <2> QED BY <1>0, <2>1, <2>3
<1>6. ASSUME NEW p \in Owner, NEW q \in Proc, ReleaseInterrupted(q, p) PROVE Mine(o, k)'
  <2>1. p # o
    BY <1>6, OwnerAssumption DEF ReleaseInterrupted, Sound
  <2> QED BY <1>0, <1>6, <2>1 DEF ReleaseInterrupted, Unlinked, Mine
<1>6a. ASSUME NEW p \in Owner, ReclaimStale(p) PROVE Mine(o, k)'
  <2>1. ~IsStale(p, k)
    BY <1>0, OwnerAssumption DEF Sound, IsStale, SameHost, HolderAlive, Mine
  <2> QED BY <1>0, <1>6a, <2>1 DEF ReclaimStale, Unlinked, Mine
<1>7. ASSUME NEW j \in Key, Expire(j) PROVE Mine(o, k)'
  <2>1. CASE j = k
    <3>1. lock[k] \in LockRec /\ lock'[k] = [lock[k] EXCEPT !.fresh = FALSE]
      BY <1>7, <2>1 DEF Expire, TypeOK, IsRec
    <3>2. lock'[k] \in LockRec /\ lock'[k].owner = lock[k].owner
      BY <3>1 DEF LockRec
    <3> QED BY <3>2, <1>f DEF Mine, IsRec
  <2>2. CASE j # k
    BY <1>0, <1>7, <2>2 DEF Expire, TypeOK
  <2> QED BY <2>1, <2>2
<1>8. ASSUME NEW p \in Owner, CrashTearing(p) PROVE Mine(o, k)'
  BY <1>0, <1>8 DEF CrashTearing, TypeOK, Mine, IsRec
<1>9. ASSUME NEW p \in Owner, \/ EnterRegistry(p) \/ SeeOldMutex(p) \/ BreakMutex(p) \/ RegistryBusy(p)
                              \/ CreateFails(p) \/ AcquireReturns(p) \/ Release(p)
                              \/ \E K \in KeySets : Acquire(p, K)
      PROVE  Mine(o, k)'
  BY <1>0, <1>9 DEF EnterRegistry, SeeOldMutex, BreakMutex, RegistryBusy, CreateFails,
                    AcquireReturns, Release, Acquire
<1>10. ASSUME MutexAges \/ (\E p \in Proc : Crash(p)) \/ UNCHANGED vars PROVE Mine(o, k)'
  BY <1>0, <1>10 DEF MutexAges, Crash, vars
<1> QED BY <1>2, <1>3, <1>4, <1>5, <1>6, <1>6a, <1>7, <1>8, <1>9, <1>10 DEF Next, Step

(* A live operation's lock is never stolen, however late its heartbeat.    *)
THEOREM LiveLocksAreKept == ASSUME Sound PROVE Spec => NeverStolen
<1>1. TypeOK /\ [Next]_vars => [\A o \in Owner, k \in Key : NotStolen(o, k)]_vars
  BY StepNotStolen
<1> QED BY <1>1, TypeCorrect, PTL DEF Spec, NeverStolen

-----------------------------------------------------------------------------
(* Waits never form a cycle.                                               *)
(* A waiting attempt still satisfies the order its acquire has checked.    *)
InAcquire(o) == op[o] = "acquire" /\ pc[o] \in {"queued", "breaking", "inside"}
WaitersInOrder == \A o \in Owner : InAcquire(o) => InOrder(o, want[o])

LEMMA WaitersInOrderInit == Init => WaitersInOrder
  BY DEF Init, WaitersInOrder, InAcquire

LEMMA WaitersInOrderStep ==
    ASSUME TypeOK, WaitersInOrder, [Next]_vars
    PROVE  WaitersInOrder'
<1> SUFFICES ASSUME NEW o \in Owner, InAcquire(o)' PROVE InOrder(o, want[o])'
  BY DEF WaitersInOrder
<1>0. ASSUME InAcquire(o), held'[o] = held[o], want'[o] = want[o] PROVE InOrder(o, want[o])'
  BY <1>0 DEF WaitersInOrder, InOrder, HeldKeys
<1>1. ASSUME NEW p \in Owner, NEW K \in KeySets, Acquire(p, K) PROVE InOrder(o, want[o])'
  <2>1. CASE p = o
    BY <1>1, <2>1 DEF Acquire, TypeOK, InOrder, HeldKeys
  <2>2. CASE p # o
    BY <1>0, <1>1, <2>2 DEF Acquire, TypeOK, InAcquire
  <2> QED BY <2>1, <2>2
<1>2. ASSUME NEW p \in Owner, Release(p) PROVE InOrder(o, want[o])'
  BY <1>0, <1>2 DEF Release, TypeOK, InAcquire
<1>3. ASSUME NEW p \in Owner, \/ EnterRegistry(p) \/ SeeOldMutex(p) \/ BreakMutex(p) \/ ScanBlocked(p)
      PROVE  InOrder(o, want[o])'
  BY <1>0, <1>3 DEF EnterRegistry, SeeOldMutex, BreakMutex, ScanBlocked, memory, TypeOK, InAcquire
<1>4. ASSUME NEW p \in Owner, RegistryBusy(p) \/ Conflicted(p) \/ CreateFails(p)
      PROVE  InOrder(o, want[o])'
  BY <1>0, <1>4 DEF RegistryBusy, Conflicted, CreateFails, Returns, TypeOK, InAcquire
<1>5. ASSUME NEW p \in Owner, ScanFree(p) PROVE InOrder(o, want[o])'
  BY <1>0, <1>5 DEF ScanFree, TypeOK, InAcquire
<1>6. ASSUME NEW p \in Owner, CreateKey(p) PROVE InOrder(o, want[o])'
  <2>1. p # o
    BY <1>6 DEF CreateKey, InAcquire
  <2>2. held'[o] = held[o] /\ want'[o] = want[o] /\ InAcquire(o)
    BY <1>6, <2>1 DEF CreateKey, TypeOK, InAcquire
  <2> QED BY <1>0, <2>2
<1>7. ASSUME NEW p \in Owner, AcquireReturns(p) PROVE InOrder(o, want[o])'
  BY <1>0, <1>7 DEF AcquireReturns, Returns, TypeOK, InAcquire
<1>8. ASSUME NEW p \in Owner, DoRelease(p) PROVE InOrder(o, want[o])'
  <2>1. p # o
    BY <1>8 DEF DoRelease, Returns, TypeOK, InAcquire
  <2> QED BY <1>0, <1>8, <2>1 DEF DoRelease, Returns, TypeOK, InAcquire
<1>9. ASSUME NEW p \in Owner, \/ Heartbeat(p) \/ ReclaimStale(p)
                              \/ \E q \in Proc : ReleaseInterrupted(q, p)
      PROVE  InOrder(o, want[o])'
  BY <1>0, <1>9 DEF Heartbeat, ReclaimStale, ReleaseInterrupted, memory, InAcquire
<1>10. ASSUME NEW p \in Proc, Dies(p) PROVE InOrder(o, want[o])'
  BY <1>0, <1>10 DEF Dies, InAcquire
<1>11. ASSUME NEW p \in Owner, CrashTearing(p) PROVE InOrder(o, want[o])'
  BY <1>10, <1>11, OwnerAssumption DEF CrashTearing
<1>12. ASSUME (\E k \in Key : Expire(k)) \/ MutexAges \/ UNCHANGED vars PROVE InOrder(o, want[o])'
  BY <1>0, <1>12 DEF Expire, MutexAges, memory, vars, InAcquire
<1> QED BY <1>1, <1>2, <1>3, <1>4, <1>5, <1>6, <1>7, <1>8, <1>9, <1>10, <1>11, <1>12
        DEF Next, Step, Crash

(* A key an owner relies on is held, and its file is the owner's.          *)
LEMMA GrantedHeld ==
    ASSUME TypeOK, IndInv, NEW o \in Owner
    PROVE  /\ Granted(o) \subseteq HeldKeys(o)
           /\ \A k \in HeldKeys(o) : k \in Key /\ Mine(o, k)
<1>1. ASSUME NEW k \in Granted(o) PROVE k \in HeldKeys(o)
  <2>1. k \in Key /\ Depth(stack[o], k) > 0
    BY GrantedDepth
  <2>2. held[o][k] \in Nat /\ Depth(stack[o], k) \in Nat
    BY <2>1, DepthNat DEF TypeOK
  <2>3. held[o][k] >= Depth(stack[o], k) + (IF Pending(o, k) THEN 1 ELSE 0)
    BY <2>1 DEF IndInv, CountsKept
  <2> QED BY <2>1, <2>2, <2>3 DEF HeldKeys
<1>2. \A k \in HeldKeys(o) : k \in Key /\ Mine(o, k)
  BY DEF HeldKeys, IndInv, CountedKeysMine
<1> QED BY <1>1, <1>2

(* An owner is above another when it holds a key beyond all of the other's. *)
Above(q, o) == \E k \in HeldKeys(q) : \A h \in HeldKeys(o) : Rank[h] < Rank[k]

(* Who waits for an owner that waits itself, waits for one above it.       *)
LEMMA WaitsUpwards ==
    ASSUME TypeOK, IndInv, WaitersInOrder,
           NEW o \in Owner, NEW p \in Owner, NEW q \in Owner,
           Waiting(o), WaitsFor(o, p), WaitsFor(p, q)
    PROVE  Above(p, o)
<1>1. PICK w \in want[o], k \in Granted(p) : o # p /\ Conflicts(w, k)
  BY DEF WaitsFor
<1>2. PICK v \in want[p], j \in Granted(q) : p # q /\ Conflicts(v, j)
  BY DEF WaitsFor
<1>3. w \in Key /\ k \in HeldKeys(p) /\ j \in HeldKeys(q)
  BY GrantedHeld DEF TypeOK
<1>4. ASSUME NEW r \in Owner, NEW s \in Owner, r # s, NEW a \in HeldKeys(r), NEW b \in HeldKeys(s)
      PROVE  ~Conflicts(a, b)
  <2>1. Mine(r, a) /\ Mine(s, b) /\ a \in Key /\ b \in Key
    BY GrantedHeld
  <2> QED BY <1>4, <2>1 DEF Mine, IndInv, FilesCompatible
<1>5. k # LibraryGlobal
  BY <1>2, <1>3, <1>4 DEF Conflicts
<1>6. w \notin HeldKeys(o)
  BY <1>1, <1>3, <1>4
<1>7. \A h \in HeldKeys(o) : Rank[w] > Rank[h]
  BY <1>6 DEF Waiting, WaitersInOrder, InAcquire, InOrder
<1>8. \A h \in HeldKeys(o) : h \in Key /\ Rank[h] \in Nat
  BY GrantedHeld, RankAssumption
<1>9. k \in Key /\ Rank[k] \in Nat /\ Rank[w] \in Nat
  BY <1>3, GrantedHeld, RankAssumption
<1>10. CASE w = k
  <2>1. \A h \in HeldKeys(o) : Rank[h] < Rank[k]
    BY <1>7, <1>8, <1>9, <1>10
  <2> QED BY <1>3, <2>1 DEF Above
<1>11. CASE w = LibraryGlobal
  <2>1. \A h \in HeldKeys(o) : Rank[w] <= Rank[h]
    BY <1>3, <1>8, <1>11, RankAssumption
  <2>2. HeldKeys(o) = {}
    BY <1>7, <1>8, <1>9, <2>1
  <2> QED BY <1>3, <2>2 DEF Above
<1> QED BY <1>1, <1>5, <1>10, <1>11 DEF Conflicts

LEMMA InvImpliesNoCycle ==
    ASSUME TypeOK, IndInv, WaitersInOrder
    PROVE  NoWaitCycle
<1> SUFFICES ASSUME NEW S \in SUBSET {o \in Owner : Waiting(o)}, S # {},
                    \A o \in S : \E p \in S : WaitsFor(o, p)
             PROVE  FALSE
  BY DEF NoWaitCycle
<1> DEFINE U(o) == {q \in S : Above(q, o)}
           T == {U(o) : o \in S}
<1>1. S \subseteq Owner /\ IsFiniteSet(S)
  BY OwnerAssumption, FS_Subset
<1>2. T \subseteq FiniteSubsetsOf(S) /\ T # {}
  <2>1. \A o \in S : U(o) \in SUBSET S /\ IsFiniteSet(U(o))
    BY <1>1, FS_Subset
  <2> QED BY <2>1 DEF FiniteSubsetsOf
<1>3. \E x \in T : \A y \in T : ~(<<y, x>> \in StrictSubsetOrdering(S))
  <2> HIDE DEF T
  <2> QED BY <1>2, FS_StrictSubsetOrderingWellFounded, WFMin
<1>4. PICK o \in S : \A p \in S : ~(<<U(p), U(o)>> \in StrictSubsetOrdering(S))
  BY <1>3
<1>5. PICK p \in S : WaitsFor(o, p)
  OBVIOUS
<1>6. Above(p, o)
  <2>1. PICK q \in S : WaitsFor(p, q)
    OBVIOUS
  <2> QED BY <1>1, <1>5, <2>1, WaitsUpwards
<1>7. \A r \in S : \A k \in HeldKeys(r) : Rank[k] \in Nat
  BY <1>1, RankAssumption DEF HeldKeys
<1>8. U(p) \subseteq U(o)
  <2> SUFFICES ASSUME NEW q \in S, Above(q, p) PROVE Above(q, o)
    OBVIOUS
  <2>1. PICK k \in HeldKeys(p) : \A h \in HeldKeys(o) : Rank[h] < Rank[k]
    BY <1>6 DEF Above
  <2>2. PICK j \in HeldKeys(q) : \A h \in HeldKeys(p) : Rank[h] < Rank[j]
    BY DEF Above
  <2>3. \A h \in HeldKeys(o) : Rank[h] < Rank[j]
    BY <1>7, <2>1, <2>2
  <2> QED BY <2>2, <2>3 DEF Above
<1>9. p \in U(o) /\ p \notin U(p)
  <2>1. ~Above(p, p)
    BY <1>7 DEF Above
  <2> QED BY <1>6, <2>1
<1>10. U(p) # U(o) /\ U(p) \in SUBSET S /\ U(o) \in SUBSET S
  BY <1>9
<1>11. <<U(p), U(o)>> \in StrictSubsetOrdering(S)
  <2> HIDE DEF U
  <2> QED BY <1>8, <1>10 DEF StrictSubsetOrdering
<1> QED BY <1>4, <1>11

(* Among any attempts that wait there is one that waits for none of them:  *)
(* the (level, key) order rules out deadlock, for any attempts and keys.   *)
THEOREM WaitsNeverCycle == ASSUME Sound PROVE Spec => []NoWaitCycle
<1>1. TypeOK /\ WaitersInOrder /\ [Next]_vars => WaitersInOrder'
  BY WaitersInOrderStep
<1>2. TypeOK /\ IndInv /\ WaitersInOrder => NoWaitCycle
  BY InvImpliesNoCycle
<1> QED BY <1>1, <1>2, WaitersInOrderInit, TypeCorrect, InvariantHolds, PTL DEF Spec

-----------------------------------------------------------------------------
(* Refinement. *)
owns == [o \in Owner |-> Granted(o)]

LEMMA GrantedKeys ==
    ASSUME TypeOK, NEW o \in Owner
    PROVE  Granted(o) \in SUBSET Key
  BY GrantedDepth

(* An acquire that returns grants exactly its keys. *)
LEMMA AcquireGrants ==
    ASSUME TypeOK, IndInv, TypeOK', IndInv', NEW o \in Owner, AcquireReturns(o)
    PROVE  Service!Grant(o, want[o]) /\ want[o] \in SUBSET Key
<1>1. /\ stack[o] \in Seq(SUBSET Key) /\ want[o] \in SUBSET Key
      /\ stack' = [stack EXCEPT ![o] = Append(@, want[o])]
      /\ stack \in [Owner -> Seq(SUBSET Key)]
  BY DEF AcquireReturns, TypeOK
<1>2. stack'[o] = Append(stack[o], want[o]) /\ \A p \in Owner \ {o} : stack'[p] = stack[p]
  BY <1>1
<1>3. /\ Len(Append(stack[o], want[o])) = Len(stack[o]) + 1 /\ Len(stack[o]) \in Nat
      /\ Append(stack[o], want[o])[Len(stack[o]) + 1] = want[o]
      /\ \A i \in 1..Len(stack[o]) : Append(stack[o], want[o])[i] = stack[o][i]
  BY <1>1
<1>4. Granted(o)' = Granted(o) \cup want[o]
  <2>1. \A k : k \in Granted(o)' <=> \E i \in 1..Len(stack[o]) + 1 : k \in stack'[o][i]
    BY <1>2, <1>3 DEF Granted
  <2>2. \A k : k \in Granted(o)' <=> (k \in Granted(o) \/ k \in want[o])
    BY <2>1, <1>2, <1>3 DEF Granted
  <2> QED BY <2>2
<1>5. \A p \in Owner \ {o} : Granted(p)' = Granted(p)
  BY <1>2 DEF Granted
<1>6. owns' = [owns EXCEPT ![o] = @ \cup want[o]]
  BY <1>4, <1>5 DEF owns
<1>7. \A p \in Owner \ {o} : \A k \in want[o], j \in Granted(p) : ~Conflicts(k, j)
  <2>1. MutualExclusion'
    BY InvImpliesExclusion, PTL
  <2> QED BY <2>1, <1>4, <1>5 DEF MutualExclusion, Conflicts
<1> QED BY <1>1, <1>6, <1>7 DEF owns, Service!Grant, Conflicts, Service!Conflicts

LEMMA ReleaseGivesBack ==
    ASSUME TypeOK, NEW o \in Owner, Release(o)
    PROVE  \E K \in SUBSET Key : Service!GiveBack(o, K)
<1> DEFINE K == Granted(o) \ Granted(o)'
<1>1. /\ stack[o] \in Seq(SUBSET Key) /\ stack[o] # << >>
      /\ stack' = [stack EXCEPT ![o] = SubSeq(@, 1, Len(@) - 1)]
      /\ stack \in [Owner -> Seq(SUBSET Key)]
  BY DEF Release, TypeOK
<1>2. stack'[o] = SubSeq(stack[o], 1, Len(stack[o]) - 1) /\ \A p \in Owner \ {o} : stack'[p] = stack[p]
  BY <1>1
<1>3. /\ Len(stack[o]) \in Nat \ {0}
      /\ Len(stack'[o]) = Len(stack[o]) - 1
      /\ \A i \in 1..(Len(stack[o]) - 1) : stack'[o][i] = stack[o][i]
  <2>1. \A s \in Seq(SUBSET Key) : s # << >> =>
           /\ Len(s) \in Nat \ {0}
           /\ Len(SubSeq(s, 1, Len(s) - 1)) = Len(s) - 1
           /\ \A i \in 1..(Len(s) - 1) : SubSeq(s, 1, Len(s) - 1)[i] = s[i]
    <3> TAKE s \in Seq(SUBSET Key)
    <3> HAVE s # << >>
    <3> DEFINE r == SubSeq(s, 1, Len(s) - 1)
               top == s[Len(s)]
    <3>1. Len(s) \in Nat \ {0} /\ r \in Seq(SUBSET Key) /\ top \in SUBSET Key
      BY DepthPop
    <3>2. s = Append(r, top)
      BY <3>1
    <3> HIDE DEF r, top
    <3>3. Len(Append(r, top)) = Len(r) + 1 /\ \A i \in 1..Len(r) : Append(r, top)[i] = r[i]
      BY <3>1
    <3>4. Len(r) \in Nat
      BY <3>1
    <3>5. Len(r) = Len(s) - 1 /\ \A i \in 1..(Len(s) - 1) : r[i] = s[i]
      BY <3>1, <3>2, <3>3, <3>4
    <3> QED BY <3>1, <3>5 DEF r
  <2> QED BY <2>1, <1>1, <1>2
<1>4. Granted(o)' \subseteq Granted(o)
  BY <1>3 DEF Granted
<1>5. \A p \in Owner \ {o} : Granted(p)' = Granted(p)
  BY <1>2 DEF Granted
<1>6. Granted(o)' = Granted(o) \ K
  BY <1>4
<1>7. K \in SUBSET Key
  BY GrantedKeys
<1> HIDE DEF K
<1>8. owns' = [owns EXCEPT ![o] = @ \ K]
  BY <1>5, <1>6 DEF owns
<1> QED BY <1>7, <1>8 DEF owns, Service!GiveBack

LEMMA DeathLoses ==
    ASSUME NEW p \in Proc, Dies(p)
    PROVE  \E S \in SUBSET Owner : Service!Lose(S)
<1> DEFINE S == {o \in Owner : ProcOf[o] = p}
<1>1. \A o \in Owner : Granted(o)' = IF o \in S THEN {} ELSE Granted(o)
  BY DEF Dies, Granted
<1>2. owns' = [o \in Owner |-> IF o \in S THEN {} ELSE owns[o]]
  BY <1>1 DEF owns
<1> QED BY <1>2 DEF owns, Service!Lose

LEMMA OthersStutter ==
    ASSUME stack' = stack
    PROVE  UNCHANGED owns
  BY DEF owns, Granted

LEMMA StepRefines ==
    ASSUME TypeOK, IndInv, TypeOK', IndInv', [Next]_vars
    PROVE  [Service!Next]_owns
<1>1. ASSUME NEW o \in Owner, AcquireReturns(o) PROVE Service!Next
  BY <1>1, AcquireGrants DEF Service!Next
<1>2. ASSUME NEW o \in Owner, Release(o) PROVE Service!Next
  BY <1>2, ReleaseGivesBack DEF Service!Next
<1>3. ASSUME NEW p \in Proc, Dies(p) PROVE Service!Next
  BY <1>3, DeathLoses DEF Service!Next
<1>4. ASSUME NEW o \in Owner, CrashTearing(o) PROVE Service!Next
  BY <1>3, <1>4, OwnerAssumption DEF CrashTearing
<1>5. ASSUME NEW p \in Proc, Crash(p) PROVE Service!Next
  BY <1>3, <1>5 DEF Crash
<1>6. ASSUME NEW o \in Owner, Step(o), ~AcquireReturns(o) PROVE stack' = stack
  BY <1>6 DEF Step, EnterRegistry, SeeOldMutex, BreakMutex, RegistryBusy, ScanFree, ScanBlocked,
              Conflicted, CreateKey, CreateFails, DoRelease, memory
<1>7. ASSUME NEW o \in Owner, NEW K \in KeySets, Acquire(o, K) PROVE stack' = stack
  BY <1>7 DEF Acquire
<1>8. ASSUME NEW o \in Owner, \/ Heartbeat(o) \/ ReclaimStale(o)
                              \/ \E q \in Proc : ReleaseInterrupted(q, o)
      PROVE  stack' = stack
  BY <1>8 DEF Heartbeat, ReclaimStale, ReleaseInterrupted, memory
<1>9. ASSUME MutexAges \/ (\E k \in Key : Expire(k)) \/ UNCHANGED vars PROVE stack' = stack
  BY <1>9 DEF MutexAges, Expire, memory, vars
<1> QED BY <1>1, <1>2, <1>4, <1>5, <1>6, <1>7, <1>8, <1>9, OthersStutter DEF Next

(* The locks in the directory implement the abstract lock service.         *)
THEOREM LocksImplementService == ASSUME Sound PROVE Spec => ServiceSpec
<1>1. Init => Service!Init
  <2> SUFFICES ASSUME Init PROVE owns = [o \in Owner |-> {}]
    BY DEF Service!Init, owns
  <2>1. \A o \in Owner : Granted(o) = {}
    BY DEF Init, Granted
  <2> QED BY <2>1 DEF owns
<1>2. TypeOK /\ IndInv /\ TypeOK' /\ IndInv' /\ [Next]_vars => [Service!Next]_owns
  BY StepRefines
<1>3. Spec => []TypeOK /\ []IndInv
  BY TypeCorrect, InvariantHolds, PTL
<1> QED BY <1>1, <1>2, <1>3, PTL DEF Spec, ServiceSpec, Service!Spec, owns
=============================================================================
