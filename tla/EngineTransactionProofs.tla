----------------------- MODULE EngineTransactionProofs -----------------------
(* Proofs about EngineTransaction: for any number of attempts and crashes. *)
EXTENDS EngineTransaction, TLAPS

(* The record, the engine, the attempts and the sweep keep their types.    *)
LEMMA TypeInit == Init => TypeOK
<1> SUFFICES ASSUME Init PROVE TypeOK
  OBVIOUS
<1> USE DEF Init, NoOperations, Statuses, Outside
<1>1. RecordType
  BY DEF RecordType
<1>2. EngineType
  BY DEF EngineType
<1>3. AttemptType
  BY NoneAssumption DEF AttemptType
<1>4. SweepType
  BY DEF SweepType, Snapshot
<1>5. HistoryType
  BY DEF HistoryType
<1> QED BY <1>1, <1>2, <1>3, <1>4, <1>5 DEF TypeOK

LEMMA RecordTypeStep == TypeOK /\ [Next]_vars => RecordType'
<1> SUFFICES ASSUME TypeOK, [Next]_vars PROVE RecordType'
  OBVIOUS
<1> USE DEF TypeOK, RecordType, EngineType, AttemptType, SweepType,
            NoOperations, Statuses,
            vars, record, engine, locals, sweeper, history, Goes, Leaves, SetRegistry,
            NoteManifest, ReadFails, RestoreFails
<1>1. ASSUME Approve PROVE RecordType'
  BY <1>1 DEF Approve
<1>2. ASSUME Cancel PROVE RecordType'
  BY <1>2 DEF Cancel
<1>3. ASSUME SweepWrite PROVE RecordType'
  BY <1>3 DEF SweepWrite
<1>4. ASSUME Crash PROVE RecordType'
  BY <1>4 DEF Crash
<1>5. ASSUME NEW a \in Attempt, Claim(a) PROVE RecordType'
  BY <1>5 DEF Claim, Claimable
<1>6. ASSUME NEW a \in Attempt, Request(a) PROVE RecordType'
  BY <1>6 DEF Request
<1>7. ASSUME NEW a \in Attempt, ApplyRaised(a) PROVE RecordType'
  BY <1>7 DEF ApplyRaised
<1>8. ASSUME NEW a \in Attempt, FinishApply(a) PROVE RecordType'
  BY <1>8 DEF FinishApply, Outcome
<1>9. ASSUME NEW a \in Attempt, RollbackClaim(a) PROVE RecordType'
  BY <1>9 DEF RollbackClaim, Eligible
<1>10. ASSUME NEW a \in Attempt, RollbackRaised(a) PROVE RecordType'
  BY <1>10 DEF RollbackRaised
<1>11. ASSUME NEW a \in Attempt, RollbackFinish(a) PROVE RecordType'
  BY <1>11 DEF RollbackFinish
<1>12. CASE UNCHANGED record
  BY <1>12
<1> QED BY <1>1, <1>2, <1>3, <1>4, <1>5, <1>6, <1>7, <1>8, <1>9, <1>10, <1>11,
           <1>12
     DEF Next, SweepStep, ApplyStep, RollbackStep, SweepRead, SweepEnds,
         SweepDecide, SweepVerify, SweepUnavailable, ApplyStart,
         RollbackStart, TakeLocks, Busy, ClaimLost, StatsFail, EngineAccepts,
         EngineRefuses, EngineBegins, EngineCommits, EngineSucceeds,
         EngineFails, Verify, VerifyFails, RollbackRefused, RollbackUnclaimed,
         RollbackBegins, RollbackReplays, RollbackNotRun, RollbackCommits,
         RollbackFails

LEMMA EngineTypeStep == TypeOK /\ [Next]_vars => EngineType'
<1> SUFFICES ASSUME TypeOK, [Next]_vars PROVE EngineType'
  OBVIOUS
<1> USE DEF TypeOK, RecordType, EngineType, AttemptType, SweepType,
            NoOperations, Statuses,
            vars, record, engine, locals, sweeper, history, Goes, Leaves, SetRegistry,
            NoteManifest, ReadFails, RestoreFails
<1>1. ASSUME Crash PROVE EngineType'
  BY <1>1 DEF Crash
<1>2. ASSUME NEW a \in Attempt, EngineAccepts(a) PROVE EngineType'
  BY <1>2 DEF EngineAccepts
<1>3. ASSUME NEW a \in Attempt, EngineRefuses(a) PROVE EngineType'
  BY <1>3 DEF EngineRefuses
<1>4. ASSUME NEW a \in Attempt, EngineBegins(a) PROVE EngineType'
  BY <1>4 DEF EngineBegins
<1>5. ASSUME NEW a \in Attempt, EngineCommits(a) PROVE EngineType'
  BY <1>5 DEF EngineCommits
<1>6. ASSUME NEW a \in Attempt, EngineSucceeds(a) PROVE EngineType'
  BY <1>6 DEF EngineSucceeds
<1>7. ASSUME NEW a \in Attempt, EngineFails(a) PROVE EngineType'
  BY <1>7 DEF EngineFails
<1>8. ASSUME NEW a \in Attempt, RollbackBegins(a) PROVE EngineType'
  BY <1>8 DEF RollbackBegins, Restorable
<1>9. ASSUME NEW a \in Attempt, RollbackCommits(a) PROVE EngineType'
  BY <1>9 DEF RollbackCommits
<1>10. ASSUME NEW a \in Attempt, RollbackFails(a) PROVE EngineType'
  BY <1>10 DEF RollbackFails
<1>11. CASE UNCHANGED engine
  BY <1>11
<1> QED BY <1>1, <1>2, <1>3, <1>4, <1>5, <1>6, <1>7, <1>8, <1>9, <1>10, <1>11
     DEF Next, SweepStep, ApplyStep, RollbackStep, Approve, Cancel, SweepRead,
         SweepEnds, SweepDecide, SweepVerify, SweepWrite, SweepUnavailable,
         ApplyStart, RollbackStart, TakeLocks, Busy, Claim, ClaimLost,
         Request, StatsFail, ApplyRaised, Verify, VerifyFails, FinishApply,
         RollbackClaim, RollbackRefused, RollbackUnclaimed, RollbackReplays,
         RollbackNotRun, RollbackRaised, RollbackFinish

LEMMA AttemptTypeStep == TypeOK /\ [Next]_vars => AttemptType'
<1> SUFFICES ASSUME TypeOK, [Next]_vars PROVE AttemptType'
  OBVIOUS
<1> USE DEF TypeOK, RecordType, EngineType, AttemptType, SweepType,
            NoOperations, Statuses, Outside, ApplyPhases, RollbackPhases,
            vars, record, engine, locals, sweeper, history, Goes, Leaves, SetRegistry,
            NoteManifest, ReadFails, RestoreFails
<1>1. ASSUME Crash PROVE AttemptType'
  BY <1>1 DEF Crash
<1>2. ASSUME NEW a \in Attempt, ApplyStart(a) PROVE AttemptType'
  BY <1>2 DEF ApplyStart
<1>3. ASSUME NEW a \in Attempt, RollbackStart(a) PROVE AttemptType'
  BY <1>3 DEF RollbackStart
<1>4. ASSUME NEW a \in Attempt, TakeLocks(a) PROVE AttemptType'
  BY <1>4 DEF TakeLocks
<1>5. ASSUME NEW a \in Attempt, Busy(a) PROVE AttemptType'
  BY <1>5 DEF Busy
<1>6. ASSUME NEW a \in Attempt, Claim(a) PROVE AttemptType'
  BY <1>6 DEF Claim, Claimable
<1>7. ASSUME NEW a \in Attempt, ClaimLost(a) PROVE AttemptType'
  BY <1>7 DEF ClaimLost, Claimable
<1>8. ASSUME NEW a \in Attempt, Request(a) PROVE AttemptType'
  BY <1>8 DEF Request
<1>9. ASSUME NEW a \in Attempt, StatsFail(a) PROVE AttemptType'
  BY <1>9 DEF StatsFail
<1>10. ASSUME NEW a \in Attempt, EngineAccepts(a) PROVE AttemptType'
  BY <1>10 DEF EngineAccepts
<1>11. ASSUME NEW a \in Attempt, EngineRefuses(a) PROVE AttemptType'
  BY <1>11 DEF EngineRefuses
<1>12. ASSUME NEW a \in Attempt, EngineBegins(a) PROVE AttemptType'
  BY <1>12 DEF EngineBegins
<1>13. ASSUME NEW a \in Attempt, EngineCommits(a) PROVE AttemptType'
  BY <1>13 DEF EngineCommits
<1>14. ASSUME NEW a \in Attempt, EngineSucceeds(a) PROVE AttemptType'
  BY <1>14 DEF EngineSucceeds
<1>15. ASSUME NEW a \in Attempt, EngineFails(a) PROVE AttemptType'
  BY <1>15 DEF EngineFails
<1>16. ASSUME NEW a \in Attempt, ApplyRaised(a) PROVE AttemptType'
  BY <1>16 DEF ApplyRaised
<1>17. ASSUME NEW a \in Attempt, Verify(a) PROVE AttemptType'
  BY <1>17 DEF Verify, Verifies
<1>18. ASSUME NEW a \in Attempt, VerifyFails(a) PROVE AttemptType'
  BY <1>18 DEF VerifyFails
<1>19. ASSUME NEW a \in Attempt, FinishApply(a) PROVE AttemptType'
  BY <1>19 DEF FinishApply, Outcome
<1>20. ASSUME NEW a \in Attempt, RollbackClaim(a) PROVE AttemptType'
  BY <1>20 DEF RollbackClaim, Eligible
<1>21. ASSUME NEW a \in Attempt, RollbackRefused(a) PROVE AttemptType'
  BY <1>21 DEF RollbackRefused, Eligible
<1>22. ASSUME NEW a \in Attempt, RollbackUnclaimed(a) PROVE AttemptType'
  BY <1>22 DEF RollbackUnclaimed
<1>23. ASSUME NEW a \in Attempt, RollbackBegins(a) PROVE AttemptType'
  BY <1>23 DEF RollbackBegins, Restorable
<1>24. ASSUME NEW a \in Attempt, RollbackReplays(a) PROVE AttemptType'
  BY <1>24 DEF RollbackReplays
<1>25. ASSUME NEW a \in Attempt, RollbackNotRun(a) PROVE AttemptType'
  BY <1>25 DEF RollbackNotRun
<1>26. ASSUME NEW a \in Attempt, RollbackCommits(a) PROVE AttemptType'
  BY <1>26 DEF RollbackCommits
<1>27. ASSUME NEW a \in Attempt, RollbackFails(a) PROVE AttemptType'
  BY <1>27 DEF RollbackFails
<1>28. ASSUME NEW a \in Attempt, RollbackRaised(a) PROVE AttemptType'
  BY <1>28 DEF RollbackRaised
<1>29. ASSUME NEW a \in Attempt, RollbackFinish(a) PROVE AttemptType'
  BY <1>29 DEF RollbackFinish
<1>30. CASE UNCHANGED <<holder, pc, locals>>
  BY <1>30
<1> QED BY <1>1, <1>2, <1>3, <1>4, <1>5, <1>6, <1>7, <1>8, <1>9, <1>10, <1>11,
           <1>12, <1>13, <1>14, <1>15, <1>16, <1>17, <1>18, <1>19, <1>20,
           <1>21, <1>22, <1>23, <1>24, <1>25, <1>26, <1>27, <1>28, <1>29, <1>30
     DEF Next, SweepStep, ApplyStep, RollbackStep, Approve, Cancel, SweepRead,
         SweepEnds, SweepDecide, SweepVerify, SweepWrite, SweepUnavailable

LEMMA SweepTypeStep == TypeOK /\ [Next]_vars => SweepType'
<1> SUFFICES ASSUME TypeOK, [Next]_vars PROVE SweepType'
  OBVIOUS
<1> USE DEF TypeOK, RecordType, EngineType, AttemptType, SweepType,
            NoOperations, Statuses,
            vars, record, engine, locals, sweeper, history, Goes, Leaves, SetRegistry,
            NoteManifest, ReadFails, RestoreFails
<1>1. ASSUME SweepRead PROVE SweepType'
  BY <1>1 DEF SweepRead, Snapshot
<1>2. ASSUME SweepEnds PROVE SweepType'
  BY <1>2 DEF SweepEnds
<1>3. ASSUME SweepDecide PROVE SweepType'
  BY <1>3 DEF SweepDecide, Resolution, FromManifest, FromRegistry
<1>4. ASSUME SweepVerify PROVE SweepType'
  BY <1>4 DEF SweepVerify, Outcome, Verifies
<1>5. ASSUME SweepWrite PROVE SweepType'
  BY <1>5 DEF SweepWrite
<1>6. ASSUME SweepUnavailable PROVE SweepType'
  BY <1>6 DEF SweepUnavailable
<1>7. ASSUME Crash PROVE SweepType'
  BY <1>7 DEF Crash
<1>8. CASE UNCHANGED sweeper
  BY <1>8
<1> QED BY <1>1, <1>2, <1>3, <1>4, <1>5, <1>6, <1>7, <1>8
     DEF Next, SweepStep, ApplyStep, RollbackStep, Approve, Cancel,
         ApplyStart, RollbackStart, TakeLocks, Busy, Claim, ClaimLost,
         Request, StatsFail, EngineAccepts, EngineRefuses, EngineBegins,
         EngineCommits, EngineSucceeds, EngineFails, ApplyRaised, Verify,
         VerifyFails, FinishApply, RollbackClaim, RollbackRefused,
         RollbackUnclaimed, RollbackBegins, RollbackReplays, RollbackNotRun,
         RollbackCommits, RollbackFails, RollbackRaised, RollbackFinish

LEMMA HistoryTypeStep == TypeOK /\ [Next]_vars => HistoryType'
<1> SUFFICES ASSUME TypeOK, [Next]_vars PROVE HistoryType'
  OBVIOUS
<1> USE DEF TypeOK, AttemptType, HistoryType,
            vars, record, engine, locals, sweeper, history, Goes, Leaves, SetRegistry,
            NoteManifest, ReadFails, RestoreFails
<1>1. ASSUME Crash PROVE HistoryType'
  <2>1. crashes' = crashes + 1 /\ UNCHANGED <<applies, beside, overtook, unrestored>>
    BY <1>1 DEF Crash
  <2>2. unread' = FALSE
    BY <1>1 DEF Crash
  <2>3. applies' \in Nat /\ crashes' \in Nat
    BY <2>1
  <2>4. beside' \in BOOLEAN /\ overtook' \in BOOLEAN /\ unrestored' \in BOOLEAN
    BY <2>1
  <2> QED BY <2>2, <2>3, <2>4
<1>2. ASSUME NEW a \in Attempt, EngineBegins(a) PROVE HistoryType'
  <2>1. applies' = applies + 1 /\ UNCHANGED <<crashes, beside, overtook, unrestored, unread>>
    BY <1>2 DEF EngineBegins
  <2> QED BY <2>1
<1>3. ASSUME NEW a \in Attempt, EngineFails(a) \/ RollbackFails(a) PROVE HistoryType'
  BY <1>3 DEF EngineFails, RollbackFails
<1>4. ASSUME NEW a \in Attempt, StatsFail(a) \/ VerifyFails(a) PROVE HistoryType'
  BY <1>4 DEF StatsFail, VerifyFails
<1>5. ASSUME NEW a \in Attempt, TakeLocks(a) PROVE HistoryType'
  BY <1>5 DEF TakeLocks
<1>6. ASSUME SweepRead PROVE HistoryType'
  BY <1>6 DEF SweepRead
<1>7. ASSUME SweepWrite PROVE HistoryType'
  BY <1>7 DEF SweepWrite
<1>8. ASSUME SweepUnavailable PROVE HistoryType'
  BY <1>8 DEF SweepUnavailable
<1>9. CASE UNCHANGED history
  BY <1>9
<1> QED BY <1>1, <1>2, <1>3, <1>4, <1>5, <1>6, <1>7, <1>8, <1>9
     DEF Next, SweepStep, ApplyStep, RollbackStep, Approve, Cancel, SweepEnds,
         SweepDecide, SweepVerify,
         ApplyStart, RollbackStart, Busy, Claim, ClaimLost,
         Request, EngineAccepts, EngineRefuses, EngineCommits,
         EngineSucceeds, ApplyRaised, Verify, FinishApply,
         RollbackClaim, RollbackRefused, RollbackUnclaimed,
         RollbackBegins, RollbackReplays, RollbackNotRun, RollbackCommits,
         RollbackRaised, RollbackFinish

LEMMA TypeStep == TypeOK /\ [Next]_vars => TypeOK'
  BY RecordTypeStep, EngineTypeStep, AttemptTypeStep, SweepTypeStep,
     HistoryTypeStep DEF TypeOK

(* For every variable, the type invariant of the runs.                     *)
THEOREM TypeCorrect == Spec => []TypeOK
<1> QED BY TypeInit, TypeStep, PTL DEF Spec

-----------------------------------------------------------------------------
LEMMA OnceInit == Init => AtMostOnce
<1> SUFFICES ASSUME Init PROVE AtMostOnce
  OBVIOUS
<1>1. LocksHeld
  BY NoneAssumption DEF Init, LocksHeld, ApplyPhases, RollbackPhases
<1>2. RecordOnce
  <2>1. applies \in {0, 1}
    BY DEF Init
  <2>2. applies = 0 /\ ~requested /\ ~result
    BY DEF Init
  <2>3. applies = 1 \/ requested \/ result => Started
    BY <2>2
  <2>4. sweep \in {"decide", "verify", "finish", "write"} => Started
    BY DEF Init
  <2>5. decided \notin {"Preview", "Approved", "Cancelled"}
    BY DEF Init
  <2> QED BY <2>1, <2>3, <2>4, <2>5 DEF RecordOnce
<1>3. ASSUME NEW a \in Attempt PROVE AttemptOnce(a)
  BY DEF Init, AttemptOnce, ApplyPhases, RollbackPhases
<1> QED BY <1>1, <1>2, <1>3 DEF AtMostOnce

(* resolve_transaction ends in one of four ways.                           *)
LEMMA ResolutionKinds ==
    TypeOK => Resolution \in {"still running", "finish", "Failed", "Recovery Required"}
  BY DEF TypeOK, EngineType, SweepType, NoOperations, Resolution, FromManifest,
       FromRegistry

(* Only an attempt that has claimed the transaction begins the mutation.   *)
LEMMA BeginsOnce ==
    ASSUME TypeOK, AtMostOnce, NEW a \in Attempt, EngineBegins(a)
    PROVE  applies' = 1
<1>1. applies = 0
  BY DEF AtMostOnce, AttemptOnce, EngineBegins, Goes
<1>2. applies' = applies + 1
  BY DEF EngineBegins
<1> QED BY <1>1, <1>2

(* Locks are taken on the way into a phase and released on the way out.    *)
LEMMA LocksStep == TypeOK /\ LocksHeld /\ [Next]_vars => LocksHeld'
<1> SUFFICES ASSUME TypeOK, LocksHeld, [Next]_vars PROVE LocksHeld'
  OBVIOUS
<1> USE NoneAssumption
<1> USE DEF TypeOK, AttemptType, LocksHeld, ApplyPhases, RollbackPhases,
            vars, record, engine, locals, sweeper, history, Goes, Leaves, SetRegistry,
            NoteManifest, ReadFails, RestoreFails
<1>1. ASSUME Crash PROVE LocksHeld'
  BY <1>1 DEF Crash
<1>2. ASSUME NEW a \in Attempt, ApplyStart(a) PROVE LocksHeld'
  BY <1>2 DEF ApplyStart
<1>3. ASSUME NEW a \in Attempt, RollbackStart(a) PROVE LocksHeld'
  BY <1>3 DEF RollbackStart
<1>4. ASSUME NEW a \in Attempt, TakeLocks(a) PROVE LocksHeld'
  BY <1>4 DEF TakeLocks
<1>5. ASSUME NEW a \in Attempt, Busy(a) PROVE LocksHeld'
  BY <1>5 DEF Busy
<1>6. ASSUME NEW a \in Attempt, Claim(a) PROVE LocksHeld'
  BY <1>6 DEF Claim, Claimable
<1>7. ASSUME NEW a \in Attempt, ClaimLost(a) PROVE LocksHeld'
  BY <1>7 DEF ClaimLost, Claimable
<1>8. ASSUME NEW a \in Attempt, Request(a) PROVE LocksHeld'
  BY <1>8 DEF Request
<1>9. ASSUME NEW a \in Attempt, StatsFail(a) PROVE LocksHeld'
  BY <1>9 DEF StatsFail
<1>10. ASSUME NEW a \in Attempt, EngineAccepts(a) PROVE LocksHeld'
  BY <1>10 DEF EngineAccepts
<1>11. ASSUME NEW a \in Attempt, EngineRefuses(a) PROVE LocksHeld'
  BY <1>11 DEF EngineRefuses
<1>12. ASSUME NEW a \in Attempt, EngineBegins(a) PROVE LocksHeld'
  BY <1>12 DEF EngineBegins
<1>13. ASSUME NEW a \in Attempt, EngineCommits(a) PROVE LocksHeld'
  BY <1>13 DEF EngineCommits
<1>14. ASSUME NEW a \in Attempt, EngineSucceeds(a) PROVE LocksHeld'
  BY <1>14 DEF EngineSucceeds
<1>15. ASSUME NEW a \in Attempt, EngineFails(a) PROVE LocksHeld'
  BY <1>15 DEF EngineFails
<1>16. ASSUME NEW a \in Attempt, ApplyRaised(a) PROVE LocksHeld'
  BY <1>16 DEF ApplyRaised
<1>17. ASSUME NEW a \in Attempt, Verify(a) PROVE LocksHeld'
  BY <1>17 DEF Verify, Verifies
<1>18. ASSUME NEW a \in Attempt, VerifyFails(a) PROVE LocksHeld'
  BY <1>18 DEF VerifyFails
<1>19. ASSUME NEW a \in Attempt, FinishApply(a) PROVE LocksHeld'
  BY <1>19 DEF FinishApply, Outcome
<1>20. ASSUME NEW a \in Attempt, RollbackClaim(a) PROVE LocksHeld'
  BY <1>20 DEF RollbackClaim, Eligible
<1>21. ASSUME NEW a \in Attempt, RollbackRefused(a) PROVE LocksHeld'
  BY <1>21 DEF RollbackRefused, Eligible
<1>22. ASSUME NEW a \in Attempt, RollbackUnclaimed(a) PROVE LocksHeld'
  BY <1>22 DEF RollbackUnclaimed
<1>23. ASSUME NEW a \in Attempt, RollbackBegins(a) PROVE LocksHeld'
  BY <1>23 DEF RollbackBegins, Restorable
<1>24. ASSUME NEW a \in Attempt, RollbackReplays(a) PROVE LocksHeld'
  BY <1>24 DEF RollbackReplays
<1>25. ASSUME NEW a \in Attempt, RollbackNotRun(a) PROVE LocksHeld'
  BY <1>25 DEF RollbackNotRun
<1>26. ASSUME NEW a \in Attempt, RollbackCommits(a) PROVE LocksHeld'
  BY <1>26 DEF RollbackCommits
<1>27. ASSUME NEW a \in Attempt, RollbackFails(a) PROVE LocksHeld'
  BY <1>27 DEF RollbackFails
<1>28. ASSUME NEW a \in Attempt, RollbackRaised(a) PROVE LocksHeld'
  BY <1>28 DEF RollbackRaised
<1>29. ASSUME NEW a \in Attempt, RollbackFinish(a) PROVE LocksHeld'
  BY <1>29 DEF RollbackFinish
<1>30. CASE UNCHANGED <<pc, holder>>
  BY <1>30
<1> QED BY <1>1, <1>2, <1>3, <1>4, <1>5, <1>6, <1>7, <1>8, <1>9, <1>10, <1>11,
           <1>12, <1>13, <1>14, <1>15, <1>16, <1>17, <1>18, <1>19, <1>20,
           <1>21, <1>22, <1>23, <1>24, <1>25, <1>26, <1>27, <1>28, <1>29, <1>30
     DEF Next, SweepStep, ApplyStep, RollbackStep, Approve, Cancel, SweepRead,
         SweepEnds, SweepDecide, SweepVerify, SweepWrite, SweepUnavailable

LEMMA RecordOnceStep == TypeOK /\ AtMostOnce /\ [Next]_vars => RecordOnce'
<1> SUFFICES ASSUME TypeOK, AtMostOnce, [Next]_vars PROVE RecordOnce'
  OBVIOUS
<1> USE DEF TypeOK, RecordType, SweepType, AtMostOnce, AttemptOnce, RecordOnce, Started,
            ApplyPhases, RollbackPhases,
            vars, record, engine, locals, sweeper, history, Goes, Leaves, SetRegistry,
            NoteManifest, ReadFails, RestoreFails
<1>1. ASSUME Approve PROVE RecordOnce'
  BY <1>1 DEF Approve
<1>2. ASSUME Cancel PROVE RecordOnce'
  BY <1>2 DEF Cancel
<1>3. ASSUME SweepRead PROVE RecordOnce'
  BY <1>3 DEF SweepRead, Snapshot
<1>4. ASSUME SweepEnds PROVE RecordOnce'
  BY <1>4 DEF SweepEnds
<1>5. ASSUME SweepDecide PROVE RecordOnce'
  BY <1>5, ResolutionKinds DEF SweepDecide
<1>6. ASSUME SweepVerify PROVE RecordOnce'
  BY <1>6 DEF SweepVerify, Outcome, Verifies
<1>7. ASSUME SweepWrite PROVE RecordOnce'
  BY <1>7 DEF SweepWrite
<1>8. ASSUME SweepUnavailable PROVE RecordOnce'
  BY <1>8 DEF SweepUnavailable
<1>9. ASSUME Crash PROVE RecordOnce'
  BY <1>9 DEF Crash
<1>10. ASSUME NEW a \in Attempt, Claim(a) PROVE RecordOnce'
  BY <1>10 DEF Claim, Claimable
<1>11. ASSUME NEW a \in Attempt, Request(a) PROVE RecordOnce'
  BY <1>11 DEF Request
<1>12. ASSUME NEW a \in Attempt, EngineBegins(a) PROVE RecordOnce'
  BY <1>12, BeginsOnce DEF EngineBegins
<1>13. ASSUME NEW a \in Attempt, ApplyRaised(a) PROVE RecordOnce'
  BY <1>13 DEF ApplyRaised
<1>14. ASSUME NEW a \in Attempt, FinishApply(a) PROVE RecordOnce'
  BY <1>14 DEF FinishApply, Outcome
<1>15. ASSUME NEW a \in Attempt, RollbackClaim(a) PROVE RecordOnce'
  BY <1>15 DEF RollbackClaim, Eligible
<1>16. ASSUME NEW a \in Attempt, RollbackRaised(a) PROVE RecordOnce'
  BY <1>16 DEF RollbackRaised
<1>17. ASSUME NEW a \in Attempt, RollbackFinish(a) PROVE RecordOnce'
  BY <1>17 DEF RollbackFinish
<1>18. CASE UNCHANGED <<applies, requested, result, status, sweep, decided>>
  BY <1>18
<1> QED BY <1>1, <1>2, <1>3, <1>4, <1>5, <1>6, <1>7, <1>8, <1>9, <1>10, <1>11,
           <1>12, <1>13, <1>14, <1>15, <1>16, <1>17, <1>18
     DEF Next, SweepStep, ApplyStep, RollbackStep, ApplyStart, RollbackStart,
         TakeLocks, Busy, ClaimLost, StatsFail, EngineAccepts, EngineRefuses,
         EngineCommits, EngineSucceeds, EngineFails, Verify, VerifyFails,
         RollbackRefused, RollbackUnclaimed, RollbackBegins, RollbackReplays,
         RollbackNotRun, RollbackCommits, RollbackFails

LEMMA AttemptOnceStep == TypeOK /\ AtMostOnce /\ [Next]_vars => \A b \in Attempt : AttemptOnce(b)'
<1> SUFFICES ASSUME TypeOK, AtMostOnce, [Next]_vars,
                   NEW b \in Attempt PROVE AttemptOnce(b)'
  OBVIOUS
<1>l. LocksHeld'
  BY LocksStep DEF AtMostOnce
<1> USE DEF TypeOK, AttemptType, AtMostOnce, LocksHeld, AttemptOnce, RecordOnce, Started,
            ApplyPhases, RollbackPhases,
            vars, record, engine, locals, sweeper, history, Goes, Leaves, SetRegistry,
            NoteManifest, ReadFails, RestoreFails
<1>1. ASSUME Approve PROVE AttemptOnce(b)'
  BY <1>1, <1>l DEF Approve
<1>2. ASSUME Cancel PROVE AttemptOnce(b)'
  BY <1>2, <1>l DEF Cancel
<1>3. ASSUME SweepWrite PROVE AttemptOnce(b)'
  BY <1>3, <1>l DEF SweepWrite
<1>4. ASSUME Crash PROVE AttemptOnce(b)'
  BY <1>4, <1>l DEF Crash
<1>5. ASSUME NEW a \in Attempt, ApplyStart(a) PROVE AttemptOnce(b)'
  BY <1>5, <1>l DEF ApplyStart
<1>6. ASSUME NEW a \in Attempt, RollbackStart(a) PROVE AttemptOnce(b)'
  BY <1>6, <1>l DEF RollbackStart
<1>7. ASSUME NEW a \in Attempt, TakeLocks(a) PROVE AttemptOnce(b)'
  BY <1>7, <1>l DEF TakeLocks
<1>8. ASSUME NEW a \in Attempt, Busy(a) PROVE AttemptOnce(b)'
  BY <1>8, <1>l DEF Busy
<1>9. ASSUME NEW a \in Attempt, Claim(a) PROVE AttemptOnce(b)'
  BY <1>9, <1>l DEF Claim, Claimable
<1>10. ASSUME NEW a \in Attempt, ClaimLost(a) PROVE AttemptOnce(b)'
  BY <1>10, <1>l DEF ClaimLost, Claimable
<1>11. ASSUME NEW a \in Attempt, Request(a) PROVE AttemptOnce(b)'
  BY <1>11, <1>l DEF Request
<1>12. ASSUME NEW a \in Attempt, StatsFail(a) PROVE AttemptOnce(b)'
  BY <1>12, <1>l DEF StatsFail
<1>13. ASSUME NEW a \in Attempt, EngineAccepts(a) PROVE AttemptOnce(b)'
  BY <1>13, <1>l DEF EngineAccepts
<1>14. ASSUME NEW a \in Attempt, EngineRefuses(a) PROVE AttemptOnce(b)'
  BY <1>14, <1>l DEF EngineRefuses
<1>15. ASSUME NEW a \in Attempt, EngineBegins(a) PROVE AttemptOnce(b)'
  BY <1>15, <1>l DEF EngineBegins
<1>16. ASSUME NEW a \in Attempt, EngineCommits(a) PROVE AttemptOnce(b)'
  BY <1>16, <1>l DEF EngineCommits
<1>17. ASSUME NEW a \in Attempt, EngineSucceeds(a) PROVE AttemptOnce(b)'
  BY <1>17, <1>l DEF EngineSucceeds
<1>18. ASSUME NEW a \in Attempt, EngineFails(a) PROVE AttemptOnce(b)'
  BY <1>18, <1>l DEF EngineFails
<1>19. ASSUME NEW a \in Attempt, ApplyRaised(a) PROVE AttemptOnce(b)'
  BY <1>19, <1>l DEF ApplyRaised
<1>20. ASSUME NEW a \in Attempt, Verify(a) PROVE AttemptOnce(b)'
  BY <1>20, <1>l DEF Verify, Verifies
<1>21. ASSUME NEW a \in Attempt, VerifyFails(a) PROVE AttemptOnce(b)'
  BY <1>21, <1>l DEF VerifyFails
<1>22. ASSUME NEW a \in Attempt, FinishApply(a) PROVE AttemptOnce(b)'
  BY <1>22, <1>l DEF FinishApply, Outcome
<1>23. ASSUME NEW a \in Attempt, RollbackClaim(a) PROVE AttemptOnce(b)'
  BY <1>23, <1>l DEF RollbackClaim, Eligible
<1>24. ASSUME NEW a \in Attempt, RollbackRefused(a) PROVE AttemptOnce(b)'
  BY <1>24, <1>l DEF RollbackRefused, Eligible
<1>25. ASSUME NEW a \in Attempt, RollbackUnclaimed(a) PROVE AttemptOnce(b)'
  BY <1>25, <1>l DEF RollbackUnclaimed
<1>26. ASSUME NEW a \in Attempt, RollbackBegins(a) PROVE AttemptOnce(b)'
  BY <1>26, <1>l DEF RollbackBegins, Restorable
<1>27. ASSUME NEW a \in Attempt, RollbackReplays(a) PROVE AttemptOnce(b)'
  BY <1>27, <1>l DEF RollbackReplays
<1>28. ASSUME NEW a \in Attempt, RollbackNotRun(a) PROVE AttemptOnce(b)'
  BY <1>28, <1>l DEF RollbackNotRun
<1>29. ASSUME NEW a \in Attempt, RollbackCommits(a) PROVE AttemptOnce(b)'
  BY <1>29, <1>l DEF RollbackCommits
<1>30. ASSUME NEW a \in Attempt, RollbackFails(a) PROVE AttemptOnce(b)'
  BY <1>30, <1>l DEF RollbackFails
<1>31. ASSUME NEW a \in Attempt, RollbackRaised(a) PROVE AttemptOnce(b)'
  BY <1>31, <1>l DEF RollbackRaised
<1>32. ASSUME NEW a \in Attempt, RollbackFinish(a) PROVE AttemptOnce(b)'
  BY <1>32, <1>l DEF RollbackFinish
<1>33. CASE UNCHANGED <<applies, status, pc>>
  BY <1>33, <1>l
<1> QED BY <1>1, <1>2, <1>3, <1>4, <1>5, <1>6, <1>7, <1>8, <1>9, <1>10, <1>11,
           <1>12, <1>13, <1>14, <1>15, <1>16, <1>17, <1>18, <1>19, <1>20,
           <1>21, <1>22, <1>23, <1>24, <1>25, <1>26, <1>27, <1>28, <1>29,
           <1>30, <1>31, <1>32, <1>33
     DEF Next, SweepStep, ApplyStep, RollbackStep, SweepRead, SweepEnds,
         SweepDecide, SweepVerify, SweepUnavailable

LEMMA OnceStep == TypeOK /\ AtMostOnce /\ [Next]_vars => AtMostOnce'
  BY LocksStep, RecordOnceStep, AttemptOnceStep DEF AtMostOnce

(* The inductive invariant behind the two properties below.                *)
THEOREM OnceHolds == Spec => []AtMostOnce
<1> QED BY TypeCorrect, OnceInit, OnceStep, PTL DEF Spec

(* However attempts, crashes and sweeps interleave, the engine begins the  *)
(* mutation of one transaction at most once.                               *)
THEOREM MutationOnce == Spec => []NeverReplayed
<1>1. AtMostOnce => NeverReplayed
  BY DEF AtMostOnce, RecordOnce, NeverReplayed
<1> QED BY <1>1, OnceHolds, PTL

(* ... and a cancelled transaction never reaches it.                       *)
THEOREM CancelIsFinal == Spec => []CancelMeansUntouched
<1>1. ASSUME TypeOK, AtMostOnce, status = "Cancelled" PROVE applies = 0
  BY <1>1 DEF AtMostOnce, RecordOnce, Started
<1>2. ASSUME AtMostOnce, status = "Cancelled", NEW a \in Attempt PROVE ~InEngine(a)
  BY <1>2 DEF AtMostOnce, AttemptOnce, Started, InEngine, ApplyPhases,
       RollbackPhases
<1>3. TypeOK /\ AtMostOnce => CancelMeansUntouched
  BY <1>1, <1>2 DEF CancelMeansUntouched
<1> QED BY <1>3, TypeCorrect, OnceHolds, PTL

-----------------------------------------------------------------------------
(* What the sweep wrote beside an attempt stays written.                   *)
LEMMA OvertookStays == TypeOK /\ overtook /\ [Next]_vars => overtook'
<1> SUFFICES ASSUME TypeOK, overtook, [Next]_vars PROVE overtook'
  OBVIOUS
<1> USE DEF vars, history, ReadFails, RestoreFails
<1>1. ASSUME NEW a \in Attempt, EngineFails(a) \/ RollbackFails(a) PROVE overtook'
  BY <1>1 DEF EngineFails, RollbackFails
<1>2. ASSUME NEW a \in Attempt, StatsFail(a) \/ VerifyFails(a) \/ TakeLocks(a) \/ EngineBegins(a)
      PROVE overtook'
  BY <1>2 DEF StatsFail, VerifyFails, TakeLocks, EngineBegins
<1>3. ASSUME SweepRead \/ SweepWrite \/ SweepUnavailable \/ Crash PROVE overtook'
  BY <1>3 DEF SweepRead, SweepWrite, SweepUnavailable, Crash, TypeOK, HistoryType
<1>4. CASE UNCHANGED history
  BY <1>4
<1> QED BY <1>1, <1>2, <1>3, <1>4
     DEF Next, SweepStep, ApplyStep, RollbackStep, Approve, Cancel, SweepEnds,
         SweepDecide, SweepVerify, ApplyStart, RollbackStart, Busy, Claim, ClaimLost,
         Request, EngineAccepts, EngineRefuses, EngineCommits,
         EngineSucceeds, ApplyRaised, Verify, FinishApply,
         RollbackClaim, RollbackRefused, RollbackUnclaimed,
         RollbackBegins, RollbackReplays, RollbackNotRun, RollbackCommits,
         RollbackRaised, RollbackFinish

-----------------------------------------------------------------------------
(* The replacement, whose rollback is claimed like its apply.              *)
Replacement == Family = "replacement"
Knows == StatusKnows /\ SweepKnows /\ \A a \in Attempt : PhaseKnows(a)

(* While an attempt works, a sweep that nobody came beside is not under way. *)
LEMMA HolderRests ==
    ASSUME NEW a \in Attempt, LocksHeld, InFlight => holder = None,
           pc[a] \in ApplyPhases \cup RollbackPhases, UNCHANGED <<sweep, beside>>
    PROVE  ~InFlight'
<1>1. holder = a
  BY DEF LocksHeld
<1>2. ~InFlight
  BY <1>1, NoneAssumption
<1> QED BY <1>2 DEF InFlight

LEMMA TruthInit == Init => Truthful
<1> SUFFICES ASSUME Init PROVE Truthful
  OBVIOUS
<1>1. StatusKnows
  BY DEF Init, StatusKnows, Started, NoOperations
<1>2. SweepKnows
  BY DEF Init, SweepKnows, InFlight
<1>3. ASSUME NEW a \in Attempt PROVE PhaseKnows(a)
  BY DEF Init, PhaseKnows, ApplyPhases, RollbackPhases
<1> QED BY <1>1, <1>2, <1>3 DEF Truthful

LEMMA StatusKnowsStep ==
    ASSUME Replacement, TypeOK, AtMostOnce, Knows, [Next]_vars, ~overtook'
    PROVE  StatusKnows'
<1>h. /\ RecordType /\ EngineType /\ AttemptType /\ SweepType /\ HistoryType /\ LocksHeld
      /\ StatusKnows /\ SweepKnows /\ \A c \in Attempt : PhaseKnows(c)
  BY DEF TypeOK, AtMostOnce, Knows
<1> USE NoneAssumption DEF Replacement, RecordType, EngineType, AttemptType, SweepType,
            HistoryType, LocksHeld, Started, StatusKnows, SweepKnows, InFlight,
            PhaseKnows, ApplyPhases, RollbackPhases, vars, record, engine, locals,
            sweeper, history, Goes, Leaves, SetRegistry, NoteManifest, ReadFails,
            RestoreFails, NoOperations
<1>1. ASSUME Approve PROVE StatusKnows'
  BY <1>1, <1>h DEF Approve
<1>2. ASSUME Cancel PROVE StatusKnows'
  BY <1>2, <1>h DEF Cancel
<1>3. ASSUME SweepRead PROVE StatusKnows'
  BY <1>3, <1>h DEF SweepRead, Snapshot
<1>4. ASSUME SweepEnds PROVE StatusKnows'
  BY <1>4, <1>h DEF SweepEnds
<1>5. ASSUME SweepDecide PROVE StatusKnows'
  BY <1>5, <1>h DEF SweepDecide, Resolution, FromRegistry
<1>6. ASSUME SweepVerify PROVE StatusKnows'
  BY <1>6, <1>h DEF SweepVerify, Verifies, Outcome
<1>7. ASSUME SweepWrite PROVE StatusKnows'
  BY <1>7, <1>h DEF SweepWrite
<1>8. ASSUME SweepUnavailable PROVE StatusKnows'
  BY <1>8, <1>h DEF SweepUnavailable
<1>9. ASSUME Crash PROVE StatusKnows'
  BY <1>9, <1>h DEF Crash, NoOperations
<1>10. ASSUME NEW a \in Attempt, ApplyStart(a) PROVE StatusKnows'
  BY <1>10, <1>h DEF ApplyStart
<1>11. ASSUME NEW a \in Attempt, RollbackStart(a) PROVE StatusKnows'
  BY <1>11, <1>h DEF RollbackStart
<1>12. ASSUME NEW a \in Attempt, TakeLocks(a) PROVE StatusKnows'
  BY <1>12, <1>h DEF TakeLocks
<1>13. ASSUME NEW a \in Attempt, Busy(a) PROVE StatusKnows'
  BY <1>13, <1>h DEF Busy
<1>14. ASSUME NEW a \in Attempt, Claim(a) PROVE StatusKnows'
  BY <1>14, <1>h DEF Claim, Claimable
<1>15. ASSUME NEW a \in Attempt, ClaimLost(a) PROVE StatusKnows'
  BY <1>15, <1>h DEF ClaimLost
<1>16. ASSUME NEW a \in Attempt, Request(a) PROVE StatusKnows'
  BY <1>16, <1>h DEF Request
<1>17. ASSUME NEW a \in Attempt, StatsFail(a) PROVE StatusKnows'
  BY <1>17, <1>h DEF StatsFail
<1>18. ASSUME NEW a \in Attempt, EngineAccepts(a) PROVE StatusKnows'
  BY <1>18, <1>h DEF EngineAccepts
<1>19. ASSUME NEW a \in Attempt, EngineRefuses(a) PROVE StatusKnows'
  BY <1>19, <1>h DEF EngineRefuses
<1>20. ASSUME NEW a \in Attempt, EngineBegins(a) PROVE StatusKnows'
  BY <1>20, <1>h DEF EngineBegins
<1>21. ASSUME NEW a \in Attempt, EngineCommits(a) PROVE StatusKnows'
  BY <1>21, <1>h DEF EngineCommits
<1>22. ASSUME NEW a \in Attempt, EngineSucceeds(a) PROVE StatusKnows'
  BY <1>22, <1>h DEF EngineSucceeds
<1>23. ASSUME NEW a \in Attempt, EngineFails(a) PROVE StatusKnows'
  BY <1>23, <1>h DEF EngineFails
<1>24. ASSUME NEW a \in Attempt, ApplyRaised(a) PROVE StatusKnows'
  BY <1>24, <1>h DEF ApplyRaised
<1>25. ASSUME NEW a \in Attempt, Verify(a) PROVE StatusKnows'
  BY <1>25, <1>h DEF Verify, Verifies
<1>26. ASSUME NEW a \in Attempt, VerifyFails(a) PROVE StatusKnows'
  BY <1>26, <1>h DEF VerifyFails
<1>27. ASSUME NEW a \in Attempt, FinishApply(a) PROVE StatusKnows'
  BY <1>27, <1>h DEF FinishApply, Outcome
<1>28. ASSUME NEW a \in Attempt, RollbackClaim(a) PROVE StatusKnows'
  BY <1>28, <1>h DEF RollbackClaim, Eligible
<1>29. ASSUME NEW a \in Attempt, RollbackRefused(a) PROVE StatusKnows'
  BY <1>29, <1>h DEF RollbackRefused
<1>30. ASSUME NEW a \in Attempt, RollbackUnclaimed(a) PROVE StatusKnows'
  BY <1>30, <1>h DEF RollbackUnclaimed
<1>31. ASSUME NEW a \in Attempt, RollbackBegins(a) PROVE StatusKnows'
  BY <1>31, <1>h DEF RollbackBegins, Restorable
<1>32. ASSUME NEW a \in Attempt, RollbackReplays(a) PROVE StatusKnows'
  BY <1>32, <1>h DEF RollbackReplays
<1>33. ASSUME NEW a \in Attempt, RollbackNotRun(a) PROVE StatusKnows'
  BY <1>33, <1>h DEF RollbackNotRun
<1>34. ASSUME NEW a \in Attempt, RollbackCommits(a) PROVE StatusKnows'
  BY <1>34, <1>h DEF RollbackCommits
<1>35. ASSUME NEW a \in Attempt, RollbackFails(a) PROVE StatusKnows'
  BY <1>35, <1>h DEF RollbackFails
<1>36. ASSUME NEW a \in Attempt, RollbackRaised(a) PROVE StatusKnows'
  BY <1>36, <1>h DEF RollbackRaised
<1>37. ASSUME NEW a \in Attempt, RollbackFinish(a) PROVE StatusKnows'
  BY <1>37, <1>h DEF RollbackFinish
<1>38. CASE UNCHANGED vars
  BY <1>38, <1>h
<1> QED BY <1>1, <1>2, <1>3, <1>4, <1>5, <1>6, <1>7, <1>8, <1>9, <1>10, <1>11,
           <1>12, <1>13, <1>14, <1>15, <1>16, <1>17, <1>18, <1>19, <1>20, <1>21,
           <1>22, <1>23, <1>24, <1>25, <1>26, <1>27, <1>28, <1>29, <1>30, <1>31,
           <1>32, <1>33, <1>34, <1>35, <1>36, <1>37, <1>38
     DEF Next, SweepStep, ApplyStep, RollbackStep

LEMMA SweepKnowsStep ==
    ASSUME Replacement, TypeOK, AtMostOnce, Knows, [Next]_vars, ~overtook'
    PROVE  SweepKnows'
<1>h. /\ RecordType /\ EngineType /\ AttemptType /\ SweepType /\ HistoryType /\ LocksHeld
      /\ StatusKnows /\ SweepKnows /\ \A c \in Attempt : PhaseKnows(c)
  BY DEF TypeOK, AtMostOnce, Knows
<1> USE NoneAssumption DEF Replacement, RecordType, EngineType, AttemptType, SweepType,
            HistoryType, LocksHeld, Started, StatusKnows, SweepKnows, InFlight,
            PhaseKnows, ApplyPhases, RollbackPhases, vars, record, engine, locals,
            sweeper, history, Goes, Leaves, SetRegistry, NoteManifest, ReadFails,
            RestoreFails, NoOperations
<1>1. ASSUME Approve PROVE SweepKnows'
  BY <1>1, <1>h DEF Approve
<1>2. ASSUME Cancel PROVE SweepKnows'
  BY <1>2, <1>h DEF Cancel
<1>3. ASSUME SweepRead PROVE SweepKnows'
  BY <1>3, <1>h DEF SweepRead, Snapshot
<1>4. ASSUME SweepEnds PROVE SweepKnows'
  BY <1>4, <1>h DEF SweepEnds
<1>5. ASSUME SweepDecide PROVE SweepKnows'
  BY <1>5, <1>h DEF SweepDecide, Resolution, FromRegistry
<1>6. ASSUME SweepVerify PROVE SweepKnows'
  BY <1>6, <1>h DEF SweepVerify, Verifies, Outcome
<1>7. ASSUME SweepWrite PROVE SweepKnows'
  BY <1>7, <1>h DEF SweepWrite
<1>8. ASSUME SweepUnavailable PROVE SweepKnows'
  BY <1>8, <1>h DEF SweepUnavailable
<1>9. ASSUME Crash PROVE SweepKnows'
  BY <1>9, <1>h DEF Crash, NoOperations
<1>10. ASSUME NEW a \in Attempt, ApplyStart(a) PROVE SweepKnows'
  BY <1>10, <1>h DEF ApplyStart
<1>11. ASSUME NEW a \in Attempt, RollbackStart(a) PROVE SweepKnows'
  BY <1>11, <1>h DEF RollbackStart
<1>12. ASSUME NEW a \in Attempt, TakeLocks(a) PROVE SweepKnows'
  BY <1>12, <1>h DEF TakeLocks
<1>13. ASSUME NEW a \in Attempt, Busy(a) PROVE SweepKnows'
  BY <1>13, <1>h DEF Busy
<1>14. ASSUME NEW a \in Attempt, Claim(a) PROVE SweepKnows'
  <2>1. ~InFlight'
    BY <1>14, <1>h, HolderRests DEF Claim
  <2> QED BY <2>1
<1>15. ASSUME NEW a \in Attempt, ClaimLost(a) PROVE SweepKnows'
  <2>1. ~InFlight'
    BY <1>15, <1>h, HolderRests DEF ClaimLost
  <2> QED BY <2>1
<1>16. ASSUME NEW a \in Attempt, Request(a) PROVE SweepKnows'
  <2>1. ~InFlight'
    BY <1>16, <1>h, HolderRests DEF Request
  <2> QED BY <2>1
<1>17. ASSUME NEW a \in Attempt, StatsFail(a) PROVE SweepKnows'
  <2>1. ~InFlight'
    BY <1>17, <1>h, HolderRests DEF StatsFail
  <2> QED BY <2>1
<1>18. ASSUME NEW a \in Attempt, EngineAccepts(a) PROVE SweepKnows'
  <2>1. ~InFlight'
    BY <1>18, <1>h, HolderRests DEF EngineAccepts
  <2> QED BY <2>1
<1>19. ASSUME NEW a \in Attempt, EngineRefuses(a) PROVE SweepKnows'
  <2>1. ~InFlight'
    BY <1>19, <1>h, HolderRests DEF EngineRefuses
  <2> QED BY <2>1
<1>20. ASSUME NEW a \in Attempt, EngineBegins(a) PROVE SweepKnows'
  <2>1. ~InFlight'
    BY <1>20, <1>h, HolderRests DEF EngineBegins
  <2> QED BY <2>1
<1>21. ASSUME NEW a \in Attempt, EngineCommits(a) PROVE SweepKnows'
  <2>1. ~InFlight'
    BY <1>21, <1>h, HolderRests DEF EngineCommits
  <2> QED BY <2>1
<1>22. ASSUME NEW a \in Attempt, EngineSucceeds(a) PROVE SweepKnows'
  <2>1. ~InFlight'
    BY <1>22, <1>h, HolderRests DEF EngineSucceeds
  <2> QED BY <2>1
<1>23. ASSUME NEW a \in Attempt, EngineFails(a) PROVE SweepKnows'
  <2>1. ~InFlight'
    BY <1>23, <1>h, HolderRests DEF EngineFails
  <2> QED BY <2>1
<1>24. ASSUME NEW a \in Attempt, ApplyRaised(a) PROVE SweepKnows'
  <2>1. ~InFlight'
    BY <1>24, <1>h, HolderRests DEF ApplyRaised
  <2> QED BY <2>1
<1>25. ASSUME NEW a \in Attempt, Verify(a) PROVE SweepKnows'
  <2>1. ~InFlight'
    BY <1>25, <1>h, HolderRests DEF Verify
  <2> QED BY <2>1
<1>26. ASSUME NEW a \in Attempt, VerifyFails(a) PROVE SweepKnows'
  <2>1. ~InFlight'
    BY <1>26, <1>h, HolderRests DEF VerifyFails
  <2> QED BY <2>1
<1>27. ASSUME NEW a \in Attempt, FinishApply(a) PROVE SweepKnows'
  <2>1. ~InFlight'
    BY <1>27, <1>h, HolderRests DEF FinishApply
  <2> QED BY <2>1
<1>28. ASSUME NEW a \in Attempt, RollbackClaim(a) PROVE SweepKnows'
  <2>1. ~InFlight'
    BY <1>28, <1>h, HolderRests DEF RollbackClaim
  <2> QED BY <2>1
<1>29. ASSUME NEW a \in Attempt, RollbackRefused(a) PROVE SweepKnows'
  <2>1. ~InFlight'
    BY <1>29, <1>h, HolderRests DEF RollbackRefused
  <2> QED BY <2>1
<1>30. ASSUME NEW a \in Attempt, RollbackUnclaimed(a) PROVE SweepKnows'
  <2>1. ~InFlight'
    BY <1>30, <1>h, HolderRests DEF RollbackUnclaimed
  <2> QED BY <2>1
<1>31. ASSUME NEW a \in Attempt, RollbackBegins(a) PROVE SweepKnows'
  <2>1. ~InFlight'
    BY <1>31, <1>h, HolderRests DEF RollbackBegins
  <2> QED BY <2>1
<1>32. ASSUME NEW a \in Attempt, RollbackReplays(a) PROVE SweepKnows'
  <2>1. ~InFlight'
    BY <1>32, <1>h, HolderRests DEF RollbackReplays
  <2> QED BY <2>1
<1>33. ASSUME NEW a \in Attempt, RollbackNotRun(a) PROVE SweepKnows'
  <2>1. ~InFlight'
    BY <1>33, <1>h, HolderRests DEF RollbackNotRun
  <2> QED BY <2>1
<1>34. ASSUME NEW a \in Attempt, RollbackCommits(a) PROVE SweepKnows'
  <2>1. ~InFlight'
    BY <1>34, <1>h, HolderRests DEF RollbackCommits
  <2> QED BY <2>1
<1>35. ASSUME NEW a \in Attempt, RollbackFails(a) PROVE SweepKnows'
  <2>1. ~InFlight'
    BY <1>35, <1>h, HolderRests DEF RollbackFails
  <2> QED BY <2>1
<1>36. ASSUME NEW a \in Attempt, RollbackRaised(a) PROVE SweepKnows'
  <2>1. ~InFlight'
    BY <1>36, <1>h, HolderRests DEF RollbackRaised
  <2> QED BY <2>1
<1>37. ASSUME NEW a \in Attempt, RollbackFinish(a) PROVE SweepKnows'
  <2>1. ~InFlight'
    BY <1>37, <1>h, HolderRests DEF RollbackFinish
  <2> QED BY <2>1
<1>38. CASE UNCHANGED vars
  BY <1>38, <1>h
<1> QED BY <1>1, <1>2, <1>3, <1>4, <1>5, <1>6, <1>7, <1>8, <1>9, <1>10, <1>11,
           <1>12, <1>13, <1>14, <1>15, <1>16, <1>17, <1>18, <1>19, <1>20, <1>21,
           <1>22, <1>23, <1>24, <1>25, <1>26, <1>27, <1>28, <1>29, <1>30, <1>31,
           <1>32, <1>33, <1>34, <1>35, <1>36, <1>37, <1>38
     DEF Next, SweepStep, ApplyStep, RollbackStep

(* An attempt that does not hold the locks only relies on the result.      *)
LEMMA Parked ==
    ASSUME NEW b \in Attempt, PhaseKnows(b), pc'[b] = pc[b], result => result',
           pc[b] \notin ApplyPhases \cup RollbackPhases
    PROVE  PhaseKnows(b)'
  BY DEF PhaseKnows, ApplyPhases, RollbackPhases

(* While another attempt works under the locks, that is all.               *)
LEMMA Bystander ==
    ASSUME NEW a \in Attempt, NEW b \in Attempt, b # a, LocksHeld, LocksHeld',
           PhaseKnows(b), pc'[b] = pc[b], result => result',
           \/ pc[a] \in ApplyPhases \cup RollbackPhases
           \/ pc'[a] \in ApplyPhases \cup RollbackPhases
    PROVE  PhaseKnows(b)'
<1>1. pc[b] \notin ApplyPhases \cup RollbackPhases
  BY DEF LocksHeld
<1> QED BY <1>1, Parked

LEMMA PhaseKnowsStep ==
    ASSUME Replacement, TypeOK, AtMostOnce, Knows, [Next]_vars, ~overtook', NEW b \in Attempt
    PROVE  PhaseKnows(b)'
<1>h. /\ RecordType /\ EngineType /\ AttemptType /\ HistoryType /\ LocksHeld /\ LocksHeld'
      /\ StatusKnows /\ SweepKnows /\ \A c \in Attempt : PhaseKnows(c)
  BY LocksStep DEF TypeOK, AtMostOnce, Knows
<1> USE NoneAssumption DEF AttemptType, ApplyPhases, RollbackPhases, vars, record, engine, locals,
            sweeper, history, Goes, Leaves, SetRegistry, NoteManifest, ReadFails,
            RestoreFails, NoOperations
<1>1. ASSUME Approve PROVE PhaseKnows(b)'
  BY <1>1, <1>h DEF Approve, PhaseKnows, StatusKnows, SweepKnows, InFlight, Started, LocksHeld,
      HistoryType, EngineType, RecordType, Replacement
<1>2. ASSUME Cancel PROVE PhaseKnows(b)'
  BY <1>2, <1>h DEF Cancel, PhaseKnows, StatusKnows, SweepKnows, InFlight, Started, LocksHeld,
      HistoryType, EngineType, RecordType, Replacement
<1>3. ASSUME SweepRead PROVE PhaseKnows(b)'
  BY <1>3, <1>h DEF SweepRead, Snapshot, PhaseKnows, StatusKnows, SweepKnows, InFlight, Started,
      LocksHeld, HistoryType, EngineType, RecordType, Replacement
<1>4. ASSUME SweepEnds PROVE PhaseKnows(b)'
  BY <1>4, <1>h DEF SweepEnds, PhaseKnows, StatusKnows, SweepKnows, InFlight, Started, LocksHeld,
      HistoryType, EngineType, RecordType, Replacement
<1>5. ASSUME SweepDecide PROVE PhaseKnows(b)'
  BY <1>5, <1>h DEF SweepDecide, Resolution, PhaseKnows, StatusKnows, SweepKnows, InFlight,
      Started, LocksHeld, HistoryType, EngineType, RecordType, Replacement
<1>6. ASSUME SweepVerify PROVE PhaseKnows(b)'
  BY <1>6, <1>h DEF SweepVerify, Verifies, Outcome, PhaseKnows, StatusKnows, SweepKnows, InFlight,
      Started, LocksHeld, HistoryType, EngineType, RecordType, Replacement
<1>7. ASSUME SweepWrite PROVE PhaseKnows(b)'
  BY <1>7, <1>h DEF SweepWrite, PhaseKnows, StatusKnows, SweepKnows, InFlight, Started, LocksHeld,
      HistoryType, EngineType, RecordType, Replacement
<1>8. ASSUME SweepUnavailable PROVE PhaseKnows(b)'
  BY <1>8, <1>h DEF SweepUnavailable, PhaseKnows, StatusKnows, SweepKnows, InFlight, Started,
      LocksHeld, HistoryType, EngineType, RecordType, Replacement
<1>9. ASSUME Crash PROVE PhaseKnows(b)'
  BY <1>9, <1>h DEF Crash, NoOperations, PhaseKnows, StatusKnows, SweepKnows, InFlight, Started,
      LocksHeld, HistoryType, EngineType, RecordType, Replacement
<1>10. ASSUME NEW a \in Attempt, ApplyStart(a) PROVE PhaseKnows(b)'
  <2>1. CASE b = a
    BY <1>10, <1>h, <2>1 DEF ApplyStart, PhaseKnows, StatusKnows, SweepKnows, InFlight, Started,
        LocksHeld, HistoryType, EngineType, RecordType, Replacement
  <2>2. CASE b # a
    BY <1>10, <1>h, <2>2, Parked DEF ApplyStart, PhaseKnows
  <2> QED BY <2>1, <2>2
<1>11. ASSUME NEW a \in Attempt, RollbackStart(a) PROVE PhaseKnows(b)'
  <2>1. CASE b = a
    BY <1>11, <1>h, <2>1 DEF RollbackStart, PhaseKnows, StatusKnows, SweepKnows, InFlight, Started,
        LocksHeld, HistoryType, EngineType, RecordType, Replacement
  <2>2. CASE b # a
    BY <1>11, <1>h, <2>2, Parked DEF RollbackStart, PhaseKnows
  <2> QED BY <2>1, <2>2
<1>12. ASSUME NEW a \in Attempt, TakeLocks(a) PROVE PhaseKnows(b)'
  <2>1. CASE b = a
    BY <1>12, <1>h, <2>1 DEF TakeLocks, PhaseKnows, LocksHeld
  <2>2. CASE b # a
    BY <1>12, <1>h, <2>2, Bystander DEF TakeLocks
  <2> QED BY <2>1, <2>2
<1>13. ASSUME NEW a \in Attempt, Busy(a) PROVE PhaseKnows(b)'
  <2>1. CASE b = a
    BY <1>13, <1>h, <2>1 DEF Busy, PhaseKnows, StatusKnows, SweepKnows, InFlight, Started, LocksHeld,
        HistoryType, EngineType, RecordType, Replacement
  <2>2. CASE b # a
    BY <1>13, <1>h, <2>2, Parked DEF Busy, PhaseKnows
  <2> QED BY <2>1, <2>2
<1>14. ASSUME NEW a \in Attempt, Claim(a) PROVE PhaseKnows(b)'
  <2>1. CASE b = a
    BY <1>14, <1>h, <2>1 DEF Claim, Claimable, PhaseKnows, StatusKnows, SweepKnows, InFlight, Started,
        LocksHeld, HistoryType, EngineType, RecordType, Replacement
  <2>2. CASE b # a
    BY <1>14, <1>h, <2>2, Bystander DEF Claim, Claimable
  <2> QED BY <2>1, <2>2
<1>15. ASSUME NEW a \in Attempt, ClaimLost(a) PROVE PhaseKnows(b)'
  <2>1. CASE b = a
    BY <1>15, <1>h, <2>1 DEF ClaimLost, PhaseKnows, StatusKnows, SweepKnows, InFlight, Started,
        LocksHeld, HistoryType, EngineType, RecordType, Replacement
  <2>2. CASE b # a
    BY <1>15, <1>h, <2>2, Bystander DEF ClaimLost
  <2> QED BY <2>1, <2>2
<1>16. ASSUME NEW a \in Attempt, Request(a) PROVE PhaseKnows(b)'
  <2>1. CASE b = a
    BY <1>16, <1>h, <2>1 DEF Request, PhaseKnows, StatusKnows, SweepKnows, InFlight, Started, LocksHeld,
        HistoryType, EngineType, RecordType, Replacement
  <2>2. CASE b # a
    BY <1>16, <1>h, <2>2, Bystander DEF Request
  <2> QED BY <2>1, <2>2
<1>17. ASSUME NEW a \in Attempt, StatsFail(a) PROVE PhaseKnows(b)'
  <2>1. CASE b = a
    BY <1>17, <1>h, <2>1 DEF StatsFail, PhaseKnows, StatusKnows, SweepKnows, InFlight, Started,
        LocksHeld, HistoryType, EngineType, RecordType, Replacement
  <2>2. CASE b # a
    BY <1>17, <1>h, <2>2, Bystander DEF StatsFail
  <2> QED BY <2>1, <2>2
<1>18. ASSUME NEW a \in Attempt, EngineAccepts(a) PROVE PhaseKnows(b)'
  <2>1. CASE b = a
    BY <1>18, <1>h, <2>1 DEF EngineAccepts, PhaseKnows, StatusKnows, SweepKnows, InFlight, Started,
        LocksHeld, HistoryType, EngineType, RecordType, Replacement
  <2>2. CASE b # a
    BY <1>18, <1>h, <2>2, Bystander DEF EngineAccepts
  <2> QED BY <2>1, <2>2
<1>19. ASSUME NEW a \in Attempt, EngineRefuses(a) PROVE PhaseKnows(b)'
  <2>1. CASE b = a
    BY <1>19, <1>h, <2>1 DEF EngineRefuses, PhaseKnows, StatusKnows, SweepKnows, InFlight, Started,
        LocksHeld, HistoryType, EngineType, RecordType, Replacement
  <2>2. CASE b # a
    BY <1>19, <1>h, <2>2, Bystander DEF EngineRefuses
  <2> QED BY <2>1, <2>2
<1>20. ASSUME NEW a \in Attempt, EngineBegins(a) PROVE PhaseKnows(b)'
  <2>1. CASE b = a
    BY <1>20, <1>h, <2>1 DEF EngineBegins, PhaseKnows, StatusKnows, SweepKnows, InFlight, Started,
        LocksHeld, HistoryType, EngineType, RecordType, Replacement
  <2>2. CASE b # a
    BY <1>20, <1>h, <2>2, Bystander DEF EngineBegins
  <2> QED BY <2>1, <2>2
<1>21. ASSUME NEW a \in Attempt, EngineCommits(a) PROVE PhaseKnows(b)'
  <2>1. CASE b = a
    BY <1>21, <1>h, <2>1 DEF EngineCommits, PhaseKnows, StatusKnows, SweepKnows, InFlight, Started,
        LocksHeld, HistoryType, EngineType, RecordType, Replacement
  <2>2. CASE b # a
    BY <1>21, <1>h, <2>2, Bystander DEF EngineCommits
  <2> QED BY <2>1, <2>2
<1>22. ASSUME NEW a \in Attempt, EngineSucceeds(a) PROVE PhaseKnows(b)'
  <2>1. CASE b = a
    BY <1>22, <1>h, <2>1 DEF EngineSucceeds, PhaseKnows, StatusKnows, SweepKnows, InFlight, Started,
        LocksHeld, HistoryType, EngineType, RecordType, Replacement
  <2>2. CASE b # a
    BY <1>22, <1>h, <2>2, Bystander DEF EngineSucceeds
  <2> QED BY <2>1, <2>2
<1>23. ASSUME NEW a \in Attempt, EngineFails(a) PROVE PhaseKnows(b)'
  <2>1. CASE b = a
    BY <1>23, <1>h, <2>1 DEF EngineFails, PhaseKnows, StatusKnows, SweepKnows, InFlight, Started,
        LocksHeld, HistoryType, EngineType, RecordType, Replacement
  <2>2. CASE b # a
    BY <1>23, <1>h, <2>2, Bystander DEF EngineFails
  <2> QED BY <2>1, <2>2
<1>24. ASSUME NEW a \in Attempt, ApplyRaised(a) PROVE PhaseKnows(b)'
  <2>1. CASE b = a
    BY <1>24, <1>h, <2>1 DEF ApplyRaised, PhaseKnows, StatusKnows, SweepKnows, InFlight, Started,
        LocksHeld, HistoryType, EngineType, RecordType, Replacement
  <2>2. CASE b # a
    BY <1>24, <1>h, <2>2, Bystander DEF ApplyRaised
  <2> QED BY <2>1, <2>2
<1>25. ASSUME NEW a \in Attempt, Verify(a) PROVE PhaseKnows(b)'
  <2>1. CASE b = a
    BY <1>25, <1>h, <2>1 DEF Verify, Verifies, PhaseKnows, StatusKnows, SweepKnows, InFlight, Started,
        LocksHeld, HistoryType, EngineType, RecordType, Replacement
  <2>2. CASE b # a
    BY <1>25, <1>h, <2>2, Bystander DEF Verify, Verifies
  <2> QED BY <2>1, <2>2
<1>26. ASSUME NEW a \in Attempt, VerifyFails(a) PROVE PhaseKnows(b)'
  <2>1. CASE b = a
    BY <1>26, <1>h, <2>1 DEF VerifyFails, PhaseKnows, StatusKnows, SweepKnows, InFlight, Started,
        LocksHeld, HistoryType, EngineType, RecordType, Replacement
  <2>2. CASE b # a
    BY <1>26, <1>h, <2>2, Bystander DEF VerifyFails
  <2> QED BY <2>1, <2>2
<1>27. ASSUME NEW a \in Attempt, FinishApply(a) PROVE PhaseKnows(b)'
  <2>1. CASE b = a
    BY <1>27, <1>h, <2>1 DEF FinishApply, Outcome, PhaseKnows, StatusKnows, SweepKnows, InFlight,
        Started, LocksHeld, HistoryType, EngineType, RecordType, Replacement
  <2>2. CASE b # a
    BY <1>27, <1>h, <2>2, Bystander DEF FinishApply, Outcome
  <2> QED BY <2>1, <2>2
<1>28. ASSUME NEW a \in Attempt, RollbackClaim(a) PROVE PhaseKnows(b)'
  <2>1. CASE b = a
    BY <1>28, <1>h, <2>1 DEF RollbackClaim, Eligible, PhaseKnows, StatusKnows, SweepKnows, InFlight,
        Started, LocksHeld, HistoryType, EngineType, RecordType, Replacement
  <2>2. CASE b # a
    BY <1>28, <1>h, <2>2, Bystander DEF RollbackClaim, Eligible
  <2> QED BY <2>1, <2>2
<1>29. ASSUME NEW a \in Attempt, RollbackRefused(a) PROVE PhaseKnows(b)'
  <2>1. CASE b = a
    BY <1>29, <1>h, <2>1 DEF RollbackRefused, PhaseKnows, StatusKnows, SweepKnows, InFlight, Started,
        LocksHeld, HistoryType, EngineType, RecordType, Replacement
  <2>2. CASE b # a
    BY <1>29, <1>h, <2>2, Bystander DEF RollbackRefused
  <2> QED BY <2>1, <2>2
<1>30. ASSUME NEW a \in Attempt, RollbackUnclaimed(a) PROVE PhaseKnows(b)'
  <2>1. CASE b = a
    BY <1>30, <1>h, <2>1 DEF RollbackUnclaimed, PhaseKnows, StatusKnows, SweepKnows, InFlight, Started,
        LocksHeld, HistoryType, EngineType, RecordType, Replacement
  <2>2. CASE b # a
    BY <1>30, <1>h, <2>2, Bystander DEF RollbackUnclaimed
  <2> QED BY <2>1, <2>2
<1>31. ASSUME NEW a \in Attempt, RollbackBegins(a) PROVE PhaseKnows(b)'
  <2>1. CASE b = a
    BY <1>31, <1>h, <2>1 DEF RollbackBegins, Restorable, PhaseKnows, StatusKnows, SweepKnows, InFlight,
        Started, LocksHeld, HistoryType, EngineType, RecordType, Replacement
  <2>2. CASE b # a
    BY <1>31, <1>h, <2>2, Bystander DEF RollbackBegins, Restorable
  <2> QED BY <2>1, <2>2
<1>32. ASSUME NEW a \in Attempt, RollbackReplays(a) PROVE PhaseKnows(b)'
  <2>1. CASE b = a
    BY <1>32, <1>h, <2>1 DEF RollbackReplays, PhaseKnows, StatusKnows, SweepKnows, InFlight, Started,
        LocksHeld, HistoryType, EngineType, RecordType, Replacement
  <2>2. CASE b # a
    BY <1>32, <1>h, <2>2, Bystander DEF RollbackReplays
  <2> QED BY <2>1, <2>2
<1>33. ASSUME NEW a \in Attempt, RollbackNotRun(a) PROVE PhaseKnows(b)'
  <2>1. CASE b = a
    BY <1>33, <1>h, <2>1 DEF RollbackNotRun, PhaseKnows, StatusKnows, SweepKnows, InFlight, Started,
        LocksHeld, HistoryType, EngineType, RecordType, Replacement
  <2>2. CASE b # a
    BY <1>33, <1>h, <2>2, Bystander DEF RollbackNotRun
  <2> QED BY <2>1, <2>2
<1>34. ASSUME NEW a \in Attempt, RollbackCommits(a) PROVE PhaseKnows(b)'
  <2>1. CASE b = a
    BY <1>34, <1>h, <2>1 DEF RollbackCommits, PhaseKnows, StatusKnows, SweepKnows, InFlight, Started,
        LocksHeld, HistoryType, EngineType, RecordType, Replacement
  <2>2. CASE b # a
    BY <1>34, <1>h, <2>2, Bystander DEF RollbackCommits
  <2> QED BY <2>1, <2>2
<1>35. ASSUME NEW a \in Attempt, RollbackFails(a) PROVE PhaseKnows(b)'
  <2>1. CASE b = a
    BY <1>35, <1>h, <2>1 DEF RollbackFails, PhaseKnows, StatusKnows, SweepKnows, InFlight, Started,
        LocksHeld, HistoryType, EngineType, RecordType, Replacement
  <2>2. CASE b # a
    BY <1>35, <1>h, <2>2, Bystander DEF RollbackFails
  <2> QED BY <2>1, <2>2
<1>36. ASSUME NEW a \in Attempt, RollbackRaised(a) PROVE PhaseKnows(b)'
  <2>1. CASE b = a
    BY <1>36, <1>h, <2>1 DEF RollbackRaised, PhaseKnows, StatusKnows, SweepKnows, InFlight, Started,
        LocksHeld, HistoryType, EngineType, RecordType, Replacement
  <2>2. CASE b # a
    BY <1>36, <1>h, <2>2, Bystander DEF RollbackRaised
  <2> QED BY <2>1, <2>2
<1>37. ASSUME NEW a \in Attempt, RollbackFinish(a) PROVE PhaseKnows(b)'
  <2>1. CASE b = a
    BY <1>37, <1>h, <2>1 DEF RollbackFinish, PhaseKnows, StatusKnows, SweepKnows, InFlight, Started,
        LocksHeld, HistoryType, EngineType, RecordType, Replacement
  <2>2. CASE b # a
    BY <1>37, <1>h, <2>2, Bystander DEF RollbackFinish
  <2> QED BY <2>1, <2>2
<1>38. CASE UNCHANGED vars
  BY <1>38, <1>h DEF PhaseKnows
<1> QED BY <1>1, <1>2, <1>3, <1>4, <1>5, <1>6, <1>7, <1>8, <1>9, <1>10, <1>11,
           <1>12, <1>13, <1>14, <1>15, <1>16, <1>17, <1>18, <1>19, <1>20, <1>21,
           <1>22, <1>23, <1>24, <1>25, <1>26, <1>27, <1>28, <1>29, <1>30, <1>31,
           <1>32, <1>33, <1>34, <1>35, <1>36, <1>37, <1>38
     DEF Next, SweepStep, ApplyStep, RollbackStep

LEMMA TruthStep == Replacement /\ TypeOK /\ AtMostOnce /\ Truthful /\ [Next]_vars => Truthful'
<1> SUFFICES ASSUME Replacement, TypeOK, AtMostOnce, Truthful, [Next]_vars PROVE Truthful'
  OBVIOUS
<1>1. CASE overtook
  BY <1>1, OvertookStays DEF Truthful
<1>2. CASE overtook'
  BY <1>2 DEF Truthful
<1>3. CASE ~overtook /\ ~overtook'
  <2>1. Knows
    BY <1>3 DEF Truthful, Knows
  <2>2. StatusKnows' /\ SweepKnows' /\ \A b \in Attempt : PhaseKnows(b)'
    BY <1>3, <2>1, StatusKnowsStep, SweepKnowsStep, PhaseKnowsStep
  <2> QED BY <2>2 DEF Truthful
<1> QED BY <1>1, <1>2, <1>3

(* The inductive invariant behind the properties and the refinement below: *)
(* for a replacement, until the sweep writes beside an attempt.            *)
THEOREM TruthHolds == ASSUME Replacement PROVE Spec => []Truthful
<1> QED BY TypeCorrect, OnceHolds, TruthInit, TruthStep, PTL DEF Spec

-----------------------------------------------------------------------------
(* The row merge, whose rollback is not claimed and whose evidence is the  *)
(* manifest: while the manifest says that nothing was changed or all of it *)
(* was put back, so it is, and the statuses that say so go by it.          *)
RowMerge == Family = "row_merge"
Untouched == {"none", "compensated", "rolled_back"}
RowPhase(a) ==
    /\ pc[a] \in ApplyPhases \ {"apply: claim"} => status = "Running"
    /\ pc[a] \in ApplyPhases \ {"apply: claim", "apply: request"} => requested
    /\ pc[a] \in RollbackPhases \cup {"rollback: lock"} => result
    /\ pc[a] \in {"apply: request", "apply: call", "apply: begin"} => manifest \in Untouched
    /\ pc[a] = "apply: raised" => manifest \in Untouched \/ unrestored
    /\ pc[a] = "rollback: commit" => manifest = "applied"
    /\ pc[a] = "rollback: finish" => manifest = "rolled_back"
RowStatus ==
    /\ rollback = "none"
    /\ ~Started => ~requested
    /\ ~requested => manifest = "none" /\ ~result
    /\ result => status \in {"Completed", "Recovery Required", "Rolled Back"}
    /\ status = "Failed" => manifest \in Untouched \/ unrestored
    /\ status = "Rolled Back" => manifest = "rolled_back"
    /\ manifest \in Untouched => library = "original"
RowSweep ==
    /\ InFlight => holder = None /\ status = "Running"
    /\ InFlight /\ sweep = "decide" => snap.requested = requested /\ snap.rollback = "none"
    /\ InFlight /\ sweep = "write" => /\ decided \in {"Failed", "Recovery Required"}
                                      /\ decided = "Failed" => manifest \in Untouched
    /\ InFlight /\ sweep \in {"verify", "finish"} => requested
    /\ InFlight /\ sweep = "finish" => decided \in {"Completed", "Recovery Required"}
RowKnows == RowStatus /\ RowSweep /\ \A a \in Attempt : RowPhase(a)
RowTruthful == overtook \/ RowKnows

LEMMA RowInit == Init => RowTruthful
<1> QED
  BY DEF Init, RowTruthful, RowKnows, RowStatus, RowSweep, RowPhase, Started, Snapshot,
         InFlight, Untouched, ApplyPhases, RollbackPhases

LEMMA RowStatusStep ==
    ASSUME RowMerge, TypeOK, AtMostOnce, RowKnows, [Next]_vars, ~overtook'
    PROVE  RowStatus'
<1>h. /\ RecordType /\ EngineType /\ AttemptType /\ SweepType /\ HistoryType /\ LocksHeld
      /\ RowStatus /\ RowSweep /\ \A c \in Attempt : RowPhase(c)
  BY DEF TypeOK, AtMostOnce, RowKnows
<1> USE NoneAssumption DEF RowMerge, RecordType, EngineType, AttemptType, SweepType, HistoryType,
            LocksHeld, Started, Untouched, RowStatus, RowSweep, InFlight, RowPhase,
            ApplyPhases, RollbackPhases, vars, record, engine, locals, sweeper,
            history, Goes, Leaves, SetRegistry, NoteManifest, ReadFails,
            RestoreFails, NoOperations
<1>1. ASSUME Approve PROVE RowStatus'
  BY <1>1, <1>h DEF Approve
<1>2. ASSUME Cancel PROVE RowStatus'
  BY <1>2, <1>h DEF Cancel
<1>3. ASSUME SweepRead PROVE RowStatus'
  BY <1>3, <1>h DEF SweepRead, Snapshot
<1>4. ASSUME SweepEnds PROVE RowStatus'
  BY <1>4, <1>h DEF SweepEnds
<1>5. ASSUME SweepDecide PROVE RowStatus'
  BY <1>5, <1>h DEF SweepDecide, Resolution, FromManifest
<1>6. ASSUME SweepVerify PROVE RowStatus'
  BY <1>6, <1>h DEF SweepVerify, Verifies, Outcome
<1>7. ASSUME SweepWrite PROVE RowStatus'
  BY <1>7, <1>h DEF SweepWrite
<1>8. ASSUME SweepUnavailable PROVE RowStatus'
  BY <1>8, <1>h DEF SweepUnavailable
<1>9. ASSUME Crash PROVE RowStatus'
  BY <1>9, <1>h DEF Crash, NoOperations
<1>10. ASSUME NEW a \in Attempt, ApplyStart(a) PROVE RowStatus'
  BY <1>10, <1>h DEF ApplyStart
<1>11. ASSUME NEW a \in Attempt, RollbackStart(a) PROVE RowStatus'
  BY <1>11, <1>h DEF RollbackStart
<1>12. ASSUME NEW a \in Attempt, TakeLocks(a) PROVE RowStatus'
  BY <1>12, <1>h DEF TakeLocks
<1>13. ASSUME NEW a \in Attempt, Busy(a) PROVE RowStatus'
  BY <1>13, <1>h DEF Busy
<1>14. ASSUME NEW a \in Attempt, Claim(a) PROVE RowStatus'
  BY <1>14, <1>h DEF Claim, Claimable
<1>15. ASSUME NEW a \in Attempt, ClaimLost(a) PROVE RowStatus'
  BY <1>15, <1>h DEF ClaimLost
<1>16. ASSUME NEW a \in Attempt, Request(a) PROVE RowStatus'
  BY <1>16, <1>h DEF Request
<1>17. ASSUME NEW a \in Attempt, StatsFail(a) PROVE RowStatus'
  BY <1>17, <1>h DEF StatsFail
<1>18. ASSUME NEW a \in Attempt, EngineAccepts(a) PROVE RowStatus'
  BY <1>18, <1>h DEF EngineAccepts
<1>19. ASSUME NEW a \in Attempt, EngineRefuses(a) PROVE RowStatus'
  BY <1>19, <1>h DEF EngineRefuses
<1>20. ASSUME NEW a \in Attempt, EngineBegins(a) PROVE RowStatus'
  BY <1>20, <1>h DEF EngineBegins
<1>21. ASSUME NEW a \in Attempt, EngineCommits(a) PROVE RowStatus'
  BY <1>21, <1>h DEF EngineCommits
<1>22. ASSUME NEW a \in Attempt, EngineSucceeds(a) PROVE RowStatus'
  BY <1>22, <1>h DEF EngineSucceeds
<1>23. ASSUME NEW a \in Attempt, EngineFails(a) PROVE RowStatus'
  BY <1>23, <1>h DEF EngineFails
<1>24. ASSUME NEW a \in Attempt, ApplyRaised(a) PROVE RowStatus'
  BY <1>24, <1>h DEF ApplyRaised
<1>25. ASSUME NEW a \in Attempt, Verify(a) PROVE RowStatus'
  BY <1>25, <1>h DEF Verify, Verifies
<1>26. ASSUME NEW a \in Attempt, VerifyFails(a) PROVE RowStatus'
  BY <1>26, <1>h DEF VerifyFails
<1>27. ASSUME NEW a \in Attempt, FinishApply(a) PROVE RowStatus'
  BY <1>27, <1>h DEF FinishApply, Outcome
<1>28. ASSUME NEW a \in Attempt, RollbackClaim(a) PROVE RowStatus'
  BY <1>28, <1>h DEF RollbackClaim, Eligible
<1>29. ASSUME NEW a \in Attempt, RollbackRefused(a) PROVE RowStatus'
  BY <1>29, <1>h DEF RollbackRefused
<1>30. ASSUME NEW a \in Attempt, RollbackUnclaimed(a) PROVE RowStatus'
  BY <1>30, <1>h DEF RollbackUnclaimed
<1>31. ASSUME NEW a \in Attempt, RollbackBegins(a) PROVE RowStatus'
  BY <1>31, <1>h DEF RollbackBegins, Restorable
<1>32. ASSUME NEW a \in Attempt, RollbackReplays(a) PROVE RowStatus'
  BY <1>32, <1>h DEF RollbackReplays
<1>33. ASSUME NEW a \in Attempt, RollbackNotRun(a) PROVE RowStatus'
  BY <1>33, <1>h DEF RollbackNotRun
<1>34. ASSUME NEW a \in Attempt, RollbackCommits(a) PROVE RowStatus'
  BY <1>34, <1>h DEF RollbackCommits
<1>35. ASSUME NEW a \in Attempt, RollbackFails(a) PROVE RowStatus'
  BY <1>35, <1>h DEF RollbackFails
<1>36. ASSUME NEW a \in Attempt, RollbackRaised(a) PROVE RowStatus'
  BY <1>36, <1>h DEF RollbackRaised
<1>37. ASSUME NEW a \in Attempt, RollbackFinish(a) PROVE RowStatus'
  BY <1>37, <1>h DEF RollbackFinish
<1>38. CASE UNCHANGED vars
  BY <1>38, <1>h
<1> QED BY <1>1, <1>2, <1>3, <1>4, <1>5, <1>6, <1>7, <1>8, <1>9, <1>10, <1>11,
           <1>12, <1>13, <1>14, <1>15, <1>16, <1>17, <1>18, <1>19, <1>20, <1>21,
           <1>22, <1>23, <1>24, <1>25, <1>26, <1>27, <1>28, <1>29, <1>30, <1>31,
           <1>32, <1>33, <1>34, <1>35, <1>36, <1>37, <1>38
     DEF Next, SweepStep, ApplyStep, RollbackStep

LEMMA RowSweepStep ==
    ASSUME RowMerge, TypeOK, AtMostOnce, RowKnows, [Next]_vars, ~overtook'
    PROVE  RowSweep'
<1>h. /\ RecordType /\ EngineType /\ AttemptType /\ SweepType /\ HistoryType /\ LocksHeld
      /\ RowStatus /\ RowSweep /\ \A c \in Attempt : RowPhase(c)
  BY DEF TypeOK, AtMostOnce, RowKnows
<1> USE NoneAssumption DEF RowMerge, RecordType, EngineType, AttemptType, SweepType, HistoryType,
            LocksHeld, Started, Untouched, RowStatus, RowSweep, InFlight, RowPhase,
            ApplyPhases, RollbackPhases, vars, record, engine, locals, sweeper,
            history, Goes, Leaves, SetRegistry, NoteManifest, ReadFails,
            RestoreFails, NoOperations
<1>1. ASSUME Approve PROVE RowSweep'
  BY <1>1, <1>h DEF Approve
<1>2. ASSUME Cancel PROVE RowSweep'
  BY <1>2, <1>h DEF Cancel
<1>3. ASSUME SweepRead PROVE RowSweep'
  BY <1>3, <1>h DEF SweepRead, Snapshot
<1>4. ASSUME SweepEnds PROVE RowSweep'
  BY <1>4, <1>h DEF SweepEnds
<1>5. ASSUME SweepDecide PROVE RowSweep'
  BY <1>5, <1>h DEF SweepDecide, Resolution, FromManifest
<1>6. ASSUME SweepVerify PROVE RowSweep'
  BY <1>6, <1>h DEF SweepVerify, Verifies, Outcome
<1>7. ASSUME SweepWrite PROVE RowSweep'
  BY <1>7, <1>h DEF SweepWrite
<1>8. ASSUME SweepUnavailable PROVE RowSweep'
  BY <1>8, <1>h DEF SweepUnavailable
<1>9. ASSUME Crash PROVE RowSweep'
  BY <1>9, <1>h DEF Crash, NoOperations
<1>10. ASSUME NEW a \in Attempt, ApplyStart(a) PROVE RowSweep'
  BY <1>10, <1>h DEF ApplyStart
<1>11. ASSUME NEW a \in Attempt, RollbackStart(a) PROVE RowSweep'
  BY <1>11, <1>h DEF RollbackStart
<1>12. ASSUME NEW a \in Attempt, TakeLocks(a) PROVE RowSweep'
  BY <1>12, <1>h DEF TakeLocks
<1>13. ASSUME NEW a \in Attempt, Busy(a) PROVE RowSweep'
  BY <1>13, <1>h DEF Busy
<1>14. ASSUME NEW a \in Attempt, Claim(a) PROVE RowSweep'
  <2>1. ~InFlight'
    BY <1>14, <1>h, HolderRests DEF Claim
  <2> QED BY <2>1
<1>15. ASSUME NEW a \in Attempt, ClaimLost(a) PROVE RowSweep'
  <2>1. ~InFlight'
    BY <1>15, <1>h, HolderRests DEF ClaimLost
  <2> QED BY <2>1
<1>16. ASSUME NEW a \in Attempt, Request(a) PROVE RowSweep'
  <2>1. ~InFlight'
    BY <1>16, <1>h, HolderRests DEF Request
  <2> QED BY <2>1
<1>17. ASSUME NEW a \in Attempt, StatsFail(a) PROVE RowSweep'
  <2>1. ~InFlight'
    BY <1>17, <1>h, HolderRests DEF StatsFail
  <2> QED BY <2>1
<1>18. ASSUME NEW a \in Attempt, EngineAccepts(a) PROVE RowSweep'
  <2>1. ~InFlight'
    BY <1>18, <1>h, HolderRests DEF EngineAccepts
  <2> QED BY <2>1
<1>19. ASSUME NEW a \in Attempt, EngineRefuses(a) PROVE RowSweep'
  <2>1. ~InFlight'
    BY <1>19, <1>h, HolderRests DEF EngineRefuses
  <2> QED BY <2>1
<1>20. ASSUME NEW a \in Attempt, EngineBegins(a) PROVE RowSweep'
  <2>1. ~InFlight'
    BY <1>20, <1>h, HolderRests DEF EngineBegins
  <2> QED BY <2>1
<1>21. ASSUME NEW a \in Attempt, EngineCommits(a) PROVE RowSweep'
  <2>1. ~InFlight'
    BY <1>21, <1>h, HolderRests DEF EngineCommits
  <2> QED BY <2>1
<1>22. ASSUME NEW a \in Attempt, EngineSucceeds(a) PROVE RowSweep'
  <2>1. ~InFlight'
    BY <1>22, <1>h, HolderRests DEF EngineSucceeds
  <2> QED BY <2>1
<1>23. ASSUME NEW a \in Attempt, EngineFails(a) PROVE RowSweep'
  <2>1. ~InFlight'
    BY <1>23, <1>h, HolderRests DEF EngineFails
  <2> QED BY <2>1
<1>24. ASSUME NEW a \in Attempt, ApplyRaised(a) PROVE RowSweep'
  <2>1. ~InFlight'
    BY <1>24, <1>h, HolderRests DEF ApplyRaised
  <2> QED BY <2>1
<1>25. ASSUME NEW a \in Attempt, Verify(a) PROVE RowSweep'
  <2>1. ~InFlight'
    BY <1>25, <1>h, HolderRests DEF Verify
  <2> QED BY <2>1
<1>26. ASSUME NEW a \in Attempt, VerifyFails(a) PROVE RowSweep'
  <2>1. ~InFlight'
    BY <1>26, <1>h, HolderRests DEF VerifyFails
  <2> QED BY <2>1
<1>27. ASSUME NEW a \in Attempt, FinishApply(a) PROVE RowSweep'
  <2>1. ~InFlight'
    BY <1>27, <1>h, HolderRests DEF FinishApply
  <2> QED BY <2>1
<1>28. ASSUME NEW a \in Attempt, RollbackClaim(a) PROVE RowSweep'
  <2>1. ~InFlight'
    BY <1>28, <1>h, HolderRests DEF RollbackClaim
  <2> QED BY <2>1
<1>29. ASSUME NEW a \in Attempt, RollbackRefused(a) PROVE RowSweep'
  <2>1. ~InFlight'
    BY <1>29, <1>h, HolderRests DEF RollbackRefused
  <2> QED BY <2>1
<1>30. ASSUME NEW a \in Attempt, RollbackUnclaimed(a) PROVE RowSweep'
  <2>1. ~InFlight'
    BY <1>30, <1>h, HolderRests DEF RollbackUnclaimed
  <2> QED BY <2>1
<1>31. ASSUME NEW a \in Attempt, RollbackBegins(a) PROVE RowSweep'
  <2>1. ~InFlight'
    BY <1>31, <1>h, HolderRests DEF RollbackBegins
  <2> QED BY <2>1
<1>32. ASSUME NEW a \in Attempt, RollbackReplays(a) PROVE RowSweep'
  <2>1. ~InFlight'
    BY <1>32, <1>h, HolderRests DEF RollbackReplays
  <2> QED BY <2>1
<1>33. ASSUME NEW a \in Attempt, RollbackNotRun(a) PROVE RowSweep'
  <2>1. ~InFlight'
    BY <1>33, <1>h, HolderRests DEF RollbackNotRun
  <2> QED BY <2>1
<1>34. ASSUME NEW a \in Attempt, RollbackCommits(a) PROVE RowSweep'
  <2>1. ~InFlight'
    BY <1>34, <1>h, HolderRests DEF RollbackCommits
  <2> QED BY <2>1
<1>35. ASSUME NEW a \in Attempt, RollbackFails(a) PROVE RowSweep'
  <2>1. ~InFlight'
    BY <1>35, <1>h, HolderRests DEF RollbackFails
  <2> QED BY <2>1
<1>36. ASSUME NEW a \in Attempt, RollbackRaised(a) PROVE RowSweep'
  <2>1. ~InFlight'
    BY <1>36, <1>h, HolderRests DEF RollbackRaised
  <2> QED BY <2>1
<1>37. ASSUME NEW a \in Attempt, RollbackFinish(a) PROVE RowSweep'
  <2>1. ~InFlight'
    BY <1>37, <1>h, HolderRests DEF RollbackFinish
  <2> QED BY <2>1
<1>38. CASE UNCHANGED vars
  BY <1>38, <1>h
<1> QED BY <1>1, <1>2, <1>3, <1>4, <1>5, <1>6, <1>7, <1>8, <1>9, <1>10, <1>11,
           <1>12, <1>13, <1>14, <1>15, <1>16, <1>17, <1>18, <1>19, <1>20, <1>21,
           <1>22, <1>23, <1>24, <1>25, <1>26, <1>27, <1>28, <1>29, <1>30, <1>31,
           <1>32, <1>33, <1>34, <1>35, <1>36, <1>37, <1>38
     DEF Next, SweepStep, ApplyStep, RollbackStep

(* As in Parked and Bystander above: one that holds no locks relies on the *)
(* result alone.                                                           *)
LEMMA RowParked ==
    ASSUME NEW b \in Attempt, RowPhase(b), pc'[b] = pc[b], result => result',
           pc[b] \notin ApplyPhases \cup RollbackPhases
    PROVE  RowPhase(b)'
  BY DEF RowPhase, ApplyPhases, RollbackPhases
LEMMA RowBystander ==
    ASSUME NEW a \in Attempt, NEW b \in Attempt, b # a, LocksHeld, LocksHeld',
           RowPhase(b), pc'[b] = pc[b], result => result',
           \/ pc[a] \in ApplyPhases \cup RollbackPhases
           \/ pc'[a] \in ApplyPhases \cup RollbackPhases
    PROVE  RowPhase(b)'
<1>1. pc[b] \notin ApplyPhases \cup RollbackPhases
  BY DEF LocksHeld
<1> QED BY <1>1, RowParked

LEMMA RowPhaseStep ==
    ASSUME RowMerge, TypeOK, AtMostOnce, RowKnows, [Next]_vars, ~overtook', NEW b \in Attempt
    PROVE  RowPhase(b)'
<1>h. /\ RecordType /\ EngineType /\ AttemptType /\ HistoryType /\ LocksHeld /\ LocksHeld'
      /\ RowStatus /\ RowSweep /\ \A c \in Attempt : RowPhase(c)
  BY LocksStep DEF TypeOK, AtMostOnce, RowKnows
<1> USE NoneAssumption DEF RecordType, AttemptType, ApplyPhases, RollbackPhases, vars, record,
            engine, locals, sweeper, history, Goes, Leaves, SetRegistry,
            NoteManifest, ReadFails, RestoreFails, NoOperations
<1>1. ASSUME Approve PROVE RowPhase(b)'
  BY <1>1, <1>h DEF Approve, RowPhase, RowStatus, RowSweep, InFlight, Started, Untouched,
      LocksHeld, HistoryType, RowMerge
<1>2. ASSUME Cancel PROVE RowPhase(b)'
  BY <1>2, <1>h DEF Cancel, RowPhase, RowStatus, RowSweep, InFlight, Started, Untouched,
      LocksHeld, HistoryType, RowMerge
<1>3. ASSUME SweepRead PROVE RowPhase(b)'
  BY <1>3, <1>h DEF SweepRead, Snapshot, RowPhase, RowStatus, RowSweep, InFlight, Started,
      Untouched, LocksHeld, HistoryType, RowMerge
<1>4. ASSUME SweepEnds PROVE RowPhase(b)'
  BY <1>4, <1>h DEF SweepEnds, RowPhase, RowStatus, RowSweep, InFlight, Started, Untouched,
      LocksHeld, HistoryType, RowMerge
<1>5. ASSUME SweepDecide PROVE RowPhase(b)'
  BY <1>5, <1>h DEF SweepDecide, Resolution, RowPhase, RowStatus, RowSweep, InFlight, Started,
      Untouched, LocksHeld, HistoryType, RowMerge
<1>6. ASSUME SweepVerify PROVE RowPhase(b)'
  BY <1>6, <1>h DEF SweepVerify, Verifies, Outcome, RowPhase, RowStatus, RowSweep, InFlight,
      Started, Untouched, LocksHeld, HistoryType, RowMerge
<1>7. ASSUME SweepWrite PROVE RowPhase(b)'
  BY <1>7, <1>h DEF SweepWrite, RowPhase, RowStatus, RowSweep, InFlight, Started, Untouched,
      LocksHeld, HistoryType, RowMerge
<1>8. ASSUME SweepUnavailable PROVE RowPhase(b)'
  BY <1>8, <1>h DEF SweepUnavailable, RowPhase, RowStatus, RowSweep, InFlight, Started, Untouched,
      LocksHeld, HistoryType, RowMerge
<1>9. ASSUME Crash PROVE RowPhase(b)'
  BY <1>9, <1>h DEF Crash, NoOperations, RowPhase, RowStatus, RowSweep, InFlight, Started,
      Untouched, LocksHeld, HistoryType, RowMerge
<1>10. ASSUME NEW a \in Attempt, ApplyStart(a) PROVE RowPhase(b)'
  <2>1. CASE b = a
    BY <1>10, <1>h, <2>1 DEF ApplyStart, RowPhase, RowStatus, RowSweep, InFlight, Started, Untouched,
        LocksHeld, HistoryType, RowMerge
  <2>2. CASE b # a
    BY <1>10, <1>h, <2>2, RowParked DEF ApplyStart, RowPhase
  <2> QED BY <2>1, <2>2
<1>11. ASSUME NEW a \in Attempt, RollbackStart(a) PROVE RowPhase(b)'
  <2>1. CASE b = a
    BY <1>11, <1>h, <2>1 DEF RollbackStart, RowPhase, RowStatus, RowSweep, InFlight, Started, Untouched,
        LocksHeld, HistoryType, RowMerge
  <2>2. CASE b # a
    BY <1>11, <1>h, <2>2, RowParked DEF RollbackStart, RowPhase
  <2> QED BY <2>1, <2>2
<1>12. ASSUME NEW a \in Attempt, TakeLocks(a) PROVE RowPhase(b)'
  <2>1. CASE b = a
    BY <1>12, <1>h, <2>1 DEF TakeLocks, RowPhase, LocksHeld
  <2>2. CASE b # a
    BY <1>12, <1>h, <2>2, RowBystander DEF TakeLocks
  <2> QED BY <2>1, <2>2
<1>13. ASSUME NEW a \in Attempt, Busy(a) PROVE RowPhase(b)'
  <2>1. CASE b = a
    BY <1>13, <1>h, <2>1 DEF Busy, RowPhase, RowStatus, RowSweep, InFlight, Started, Untouched,
        LocksHeld, HistoryType, RowMerge
  <2>2. CASE b # a
    BY <1>13, <1>h, <2>2, RowParked DEF Busy, RowPhase
  <2> QED BY <2>1, <2>2
<1>14. ASSUME NEW a \in Attempt, Claim(a) PROVE RowPhase(b)'
  <2>1. CASE b = a
    BY <1>14, <1>h, <2>1 DEF Claim, Claimable, RowPhase, RowStatus, RowSweep, InFlight, Started,
        Untouched, LocksHeld, HistoryType, RowMerge
  <2>2. CASE b # a
    BY <1>14, <1>h, <2>2, RowBystander DEF Claim, Claimable
  <2> QED BY <2>1, <2>2
<1>15. ASSUME NEW a \in Attempt, ClaimLost(a) PROVE RowPhase(b)'
  <2>1. CASE b = a
    BY <1>15, <1>h, <2>1 DEF ClaimLost, RowPhase, RowStatus, RowSweep, InFlight, Started, Untouched,
        LocksHeld, HistoryType, RowMerge
  <2>2. CASE b # a
    BY <1>15, <1>h, <2>2, RowBystander DEF ClaimLost
  <2> QED BY <2>1, <2>2
<1>16. ASSUME NEW a \in Attempt, Request(a) PROVE RowPhase(b)'
  <2>1. CASE b = a
    BY <1>16, <1>h, <2>1 DEF Request, RowPhase, RowStatus, RowSweep, InFlight, Started, Untouched,
        LocksHeld, HistoryType, RowMerge
  <2>2. CASE b # a
    BY <1>16, <1>h, <2>2, RowBystander DEF Request
  <2> QED BY <2>1, <2>2
<1>17. ASSUME NEW a \in Attempt, StatsFail(a) PROVE RowPhase(b)'
  <2>1. CASE b = a
    BY <1>17, <1>h, <2>1 DEF StatsFail, RowPhase, RowStatus, RowSweep, InFlight, Started, Untouched,
        LocksHeld, HistoryType, RowMerge
  <2>2. CASE b # a
    BY <1>17, <1>h, <2>2, RowBystander DEF StatsFail
  <2> QED BY <2>1, <2>2
<1>18. ASSUME NEW a \in Attempt, EngineAccepts(a) PROVE RowPhase(b)'
  <2>1. CASE b = a
    BY <1>18, <1>h, <2>1 DEF EngineAccepts, RowPhase, RowStatus, RowSweep, InFlight, Started, Untouched,
        LocksHeld, HistoryType, RowMerge
  <2>2. CASE b # a
    BY <1>18, <1>h, <2>2, RowBystander DEF EngineAccepts
  <2> QED BY <2>1, <2>2
<1>19. ASSUME NEW a \in Attempt, EngineRefuses(a) PROVE RowPhase(b)'
  <2>1. CASE b = a
    BY <1>19, <1>h, <2>1 DEF EngineRefuses, RowPhase, RowStatus, RowSweep, InFlight, Started, Untouched,
        LocksHeld, HistoryType, RowMerge
  <2>2. CASE b # a
    BY <1>19, <1>h, <2>2, RowBystander DEF EngineRefuses
  <2> QED BY <2>1, <2>2
<1>20. ASSUME NEW a \in Attempt, EngineBegins(a) PROVE RowPhase(b)'
  <2>1. CASE b = a
    BY <1>20, <1>h, <2>1 DEF EngineBegins, RowPhase, RowStatus, RowSweep, InFlight, Started, Untouched,
        LocksHeld, HistoryType, RowMerge
  <2>2. CASE b # a
    BY <1>20, <1>h, <2>2, RowBystander DEF EngineBegins
  <2> QED BY <2>1, <2>2
<1>21. ASSUME NEW a \in Attempt, EngineCommits(a) PROVE RowPhase(b)'
  <2>1. CASE b = a
    BY <1>21, <1>h, <2>1 DEF EngineCommits, RowPhase, RowStatus, RowSweep, InFlight, Started, Untouched,
        LocksHeld, HistoryType, RowMerge
  <2>2. CASE b # a
    BY <1>21, <1>h, <2>2, RowBystander DEF EngineCommits
  <2> QED BY <2>1, <2>2
<1>22. ASSUME NEW a \in Attempt, EngineSucceeds(a) PROVE RowPhase(b)'
  <2>1. CASE b = a
    BY <1>22, <1>h, <2>1 DEF EngineSucceeds, RowPhase, RowStatus, RowSweep, InFlight, Started, Untouched,
        LocksHeld, HistoryType, RowMerge
  <2>2. CASE b # a
    BY <1>22, <1>h, <2>2, RowBystander DEF EngineSucceeds
  <2> QED BY <2>1, <2>2
<1>23. ASSUME NEW a \in Attempt, EngineFails(a) PROVE RowPhase(b)'
  <2>1. CASE b = a
    BY <1>23, <1>h, <2>1 DEF EngineFails, RowPhase, RowStatus, RowSweep, InFlight, Started, Untouched,
        LocksHeld, HistoryType, RowMerge
  <2>2. CASE b # a
    BY <1>23, <1>h, <2>2, RowBystander DEF EngineFails
  <2> QED BY <2>1, <2>2
<1>24. ASSUME NEW a \in Attempt, ApplyRaised(a) PROVE RowPhase(b)'
  <2>1. CASE b = a
    BY <1>24, <1>h, <2>1 DEF ApplyRaised, RowPhase, RowStatus, RowSweep, InFlight, Started, Untouched,
        LocksHeld, HistoryType, RowMerge
  <2>2. CASE b # a
    BY <1>24, <1>h, <2>2, RowBystander DEF ApplyRaised
  <2> QED BY <2>1, <2>2
<1>25. ASSUME NEW a \in Attempt, Verify(a) PROVE RowPhase(b)'
  <2>1. CASE b = a
    BY <1>25, <1>h, <2>1 DEF Verify, Verifies, RowPhase, RowStatus, RowSweep, InFlight, Started,
        Untouched, LocksHeld, HistoryType, RowMerge
  <2>2. CASE b # a
    BY <1>25, <1>h, <2>2, RowBystander DEF Verify, Verifies
  <2> QED BY <2>1, <2>2
<1>26. ASSUME NEW a \in Attempt, VerifyFails(a) PROVE RowPhase(b)'
  <2>1. CASE b = a
    BY <1>26, <1>h, <2>1 DEF VerifyFails, RowPhase, RowStatus, RowSweep, InFlight, Started, Untouched,
        LocksHeld, HistoryType, RowMerge
  <2>2. CASE b # a
    BY <1>26, <1>h, <2>2, RowBystander DEF VerifyFails
  <2> QED BY <2>1, <2>2
<1>27. ASSUME NEW a \in Attempt, FinishApply(a) PROVE RowPhase(b)'
  <2>1. CASE b = a
    BY <1>27, <1>h, <2>1 DEF FinishApply, Outcome, RowPhase, RowStatus, RowSweep, InFlight, Started,
        Untouched, LocksHeld, HistoryType, RowMerge
  <2>2. CASE b # a
    BY <1>27, <1>h, <2>2, RowBystander DEF FinishApply, Outcome
  <2> QED BY <2>1, <2>2
<1>28. ASSUME NEW a \in Attempt, RollbackClaim(a) PROVE RowPhase(b)'
  <2>1. CASE b = a
    BY <1>28, <1>h, <2>1 DEF RollbackClaim, Eligible, RowPhase, RowStatus, RowSweep, InFlight, Started,
        Untouched, LocksHeld, HistoryType, RowMerge
  <2>2. CASE b # a
    BY <1>28, <1>h, <2>2, RowBystander DEF RollbackClaim, Eligible
  <2> QED BY <2>1, <2>2
<1>29. ASSUME NEW a \in Attempt, RollbackRefused(a) PROVE RowPhase(b)'
  <2>1. CASE b = a
    BY <1>29, <1>h, <2>1 DEF RollbackRefused, RowPhase, RowStatus, RowSweep, InFlight, Started,
        Untouched, LocksHeld, HistoryType, RowMerge
  <2>2. CASE b # a
    BY <1>29, <1>h, <2>2, RowBystander DEF RollbackRefused
  <2> QED BY <2>1, <2>2
<1>30. ASSUME NEW a \in Attempt, RollbackUnclaimed(a) PROVE RowPhase(b)'
  <2>1. CASE b = a
    BY <1>30, <1>h, <2>1 DEF RollbackUnclaimed, RowPhase, RowStatus, RowSweep, InFlight, Started,
        Untouched, LocksHeld, HistoryType, RowMerge
  <2>2. CASE b # a
    BY <1>30, <1>h, <2>2, RowBystander DEF RollbackUnclaimed
  <2> QED BY <2>1, <2>2
<1>31. ASSUME NEW a \in Attempt, RollbackBegins(a) PROVE RowPhase(b)'
  <2>1. CASE b = a
    BY <1>31, <1>h, <2>1 DEF RollbackBegins, Restorable, RowPhase, RowStatus, RowSweep, InFlight,
        Started, Untouched, LocksHeld, HistoryType, RowMerge
  <2>2. CASE b # a
    BY <1>31, <1>h, <2>2, RowBystander DEF RollbackBegins, Restorable
  <2> QED BY <2>1, <2>2
<1>32. ASSUME NEW a \in Attempt, RollbackReplays(a) PROVE RowPhase(b)'
  <2>1. CASE b = a
    BY <1>32, <1>h, <2>1 DEF RollbackReplays, RowPhase, RowStatus, RowSweep, InFlight, Started,
        Untouched, LocksHeld, HistoryType, RowMerge
  <2>2. CASE b # a
    BY <1>32, <1>h, <2>2, RowBystander DEF RollbackReplays
  <2> QED BY <2>1, <2>2
<1>33. ASSUME NEW a \in Attempt, RollbackNotRun(a) PROVE RowPhase(b)'
  <2>1. CASE b = a
    BY <1>33, <1>h, <2>1 DEF RollbackNotRun, RowPhase, RowStatus, RowSweep, InFlight, Started, Untouched,
        LocksHeld, HistoryType, RowMerge
  <2>2. CASE b # a
    BY <1>33, <1>h, <2>2, RowBystander DEF RollbackNotRun
  <2> QED BY <2>1, <2>2
<1>34. ASSUME NEW a \in Attempt, RollbackCommits(a) PROVE RowPhase(b)'
  <2>1. CASE b = a
    BY <1>34, <1>h, <2>1 DEF RollbackCommits, RowPhase, RowStatus, RowSweep, InFlight, Started,
        Untouched, LocksHeld, HistoryType, RowMerge
  <2>2. CASE b # a
    BY <1>34, <1>h, <2>2, RowBystander DEF RollbackCommits
  <2> QED BY <2>1, <2>2
<1>35. ASSUME NEW a \in Attempt, RollbackFails(a) PROVE RowPhase(b)'
  <2>1. CASE b = a
    BY <1>35, <1>h, <2>1 DEF RollbackFails, RowPhase, RowStatus, RowSweep, InFlight, Started, Untouched,
        LocksHeld, HistoryType, RowMerge
  <2>2. CASE b # a
    BY <1>35, <1>h, <2>2, RowBystander DEF RollbackFails
  <2> QED BY <2>1, <2>2
<1>36. ASSUME NEW a \in Attempt, RollbackRaised(a) PROVE RowPhase(b)'
  <2>1. CASE b = a
    BY <1>36, <1>h, <2>1 DEF RollbackRaised, RowPhase, RowStatus, RowSweep, InFlight, Started, Untouched,
        LocksHeld, HistoryType, RowMerge
  <2>2. CASE b # a
    BY <1>36, <1>h, <2>2, RowBystander DEF RollbackRaised
  <2> QED BY <2>1, <2>2
<1>37. ASSUME NEW a \in Attempt, RollbackFinish(a) PROVE RowPhase(b)'
  <2>1. CASE b = a
    BY <1>37, <1>h, <2>1 DEF RollbackFinish, RowPhase, RowStatus, RowSweep, InFlight, Started, Untouched,
        LocksHeld, HistoryType, RowMerge
  <2>2. CASE b # a
    BY <1>37, <1>h, <2>2, RowBystander DEF RollbackFinish
  <2> QED BY <2>1, <2>2
<1>38. CASE UNCHANGED vars
  BY <1>38, <1>h DEF RowPhase
<1> QED BY <1>1, <1>2, <1>3, <1>4, <1>5, <1>6, <1>7, <1>8, <1>9, <1>10, <1>11,
           <1>12, <1>13, <1>14, <1>15, <1>16, <1>17, <1>18, <1>19, <1>20, <1>21,
           <1>22, <1>23, <1>24, <1>25, <1>26, <1>27, <1>28, <1>29, <1>30, <1>31,
           <1>32, <1>33, <1>34, <1>35, <1>36, <1>37, <1>38
     DEF Next, SweepStep, ApplyStep, RollbackStep

LEMMA RowStep == RowMerge /\ TypeOK /\ AtMostOnce /\ RowTruthful /\ [Next]_vars => RowTruthful'
<1> SUFFICES ASSUME RowMerge, TypeOK, AtMostOnce, RowTruthful, [Next]_vars PROVE RowTruthful'
  OBVIOUS
<1>1. CASE overtook
  BY <1>1, OvertookStays DEF RowTruthful
<1>2. CASE overtook'
  BY <1>2 DEF RowTruthful
<1>3. CASE ~overtook /\ ~overtook'
  <2>1. RowKnows
    BY <1>3 DEF RowTruthful
  <2>2. RowStatus' /\ RowSweep' /\ \A b \in Attempt : RowPhase(b)'
    BY <1>3, <2>1, RowStatusStep, RowSweepStep, RowPhaseStep
  <2> QED BY <2>2 DEF RowTruthful, RowKnows
<1> QED BY <1>1, <1>2, <1>3

(* The inductive invariant of the row merge, until the sweep writes beside *)
(* an attempt.                                                             *)
THEOREM RowTruthHolds == ASSUME RowMerge PROVE Spec => []RowTruthful
<1> QED BY RowInit, RowStep, TypeCorrect, OnceHolds, PTL DEF Spec

-----------------------------------------------------------------------------
(* In both families, whatever crashes and raises, and with requests beside *)
(* the sweep: a change of the library is hidden from the operator only by  *)
(* a sweep that wrote beside an attempt, or by a restore that failed.      *)
THEOREM ChangesAreShown == Spec => []NoHiddenChange
<1>1. CASE Family = "replacement"
  <2>1. Truthful => NoHiddenChange
    BY DEF Truthful, StatusKnows, NoHiddenChange, Started
  <2> QED BY <1>1, <2>1, TruthHolds, PTL DEF Replacement
<1>2. CASE Family = "row_merge"
  <2>1. RowTruthful => NoHiddenChange
    BY DEF RowTruthful, RowKnows, RowStatus, NoHiddenChange, Started, Untouched
  <2> QED BY <1>2, <2>1, RowTruthHolds, PTL DEF RowMerge
<1> QED BY <1>1, <1>2, FamilyAssumption

(* Completed is never said of a library that is not in the applied state,  *)
(* for a replacement and until the sweep writes beside an attempt.  (The   *)
(* row merge rolls back without a claim: a crash in it leaves Completed.)  *)
THEOREM SuccessIsReal == ASSUME Replacement PROVE Spec => []NoFalseSuccess
<1>1. Truthful => NoFalseSuccess
  BY DEF Truthful, StatusKnows, NoFalseSuccess
<1> QED BY <1>1, TruthHolds, PTL

(* The engine works for one attempt at a time, and on a claimed            *)
(* transaction until the sweep writes beside the attempt.                  *)
THEOREM EngineIsClaimed == ASSUME Replacement PROVE Spec => []EngineCallsClaimed
<1>1. AtMostOnce /\ Truthful => EngineCallsClaimed
  BY DEF AtMostOnce, LocksHeld, Truthful, PhaseKnows, EngineCallsClaimed, InEngine,
         ApplyPhases, RollbackPhases
<1> QED BY <1>1, OnceHolds, TruthHolds, PTL

-----------------------------------------------------------------------------
(* Every step of a replacement is a step of the audited mutation's         *)
(* contract, or none: the status an attempt or the sweep writes says what  *)
(* became of the library.                                                  *)
promised == <<status, library, unrestored, overtook>>
LEMMA ContractStep ==
    ASSUME Replacement, TypeOK, AtMostOnce, Knows, [Next]_vars, ~overtook, ~overtook'
    PROVE  Contract!Bound \/ UNCHANGED promised
<1>h. /\ RecordType /\ EngineType /\ AttemptType /\ SweepType /\ HistoryType /\ LocksHeld
      /\ StatusKnows /\ SweepKnows /\ \A c \in Attempt : PhaseKnows(c)
  BY DEF TypeOK, AtMostOnce, Knows
<1> USE DEF Replacement, RecordType, EngineType, AttemptType, SweepType,
            HistoryType, LocksHeld, Started, StatusKnows, SweepKnows, InFlight,
            PhaseKnows, promised, Contract!Bound, ApplyPhases, RollbackPhases, vars,
            record, engine, locals, sweeper, history, Goes, Leaves, SetRegistry,
            NoteManifest, ReadFails, RestoreFails, NoOperations
<1>1. ASSUME Approve PROVE Contract!Bound \/ UNCHANGED promised
  BY <1>1, <1>h DEF Approve, Contract!Approve, Contract!Move
<1>2. ASSUME Cancel PROVE Contract!Bound \/ UNCHANGED promised
  BY <1>2, <1>h DEF Cancel, Contract!Cancel, Contract!Move
<1>3. ASSUME SweepWrite PROVE Contract!Bound \/ UNCHANGED promised
  BY <1>3, <1>h DEF SweepWrite, Contract!Complete, Contract!Fail, Contract!GiveUp, Contract!Move
<1>4. ASSUME NEW a \in Attempt, Claim(a) PROVE Contract!Bound \/ UNCHANGED promised
  BY <1>4, <1>h DEF Claim, Claimable, Contract!Claim, Contract!Move
<1>5. ASSUME NEW a \in Attempt, Request(a) PROVE Contract!Bound \/ UNCHANGED promised
  BY <1>5, <1>h DEF Request
<1>6. ASSUME NEW a \in Attempt, EngineBegins(a) PROVE Contract!Bound \/ UNCHANGED promised
  BY <1>6, <1>h DEF EngineBegins, Contract!Mutate, Contract!Libraries
<1>7. ASSUME NEW a \in Attempt, EngineCommits(a) PROVE Contract!Bound \/ UNCHANGED promised
  BY <1>7, <1>h DEF EngineCommits, Contract!Mutate, Contract!Libraries
<1>8. ASSUME NEW a \in Attempt, EngineFails(a) PROVE Contract!Bound \/ UNCHANGED promised
  BY <1>8, <1>h DEF EngineFails, Contract!Mutate, Contract!RestoreFails, Contract!Libraries
<1>9. ASSUME NEW a \in Attempt, ApplyRaised(a) PROVE Contract!Bound \/ UNCHANGED promised
  BY <1>9, <1>h DEF ApplyRaised, Contract!Fail, Contract!Move
<1>10. ASSUME NEW a \in Attempt, FinishApply(a) PROVE Contract!Bound \/ UNCHANGED promised
  BY <1>10, <1>h DEF FinishApply, Outcome, Contract!Complete, Contract!GiveUp, Contract!Move
<1>11. ASSUME NEW a \in Attempt, RollbackClaim(a) PROVE Contract!Bound \/ UNCHANGED promised
  BY <1>11, <1>h DEF RollbackClaim, Eligible, Contract!ClaimRollback, Contract!Move
<1>12. ASSUME NEW a \in Attempt, RollbackBegins(a) PROVE Contract!Bound \/ UNCHANGED promised
  BY <1>12, <1>h DEF RollbackBegins, Restorable, Contract!Mutate, Contract!Libraries
<1>13. ASSUME NEW a \in Attempt, RollbackCommits(a) PROVE Contract!Bound \/ UNCHANGED promised
  BY <1>13, <1>h DEF RollbackCommits, Contract!Mutate, Contract!Libraries
<1>14. ASSUME NEW a \in Attempt, RollbackFails(a) PROVE Contract!Bound \/ UNCHANGED promised
  BY <1>14, <1>h DEF RollbackFails
<1>15. ASSUME NEW a \in Attempt, RollbackRaised(a) PROVE Contract!Bound \/ UNCHANGED promised
  BY <1>15, <1>h DEF RollbackRaised, Contract!GiveUp, Contract!Move
<1>16. ASSUME NEW a \in Attempt, RollbackFinish(a) PROVE Contract!Bound \/ UNCHANGED promised
  BY <1>16, <1>h DEF RollbackFinish, Contract!RollBack, Contract!Move
<1>17. CASE SweepRead \/ SweepEnds \/ SweepDecide \/ SweepVerify \/ SweepUnavailable \/ UNCHANGED vars
  BY <1>17 DEF SweepRead, SweepEnds, SweepDecide, SweepVerify, SweepUnavailable
<1>18. CASE Crash
  BY <1>18 DEF Crash
<1>19. ASSUME NEW a \in Attempt,
              ApplyStart(a) \/ RollbackStart(a) \/ TakeLocks(a) \/ Busy(a) \/ ClaimLost(a)
       PROVE  Contract!Bound \/ UNCHANGED promised
  BY <1>19 DEF ApplyStart, RollbackStart, TakeLocks, Busy, ClaimLost
<1>20. ASSUME NEW a \in Attempt,
              StatsFail(a) \/ EngineAccepts(a) \/ EngineRefuses(a) \/ EngineSucceeds(a)
                  \/ Verify(a) \/ VerifyFails(a)
       PROVE  Contract!Bound \/ UNCHANGED promised
  BY <1>20 DEF StatsFail, EngineAccepts, EngineRefuses, EngineSucceeds, Verify, VerifyFails
<1>21. ASSUME NEW a \in Attempt,
              RollbackRefused(a) \/ RollbackUnclaimed(a) \/ RollbackReplays(a) \/ RollbackNotRun(a)
       PROVE  Contract!Bound \/ UNCHANGED promised
  BY <1>21 DEF RollbackRefused, RollbackUnclaimed, RollbackReplays, RollbackNotRun
<1> HIDE DEF Replacement, RecordType, EngineType, AttemptType, SweepType,
            HistoryType, LocksHeld, Started, StatusKnows, SweepKnows, InFlight,
            PhaseKnows, promised, Contract!Bound, ApplyPhases, RollbackPhases, vars,
            record, engine, locals, sweeper, history, Goes, Leaves, SetRegistry,
            NoteManifest, ReadFails, RestoreFails, NoOperations
<1> QED BY <1>1, <1>2, <1>3, <1>4, <1>5, <1>6, <1>7, <1>8, <1>9, <1>10, <1>11,
           <1>12, <1>13, <1>14, <1>15, <1>16, <1>17, <1>18, <1>19, <1>20, <1>21
     DEF Next, SweepStep, ApplyStep, RollbackStep

(* A replacement implements MutationContract, whatever crashes and raises, *)
(* with requests beside the sweep: the library changes only while it is    *)
(* claimed, and Completed, Failed and Rolled Back are never said of        *)
(* another library, up to a failed restore and up to a sweep that writes   *)
(* beside an attempt.                                                      *)
THEOREM ImplementsContract == ASSUME Replacement PROVE Spec => ContractSpec
<1>1. Init => Contract!Init
  BY DEF Init, Contract!Init
<1>2. TypeOK /\ AtMostOnce /\ Truthful /\ [Next]_vars => [Contract!Next]_promised
  <2> SUFFICES ASSUME TypeOK, AtMostOnce, Truthful, [Next]_vars PROVE [Contract!Next]_promised
    OBVIOUS
  <2>1. CASE overtook
    BY <2>1, OvertookStays DEF Contract!Next
  <2>2. CASE ~overtook /\ overtook'
    BY <2>2 DEF Contract!Next
  <2>3. CASE ~overtook /\ ~overtook'
    BY <2>3, ContractStep DEF Truthful, Knows, Contract!Next
  <2> QED BY <2>1, <2>2, <2>3
<1> QED BY <1>1, <1>2, TypeCorrect, OnceHolds, TruthHolds, PTL
     DEF Spec, ContractSpec, Contract!Spec, promised
==============================================================================
