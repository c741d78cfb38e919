------------------------- MODULE JobTransactionProofs -------------------------
(* Proofs about JobTransaction: for any number of children, mutating or    *)
(* not, and any number of crashes.                                         *)
EXTENDS JobTransaction, TLAPS

(* The transaction, the records and the memory of the hook keep their      *)
(* types.                                                                  *)
LEMMA TypeInit == Init => TypeOK
<1> SUFFICES ASSUME Init PROVE TypeOK
  OBVIOUS
<1> USE ChildAssumption, BoundAssumption DEF Init
<1>1. RecordType
  BY DEF RecordType
<1>2. mutated \in BOOLEAN /\ unknown \in BOOLEAN
  OBVIOUS
<1>5. cur \in 0..Children /\ (pc \in {"polls", "looks", "settles"} => cur # 0)
  OBVIOUS
<1>3. ChildType
  BY DEF ChildType
<1>4. scanned \in BOOLEAN /\ due \in BOOLEAN
  OBVIOUS
<1>6. crashes \in 0..MaxCrash
  OBVIOUS
<1> QED BY <1>1, <1>2, <1>3, <1>4, <1>5, <1>6 DEF TypeOK, ThreadType, OtherType

(* The records keep their types. *)
LEMMA RecordStep == TypeOK /\ [Next]_vars => RecordType'
<1> SUFFICES ASSUME TypeOK, [Next]_vars PROVE RecordType'
  OBVIOUS
<1> USE ChildAssumption, BoundAssumption DEF TypeOK, RecordType, ThreadType,
       ChildType, OtherType, thread, progress, children, txRecord, jobRecord,
       reconcile, Final, Ended
<1>1. ASSUME Create PROVE RecordType'
    BY <1>1 DEF WriteTx, Goes, Create
<1>2. ASSUME StartThread PROVE RecordType'
    BY <1>2 DEF StartThread, Goes
<1>3. ASSUME Run PROVE RecordType'
    BY <1>3 DEF WriteTx, Goes, Run
<1>4. ASSUME NextChild PROVE RecordType'
    BY <1>4 DEF NextChild, Sees, Ends
<1>5. ASSUME PollUncancelled PROVE RecordType'
    BY <1>5 DEF PollUncancelled, Goes
<1>6. ASSUME PollCancelled PROVE RecordType'
    BY <1>6 DEF PollCancelled, Sees, Fails, Ends, Note, Asks
<1>7. ASSUME LooksAgain PROVE RecordType'
    BY <1>7 DEF LooksAgain, Goes
<1>8. ASSUME ChildSucceeded PROVE RecordType'
    BY <1>8 DEF ChildSucceeded, Goes
<1>9. ASSUME ChildFailed PROVE RecordType'
    BY <1>9 DEF ChildFailed, Fails, Ends, Note
<1>10. ASSUME SettleEnded PROVE RecordType'
    BY <1>10 DEF SettleEnded, Fails, Ends, Note, Changed
<1>11. ASSUME SettleUnknown PROVE RecordType'
    BY <1>11 DEF SettleUnknown, Fails, Ends, Note
<1>12. ASSUME Settle PROVE RecordType'
    BY <1>12 DEF Settle, Verdict, Honoured, WriteTx, Goes
<1>13. ASSUME Finish PROVE RecordType'
    BY <1>13 DEF Finish, WriteTx, Goes
<1>14. ASSUME JobEnds PROVE RecordType'
    BY <1>14 DEF JobEnds, Honoured, Goes
<1>15. ASSUME Callback PROVE RecordType'
    BY <1>15 DEF Callback, UpdateFromJob, Synced, WriteTx, Goes
<1>16. ASSUME StartFails PROVE RecordType'
    BY <1>16 DEF StartFails, WriteTx, Goes
<1>17. ASSUME Attach PROVE RecordType'
    BY <1>17 DEF Attach
<1>18. ASSUME Kill PROVE RecordType'
    BY <1>18 DEF Kill
<1>19. ASSUME GiveUp PROVE RecordType'
    BY <1>19 DEF GiveUp, Asks, Fails, Ends
<1>20. ASSUME NEW c \in Child, ChildReports(c) PROVE RecordType'
    BY <1>20 DEF ChildReports
<1>21. ASSUME NEW c \in Child, ChildEnds(c) PROVE RecordType'
    BY <1>21 DEF ChildEnds
<1>22. ASSUME NEW c \in Child, ChildCleared(c) PROVE RecordType'
    BY <1>22 DEF ChildCleared
<1>23. ASSUME LoadRecord PROVE RecordType'
    BY <1>23 DEF LoadRecord
<1>24. ASSUME Scanned PROVE RecordType'
    BY <1>24 DEF Scanned
<1>25. ASSUME TickLooks PROVE RecordType'
    BY <1>25 DEF TickLooks, Orphan, Retry
<1>26. ASSUME TickSyncs PROVE RecordType'
    BY <1>26 DEF TickSyncs, UpdateFromJob, Synced, WriteTx
<1>27. ASSUME TickJudges PROVE RecordType'
    BY <1>27 DEF TickJudges, Orphan, WriteTx
<1>28. ASSUME Crash PROVE RecordType'
    BY <1>28 DEF Crash
<1>29. CASE UNCHANGED vars
  BY <1>29 DEF vars
<1> QED BY <1>1, <1>2, <1>3, <1>4, <1>5, <1>6, <1>7, <1>8, <1>9, <1>10, <1>11,
       <1>12, <1>13, <1>14, <1>15, <1>16, <1>17, <1>18, <1>19, <1>20, <1>21,
       <1>22, <1>23, <1>24, <1>25, <1>26, <1>27, <1>28, <1>29 DEF Next,
       Thread, Waits, Tick

(* The memory of the hook and of the wait keeps its types. *)
LEMMA ThreadStep == TypeOK /\ [Next]_vars => ThreadType'
<1> SUFFICES ASSUME TypeOK, [Next]_vars PROVE ThreadType'
  OBVIOUS
<1> USE ChildAssumption, BoundAssumption DEF TypeOK, RecordType, ThreadType,
       ChildType, OtherType, thread, progress, children, txRecord, jobRecord,
       reconcile, Final, Ended
<1>1. ASSUME Create PROVE ThreadType'
    BY <1>1 DEF WriteTx, Goes, Create
<1>2. ASSUME StartThread PROVE ThreadType'
    BY <1>2 DEF StartThread, Goes
<1>3. ASSUME Run PROVE ThreadType'
    BY <1>3 DEF WriteTx, Goes, Run
<1>4. ASSUME NextChild PROVE ThreadType'
  <2>1. mutated' \in BOOLEAN /\ unknown' \in BOOLEAN
    BY <1>4 DEF NextChild
  <2>2. cur' = cur \/ (cur # Children /\ cur' = cur + 1)
    BY <1>4 DEF NextChild
  <2>3. cur' \in 0..Children
    BY <2>2
  <2> QED BY <1>4, <2>1, <2>3 DEF NextChild, Sees, Ends
<1>5. ASSUME PollUncancelled PROVE ThreadType'
    BY <1>5 DEF PollUncancelled, Goes
<1>6. ASSUME PollCancelled PROVE ThreadType'
    BY <1>6 DEF PollCancelled, Sees, Fails, Ends, Note, Asks
<1>7. ASSUME LooksAgain PROVE ThreadType'
    BY <1>7 DEF LooksAgain, Goes
<1>8. ASSUME ChildSucceeded PROVE ThreadType'
    BY <1>8 DEF ChildSucceeded, Goes
<1>9. ASSUME ChildFailed PROVE ThreadType'
    BY <1>9 DEF ChildFailed, Fails, Ends, Note
<1>10. ASSUME SettleEnded PROVE ThreadType'
    BY <1>10 DEF SettleEnded, Fails, Ends, Note, Changed
<1>11. ASSUME SettleUnknown PROVE ThreadType'
    BY <1>11 DEF SettleUnknown, Fails, Ends, Note
<1>12. ASSUME Settle PROVE ThreadType'
    BY <1>12 DEF Settle, Verdict, Honoured, WriteTx, Goes
<1>13. ASSUME Finish PROVE ThreadType'
    BY <1>13 DEF Finish, WriteTx, Goes
<1>14. ASSUME JobEnds PROVE ThreadType'
    BY <1>14 DEF JobEnds, Honoured, Goes
<1>15. ASSUME Callback PROVE ThreadType'
    BY <1>15 DEF Callback, UpdateFromJob, Synced, WriteTx, Goes
<1>16. ASSUME StartFails PROVE ThreadType'
    BY <1>16 DEF StartFails, WriteTx, Goes
<1>17. ASSUME Attach PROVE ThreadType'
    BY <1>17 DEF Attach
<1>18. ASSUME Kill PROVE ThreadType'
    BY <1>18 DEF Kill
<1>19. ASSUME GiveUp PROVE ThreadType'
    BY <1>19 DEF GiveUp, Asks, Fails, Ends
<1>20. ASSUME NEW c \in Child, ChildReports(c) PROVE ThreadType'
    BY <1>20 DEF ChildReports
<1>21. ASSUME NEW c \in Child, ChildEnds(c) PROVE ThreadType'
    BY <1>21 DEF ChildEnds
<1>22. ASSUME NEW c \in Child, ChildCleared(c) PROVE ThreadType'
    BY <1>22 DEF ChildCleared
<1>23. ASSUME LoadRecord PROVE ThreadType'
    BY <1>23 DEF LoadRecord
<1>24. ASSUME Scanned PROVE ThreadType'
    BY <1>24 DEF Scanned
<1>25. ASSUME TickLooks PROVE ThreadType'
    BY <1>25 DEF TickLooks, Orphan, Retry
<1>26. ASSUME TickSyncs PROVE ThreadType'
    BY <1>26 DEF TickSyncs, UpdateFromJob, Synced, WriteTx
<1>27. ASSUME TickJudges PROVE ThreadType'
    BY <1>27 DEF TickJudges, Orphan, WriteTx
<1>28. ASSUME Crash PROVE ThreadType'
  <2>1. mutated' \in BOOLEAN /\ unknown' \in BOOLEAN
    BY <1>28 DEF Crash
  <2>2. cur' = 0 /\ 0 \in 0..Children
    BY <1>28 DEF Crash
  <2> QED BY <1>28, <2>1, <2>2 DEF Crash
<1>29. CASE UNCHANGED vars
  BY <1>29 DEF vars
<1> QED BY <1>1, <1>2, <1>3, <1>4, <1>5, <1>6, <1>7, <1>8, <1>9, <1>10, <1>11,
       <1>12, <1>13, <1>14, <1>15, <1>16, <1>17, <1>18, <1>19, <1>20, <1>21,
       <1>22, <1>23, <1>24, <1>25, <1>26, <1>27, <1>28, <1>29 DEF Next,
       Thread, Waits, Tick

(* The children's records keep their types. *)
LEMMA ChildStep == TypeOK /\ [Next]_vars => ChildType'
<1> SUFFICES ASSUME TypeOK, [Next]_vars PROVE ChildType'
  OBVIOUS
<1> USE ChildAssumption, BoundAssumption DEF TypeOK, RecordType, ThreadType,
       ChildType, OtherType, thread, progress, children, txRecord, jobRecord,
       reconcile, Final, Ended
<1>1. ASSUME Create PROVE ChildType'
    BY <1>1 DEF WriteTx, Goes, Create
<1>2. ASSUME StartThread PROVE ChildType'
    BY <1>2 DEF StartThread, Goes
<1>3. ASSUME Run PROVE ChildType'
    BY <1>3 DEF WriteTx, Goes, Run
<1>4. ASSUME NextChild PROVE ChildType'
    BY <1>4 DEF NextChild, Sees, Ends
<1>5. ASSUME PollUncancelled PROVE ChildType'
    BY <1>5 DEF PollUncancelled, Goes
<1>6. ASSUME PollCancelled PROVE ChildType'
  <2>1. asked' \in [Child -> BOOLEAN]
    BY <1>6 DEF PollCancelled, Asks
  <2>2. stopped' = stopped \/ (pc = "polls" /\ stopped' = stopped \cup {cur})
    BY <1>6 DEF PollCancelled
  <2>3. UNCHANGED <<child, reported>>
    BY <1>6 DEF PollCancelled
  <2>4. stopped' \subseteq Child
    <3>1. pc = "polls" => cur \in Child
      BY DEF Child
    <3> QED BY <2>2, <3>1
  <2> QED BY <2>1, <2>3, <2>4
<1>7. ASSUME LooksAgain PROVE ChildType'
    BY <1>7 DEF LooksAgain, Goes
<1>8. ASSUME ChildSucceeded PROVE ChildType'
    BY <1>8 DEF ChildSucceeded, Goes
<1>9. ASSUME ChildFailed PROVE ChildType'
    BY <1>9 DEF ChildFailed, Fails, Ends, Note
<1>10. ASSUME SettleEnded PROVE ChildType'
    BY <1>10 DEF SettleEnded, Fails, Ends, Note, Changed
<1>11. ASSUME SettleUnknown PROVE ChildType'
    BY <1>11 DEF SettleUnknown, Fails, Ends, Note
<1>12. ASSUME Settle PROVE ChildType'
    BY <1>12 DEF Settle, Verdict, Honoured, WriteTx, Goes
<1>13. ASSUME Finish PROVE ChildType'
    BY <1>13 DEF Finish, WriteTx, Goes
<1>14. ASSUME JobEnds PROVE ChildType'
    BY <1>14 DEF JobEnds, Honoured, Goes
<1>15. ASSUME Callback PROVE ChildType'
    BY <1>15 DEF Callback, UpdateFromJob, Synced, WriteTx, Goes
<1>16. ASSUME StartFails PROVE ChildType'
    BY <1>16 DEF StartFails, WriteTx, Goes
<1>17. ASSUME Attach PROVE ChildType'
    BY <1>17 DEF Attach
<1>18. ASSUME Kill PROVE ChildType'
    BY <1>18 DEF Kill
<1>19. ASSUME GiveUp PROVE ChildType'
    BY <1>19 DEF GiveUp, Asks, Fails, Ends
<1>20. ASSUME NEW c \in Child, ChildReports(c) PROVE ChildType'
    BY <1>20 DEF ChildReports
<1>21. ASSUME NEW c \in Child, ChildEnds(c) PROVE ChildType'
    BY <1>21 DEF ChildEnds
<1>22. ASSUME NEW c \in Child, ChildCleared(c) PROVE ChildType'
    BY <1>22 DEF ChildCleared
<1>23. ASSUME LoadRecord PROVE ChildType'
    BY <1>23 DEF LoadRecord
<1>24. ASSUME Scanned PROVE ChildType'
    BY <1>24 DEF Scanned
<1>25. ASSUME TickLooks PROVE ChildType'
    BY <1>25 DEF TickLooks, Orphan, Retry
<1>26. ASSUME TickSyncs PROVE ChildType'
    BY <1>26 DEF TickSyncs, UpdateFromJob, Synced, WriteTx
<1>27. ASSUME TickJudges PROVE ChildType'
    BY <1>27 DEF TickJudges, Orphan, WriteTx
<1>28. ASSUME Crash PROVE ChildType'
    BY <1>28 DEF Crash
<1>29. CASE UNCHANGED vars
  BY <1>29 DEF vars
<1> QED BY <1>1, <1>2, <1>3, <1>4, <1>5, <1>6, <1>7, <1>8, <1>9, <1>10, <1>11,
       <1>12, <1>13, <1>14, <1>15, <1>16, <1>17, <1>18, <1>19, <1>20, <1>21,
       <1>22, <1>23, <1>24, <1>25, <1>26, <1>27, <1>28, <1>29 DEF Next,
       Thread, Waits, Tick

(* The reconcile keeps its types. *)
LEMMA OtherStep == TypeOK /\ [Next]_vars => OtherType'
<1> SUFFICES ASSUME TypeOK, [Next]_vars PROVE OtherType'
  OBVIOUS
<1> USE ChildAssumption, BoundAssumption DEF TypeOK, RecordType, ThreadType,
       ChildType, OtherType, thread, progress, children, txRecord, jobRecord,
       reconcile, Final, Ended
<1>1. ASSUME Create PROVE OtherType'
    BY <1>1 DEF WriteTx, Goes, Create
<1>2. ASSUME StartThread PROVE OtherType'
    BY <1>2 DEF StartThread, Goes
<1>3. ASSUME Run PROVE OtherType'
    BY <1>3 DEF WriteTx, Goes, Run
<1>4. ASSUME NextChild PROVE OtherType'
    BY <1>4 DEF NextChild, Sees, Ends
<1>5. ASSUME PollUncancelled PROVE OtherType'
    BY <1>5 DEF PollUncancelled, Goes
<1>6. ASSUME PollCancelled PROVE OtherType'
    BY <1>6 DEF PollCancelled, Sees, Fails, Ends, Note, Asks
<1>7. ASSUME LooksAgain PROVE OtherType'
    BY <1>7 DEF LooksAgain, Goes
<1>8. ASSUME ChildSucceeded PROVE OtherType'
    BY <1>8 DEF ChildSucceeded, Goes
<1>9. ASSUME ChildFailed PROVE OtherType'
    BY <1>9 DEF ChildFailed, Fails, Ends, Note
<1>10. ASSUME SettleEnded PROVE OtherType'
    BY <1>10 DEF SettleEnded, Fails, Ends, Note, Changed
<1>11. ASSUME SettleUnknown PROVE OtherType'
    BY <1>11 DEF SettleUnknown, Fails, Ends, Note
<1>12. ASSUME Settle PROVE OtherType'
    BY <1>12 DEF Settle, Verdict, Honoured, WriteTx, Goes
<1>13. ASSUME Finish PROVE OtherType'
    BY <1>13 DEF Finish, WriteTx, Goes
<1>14. ASSUME JobEnds PROVE OtherType'
    BY <1>14 DEF JobEnds, Honoured, Goes
<1>15. ASSUME Callback PROVE OtherType'
    BY <1>15 DEF Callback, UpdateFromJob, Synced, WriteTx, Goes
<1>16. ASSUME StartFails PROVE OtherType'
    BY <1>16 DEF StartFails, WriteTx, Goes
<1>17. ASSUME Attach PROVE OtherType'
    BY <1>17 DEF Attach
<1>18. ASSUME Kill PROVE OtherType'
    BY <1>18 DEF Kill
<1>19. ASSUME GiveUp PROVE OtherType'
    BY <1>19 DEF GiveUp, Asks, Fails, Ends
<1>20. ASSUME NEW c \in Child, ChildReports(c) PROVE OtherType'
    BY <1>20 DEF ChildReports
<1>21. ASSUME NEW c \in Child, ChildEnds(c) PROVE OtherType'
    BY <1>21 DEF ChildEnds
<1>22. ASSUME NEW c \in Child, ChildCleared(c) PROVE OtherType'
    BY <1>22 DEF ChildCleared
<1>23. ASSUME LoadRecord PROVE OtherType'
    BY <1>23 DEF LoadRecord
<1>24. ASSUME Scanned PROVE OtherType'
    BY <1>24 DEF Scanned
<1>25. ASSUME TickLooks PROVE OtherType'
    BY <1>25 DEF TickLooks, Orphan, Retry
<1>26. ASSUME TickSyncs PROVE OtherType'
    BY <1>26 DEF TickSyncs, UpdateFromJob, Synced, WriteTx
<1>27. ASSUME TickJudges PROVE OtherType'
    BY <1>27 DEF TickJudges, Orphan, WriteTx
<1>28. ASSUME Crash PROVE OtherType'
  <2>1. scanned' \in BOOLEAN /\ due' \in BOOLEAN
    BY <1>28 DEF Crash
  <2>2. crashes < MaxCrash /\ crashes' = crashes + 1
    BY <1>28 DEF Crash
  <2>3. crashes' \in 0..MaxCrash
    BY <2>2
  <2> QED BY <1>28, <2>1, <2>3 DEF Crash
<1>29. CASE UNCHANGED vars
  BY <1>29 DEF vars
<1> QED BY <1>1, <1>2, <1>3, <1>4, <1>5, <1>6, <1>7, <1>8, <1>9, <1>10, <1>11,
       <1>12, <1>13, <1>14, <1>15, <1>16, <1>17, <1>18, <1>19, <1>20, <1>21,
       <1>22, <1>23, <1>24, <1>25, <1>26, <1>27, <1>28, <1>29 DEF Next,
       Thread, Waits, Tick

LEMMA TypeStep == TypeOK /\ [Next]_vars => TypeOK'
  BY RecordStep, ThreadStep, ChildStep, OtherStep DEF TypeOK

(* Every variable of the job and its transaction keeps its type.           *)
THEOREM TypeCorrect == Spec => []TypeOK
<1> QED BY TypeInit, TypeStep, PTL DEF Spec

-----------------------------------------------------------------------------
Starting == {"idle", "created", "started"}
Waiting == {"polls", "looks", "settles"}
Working == {"loop", "ended", "settled"} \cup Waiting
Settled == {"done", "saved", "over"}

(* Where the thread is says what the two records can hold: the transaction *)
(* is final only from `done` on, the job's record only from `saved` on,    *)
(* and only a dead thread leaves what the next process may judge.          *)
TxPhase ==
    /\ pc = "idle" <=> tx = "none"
    /\ pc \in {"created", "started"} \cup Working => tx = "Running"
    /\ pc \in Settled => tx \in Final
    /\ pc = "settled" => verdict \in Final
    /\ txOld => pc \in {"dead", "over"}
RecPhase ==
    /\ pc \in Starting => rec = "none" /\ cur = 0 /\ ~unknown
    /\ pc \in Working \cup {"done"} => rec = "running"
    /\ pc = "saved" => rec \in {"success", "failed", "cancelled"}
    /\ pc = "over" => rec # "running"
    /\ rec \in {"success", "failed", "cancelled"} => tx \in Final

(* The phases of the transaction. *)
LEMMA TxPhaseStep == TypeOK /\ TxPhase /\ RecPhase /\ [Next]_vars => TxPhase'
<1> SUFFICES ASSUME TypeOK, TxPhase, RecPhase, [Next]_vars PROVE TxPhase'
  OBVIOUS
<1> USE ChildAssumption, BoundAssumption DEF TypeOK, RecordType, ThreadType,
       ChildType, OtherType, thread, progress, children, txRecord, jobRecord,
       reconcile, Final, Ended, TxPhase, RecPhase, Starting, Waiting, Working,
       Settled
<1>1. ASSUME Create PROVE TxPhase'
    BY <1>1 DEF WriteTx, Goes, Create
<1>2. ASSUME StartThread PROVE TxPhase'
    BY <1>2 DEF StartThread, Goes
<1>3. ASSUME Run PROVE TxPhase'
    BY <1>3 DEF WriteTx, Goes, Run
<1>4. ASSUME NextChild PROVE TxPhase'
    BY <1>4 DEF NextChild, Sees, Ends
<1>5. ASSUME PollUncancelled PROVE TxPhase'
    BY <1>5 DEF PollUncancelled, Goes
<1>6. ASSUME PollCancelled PROVE TxPhase'
    BY <1>6 DEF PollCancelled, Sees, Fails, Ends, Note, Asks
<1>7. ASSUME LooksAgain PROVE TxPhase'
    BY <1>7 DEF LooksAgain, Goes
<1>8. ASSUME ChildSucceeded PROVE TxPhase'
    BY <1>8 DEF ChildSucceeded, Goes
<1>9. ASSUME ChildFailed PROVE TxPhase'
    BY <1>9 DEF ChildFailed, Fails, Ends, Note
<1>10. ASSUME SettleEnded PROVE TxPhase'
    BY <1>10 DEF SettleEnded, Fails, Ends, Note, Changed
<1>11. ASSUME SettleUnknown PROVE TxPhase'
    BY <1>11 DEF SettleUnknown, Fails, Ends, Note
<1>12. ASSUME Settle PROVE TxPhase'
    BY <1>12 DEF Settle, Verdict, Honoured, WriteTx, Goes
<1>13. ASSUME Finish PROVE TxPhase'
    BY <1>13 DEF Finish, WriteTx, Goes
<1>14. ASSUME JobEnds PROVE TxPhase'
    BY <1>14 DEF JobEnds, Honoured, Goes
<1>15. ASSUME Callback PROVE TxPhase'
    BY <1>15 DEF Callback, UpdateFromJob, Synced, WriteTx, Goes
<1>16. ASSUME StartFails PROVE TxPhase'
    BY <1>16 DEF StartFails, WriteTx, Goes
<1>17. ASSUME Attach PROVE TxPhase'
    BY <1>17 DEF Attach
<1>18. ASSUME Kill PROVE TxPhase'
    BY <1>18 DEF Kill
<1>19. ASSUME GiveUp PROVE TxPhase'
    BY <1>19 DEF GiveUp, Asks, Fails, Ends
<1>20. ASSUME NEW c \in Child, ChildReports(c) PROVE TxPhase'
    BY <1>20 DEF ChildReports
<1>21. ASSUME NEW c \in Child, ChildEnds(c) PROVE TxPhase'
    BY <1>21 DEF ChildEnds
<1>22. ASSUME NEW c \in Child, ChildCleared(c) PROVE TxPhase'
    BY <1>22 DEF ChildCleared
<1>23. ASSUME LoadRecord PROVE TxPhase'
    BY <1>23 DEF LoadRecord
<1>24. ASSUME Scanned PROVE TxPhase'
    BY <1>24 DEF Scanned
<1>25. ASSUME TickLooks PROVE TxPhase'
    BY <1>25 DEF TickLooks, Orphan, Retry
<1>26. ASSUME TickSyncs PROVE TxPhase'
    BY <1>26 DEF TickSyncs, UpdateFromJob, Synced, WriteTx
<1>27. ASSUME TickJudges PROVE TxPhase'
    BY <1>27 DEF TickJudges, Orphan, WriteTx
<1>28. ASSUME Crash PROVE TxPhase'
    BY <1>28 DEF Crash
<1>29. CASE UNCHANGED vars
  BY <1>29 DEF vars
<1> QED BY <1>1, <1>2, <1>3, <1>4, <1>5, <1>6, <1>7, <1>8, <1>9, <1>10, <1>11,
       <1>12, <1>13, <1>14, <1>15, <1>16, <1>17, <1>18, <1>19, <1>20, <1>21,
       <1>22, <1>23, <1>24, <1>25, <1>26, <1>27, <1>28, <1>29 DEF Next,
       Thread, Waits, Tick

(* The phases of the record. *)
LEMMA RecPhaseStep == TypeOK /\ TxPhase /\ RecPhase /\ [Next]_vars => RecPhase'
<1> SUFFICES ASSUME TypeOK, TxPhase, RecPhase, [Next]_vars PROVE RecPhase'
  OBVIOUS
<1> USE ChildAssumption, BoundAssumption DEF TypeOK, RecordType, ThreadType,
       ChildType, OtherType, thread, progress, children, txRecord, jobRecord,
       reconcile, Final, Ended, TxPhase, RecPhase, Starting, Waiting, Working,
       Settled
<1>1. ASSUME Create PROVE RecPhase'
    BY <1>1 DEF WriteTx, Goes, Create
<1>2. ASSUME StartThread PROVE RecPhase'
    BY <1>2 DEF StartThread, Goes
<1>3. ASSUME Run PROVE RecPhase'
    BY <1>3 DEF WriteTx, Goes, Run
<1>4. ASSUME NextChild PROVE RecPhase'
    BY <1>4 DEF NextChild, Sees, Ends
<1>5. ASSUME PollUncancelled PROVE RecPhase'
    BY <1>5 DEF PollUncancelled, Goes
<1>6. ASSUME PollCancelled PROVE RecPhase'
    BY <1>6 DEF PollCancelled, Sees, Fails, Ends, Note, Asks
<1>7. ASSUME LooksAgain PROVE RecPhase'
    BY <1>7 DEF LooksAgain, Goes
<1>8. ASSUME ChildSucceeded PROVE RecPhase'
    BY <1>8 DEF ChildSucceeded, Goes
<1>9. ASSUME ChildFailed PROVE RecPhase'
    BY <1>9 DEF ChildFailed, Fails, Ends, Note
<1>10. ASSUME SettleEnded PROVE RecPhase'
    BY <1>10 DEF SettleEnded, Fails, Ends, Note, Changed
<1>11. ASSUME SettleUnknown PROVE RecPhase'
    BY <1>11 DEF SettleUnknown, Fails, Ends, Note
<1>12. ASSUME Settle PROVE RecPhase'
    BY <1>12 DEF Settle, Verdict, Honoured, WriteTx, Goes
<1>13. ASSUME Finish PROVE RecPhase'
    BY <1>13 DEF Finish, WriteTx, Goes
<1>14. ASSUME JobEnds PROVE RecPhase'
    BY <1>14 DEF JobEnds, Honoured, Goes
<1>15. ASSUME Callback PROVE RecPhase'
    BY <1>15 DEF Callback, UpdateFromJob, Synced, WriteTx, Goes
<1>16. ASSUME StartFails PROVE RecPhase'
    BY <1>16 DEF StartFails, WriteTx, Goes
<1>17. ASSUME Attach PROVE RecPhase'
    BY <1>17 DEF Attach
<1>18. ASSUME Kill PROVE RecPhase'
    BY <1>18 DEF Kill
<1>19. ASSUME GiveUp PROVE RecPhase'
    BY <1>19 DEF GiveUp, Asks, Fails, Ends
<1>20. ASSUME NEW c \in Child, ChildReports(c) PROVE RecPhase'
    BY <1>20 DEF ChildReports
<1>21. ASSUME NEW c \in Child, ChildEnds(c) PROVE RecPhase'
    BY <1>21 DEF ChildEnds
<1>22. ASSUME NEW c \in Child, ChildCleared(c) PROVE RecPhase'
    BY <1>22 DEF ChildCleared
<1>23. ASSUME LoadRecord PROVE RecPhase'
    BY <1>23 DEF LoadRecord
<1>24. ASSUME Scanned PROVE RecPhase'
    BY <1>24 DEF Scanned
<1>25. ASSUME TickLooks PROVE RecPhase'
    BY <1>25 DEF TickLooks, Orphan, Retry
<1>26. ASSUME TickSyncs PROVE RecPhase'
    BY <1>26 DEF TickSyncs, UpdateFromJob, Synced, WriteTx
<1>27. ASSUME TickJudges PROVE RecPhase'
    BY <1>27 DEF TickJudges, Orphan, WriteTx
<1>28. ASSUME Crash PROVE RecPhase'
    BY <1>28 DEF Crash
<1>29. CASE UNCHANGED vars
  BY <1>29 DEF vars
<1> QED BY <1>1, <1>2, <1>3, <1>4, <1>5, <1>6, <1>7, <1>8, <1>9, <1>10, <1>11,
       <1>12, <1>13, <1>14, <1>15, <1>16, <1>17, <1>18, <1>19, <1>20, <1>21,
       <1>22, <1>23, <1>24, <1>25, <1>26, <1>27, <1>28, <1>29 DEF Next,
       Thread, Waits, Tick

-----------------------------------------------------------------------------
(* What the wrapper decided stays decided until the record is saved, as no *)
(* cancel is honoured later, and it tells what the children left behind.   *)
Decided ==
    /\ pc \in {"settled", "done"} => verdict = Verdict
    /\ pc = "done" => tx = verdict
    /\ pc \in Settled => (unknown => tx = "RecoveryRequired") /\ (tx = "Cancelled" => ~mutated)

(* Nothing the verdict depends on changes after it. *)
LEMMA DecidedStep == TypeOK /\ TxPhase /\ RecPhase /\ Decided /\ [Next]_vars => Decided'
<1> SUFFICES ASSUME TypeOK, TxPhase, RecPhase, Decided, [Next]_vars PROVE Decided'
  OBVIOUS
<1> USE ChildAssumption, BoundAssumption DEF TypeOK, RecordType, ThreadType,
       ChildType, OtherType, thread, progress, children, txRecord, jobRecord,
       reconcile, Final, Ended, TxPhase, RecPhase, Starting, Waiting, Working,
       Settled, Decided, Verdict, Honoured
<1>1. ASSUME Create PROVE Decided'
    BY <1>1 DEF WriteTx, Goes, Create
<1>2. ASSUME StartThread PROVE Decided'
    BY <1>2 DEF StartThread, Goes
<1>3. ASSUME Run PROVE Decided'
    BY <1>3 DEF WriteTx, Goes, Run
<1>4. ASSUME NextChild PROVE Decided'
    BY <1>4 DEF NextChild, Sees, Ends
<1>5. ASSUME PollUncancelled PROVE Decided'
    BY <1>5 DEF PollUncancelled, Goes
<1>6. ASSUME PollCancelled PROVE Decided'
    BY <1>6 DEF PollCancelled, Sees, Fails, Ends, Note, Asks
<1>7. ASSUME LooksAgain PROVE Decided'
    BY <1>7 DEF LooksAgain, Goes
<1>8. ASSUME ChildSucceeded PROVE Decided'
    BY <1>8 DEF ChildSucceeded, Goes
<1>9. ASSUME ChildFailed PROVE Decided'
    BY <1>9 DEF ChildFailed, Fails, Ends, Note
<1>10. ASSUME SettleEnded PROVE Decided'
    BY <1>10 DEF SettleEnded, Fails, Ends, Note, Changed
<1>11. ASSUME SettleUnknown PROVE Decided'
    BY <1>11 DEF SettleUnknown, Fails, Ends, Note
<1>12. ASSUME Settle PROVE Decided'
    BY <1>12 DEF Settle, Verdict, Honoured, WriteTx, Goes
<1>13. ASSUME Finish PROVE Decided'
    BY <1>13 DEF Finish, WriteTx, Goes
<1>14. ASSUME JobEnds PROVE Decided'
    BY <1>14 DEF JobEnds, Honoured, Goes
<1>15. ASSUME Callback PROVE Decided'
    BY <1>15 DEF Callback, UpdateFromJob, Synced, WriteTx, Goes
<1>16. ASSUME StartFails PROVE Decided'
    BY <1>16 DEF StartFails, WriteTx, Goes
<1>17. ASSUME Attach PROVE Decided'
    BY <1>17 DEF Attach
<1>18. ASSUME Kill PROVE Decided'
    BY <1>18 DEF Kill
<1>19. ASSUME GiveUp PROVE Decided'
    BY <1>19 DEF GiveUp, Asks, Fails, Ends
<1>20. ASSUME NEW c \in Child, ChildReports(c) PROVE Decided'
    BY <1>20 DEF ChildReports
<1>21. ASSUME NEW c \in Child, ChildEnds(c) PROVE Decided'
    BY <1>21 DEF ChildEnds
<1>22. ASSUME NEW c \in Child, ChildCleared(c) PROVE Decided'
    BY <1>22 DEF ChildCleared
<1>23. ASSUME LoadRecord PROVE Decided'
    BY <1>23 DEF LoadRecord
<1>24. ASSUME Scanned PROVE Decided'
    BY <1>24 DEF Scanned
<1>25. ASSUME TickLooks PROVE Decided'
    BY <1>25 DEF TickLooks, Orphan, Retry
<1>26. ASSUME TickSyncs PROVE Decided'
    BY <1>26 DEF TickSyncs, UpdateFromJob, Synced, WriteTx
<1>27. ASSUME TickJudges PROVE Decided'
    BY <1>27 DEF TickJudges, Orphan, WriteTx
<1>28. ASSUME Crash PROVE Decided'
    BY <1>28 DEF Crash
<1>29. CASE UNCHANGED vars
  BY <1>29 DEF vars
<1> QED BY <1>1, <1>2, <1>3, <1>4, <1>5, <1>6, <1>7, <1>8, <1>9, <1>10, <1>11,
       <1>12, <1>13, <1>14, <1>15, <1>16, <1>17, <1>18, <1>19, <1>20, <1>21,
       <1>22, <1>23, <1>24, <1>25, <1>26, <1>27, <1>28, <1>29 DEF Next,
       Thread, Waits, Tick

(* The two records say the same of a run.                                  *)
LEMMA AgreeStep ==
    TypeOK /\ TxPhase /\ RecPhase /\ Decided /\ RecordsAgree /\ [Next]_vars => RecordsAgree'
<1> SUFFICES ASSUME TypeOK, TxPhase, RecPhase, Decided, RecordsAgree, [Next]_vars PROVE RecordsAgree'
  OBVIOUS
<1> USE ChildAssumption, BoundAssumption DEF TypeOK, RecordType, ThreadType,
       ChildType, OtherType, thread, progress, children, txRecord, jobRecord,
       reconcile, Final, Ended, TxPhase, RecPhase, Starting, Waiting, Working,
       Settled, Decided, Verdict, Honoured, RecordsAgree
<1>1. ASSUME Create PROVE RecordsAgree'
    BY <1>1 DEF WriteTx, Goes, Create
<1>2. ASSUME StartThread PROVE RecordsAgree'
    BY <1>2 DEF StartThread, Goes
<1>3. ASSUME Run PROVE RecordsAgree'
    BY <1>3 DEF WriteTx, Goes, Run
<1>4. ASSUME NextChild PROVE RecordsAgree'
    BY <1>4 DEF NextChild, Sees, Ends
<1>5. ASSUME PollUncancelled PROVE RecordsAgree'
    BY <1>5 DEF PollUncancelled, Goes
<1>6. ASSUME PollCancelled PROVE RecordsAgree'
    BY <1>6 DEF PollCancelled, Sees, Fails, Ends, Note, Asks
<1>7. ASSUME LooksAgain PROVE RecordsAgree'
    BY <1>7 DEF LooksAgain, Goes
<1>8. ASSUME ChildSucceeded PROVE RecordsAgree'
    BY <1>8 DEF ChildSucceeded, Goes
<1>9. ASSUME ChildFailed PROVE RecordsAgree'
    BY <1>9 DEF ChildFailed, Fails, Ends, Note
<1>10. ASSUME SettleEnded PROVE RecordsAgree'
    BY <1>10 DEF SettleEnded, Fails, Ends, Note, Changed
<1>11. ASSUME SettleUnknown PROVE RecordsAgree'
    BY <1>11 DEF SettleUnknown, Fails, Ends, Note
<1>12. ASSUME Settle PROVE RecordsAgree'
    BY <1>12 DEF Settle, Verdict, Honoured, WriteTx, Goes
<1>13. ASSUME Finish PROVE RecordsAgree'
    BY <1>13 DEF Finish, WriteTx, Goes
<1>14. ASSUME JobEnds PROVE RecordsAgree'
    BY <1>14 DEF JobEnds, Honoured, Goes
<1>15. ASSUME Callback PROVE RecordsAgree'
    BY <1>15 DEF Callback, UpdateFromJob, Synced, WriteTx, Goes
<1>16. ASSUME StartFails PROVE RecordsAgree'
    BY <1>16 DEF StartFails, WriteTx, Goes
<1>17. ASSUME Attach PROVE RecordsAgree'
    BY <1>17 DEF Attach
<1>18. ASSUME Kill PROVE RecordsAgree'
    BY <1>18 DEF Kill
<1>19. ASSUME GiveUp PROVE RecordsAgree'
    BY <1>19 DEF GiveUp, Asks, Fails, Ends
<1>20. ASSUME NEW c \in Child, ChildReports(c) PROVE RecordsAgree'
    BY <1>20 DEF ChildReports
<1>21. ASSUME NEW c \in Child, ChildEnds(c) PROVE RecordsAgree'
    BY <1>21 DEF ChildEnds
<1>22. ASSUME NEW c \in Child, ChildCleared(c) PROVE RecordsAgree'
    BY <1>22 DEF ChildCleared
<1>23. ASSUME LoadRecord PROVE RecordsAgree'
    BY <1>23 DEF LoadRecord
<1>24. ASSUME Scanned PROVE RecordsAgree'
    BY <1>24 DEF Scanned
<1>25. ASSUME TickLooks PROVE RecordsAgree'
    BY <1>25 DEF TickLooks, Orphan, Retry
<1>26. ASSUME TickSyncs PROVE RecordsAgree'
    BY <1>26 DEF TickSyncs, UpdateFromJob, Synced, WriteTx
<1>27. ASSUME TickJudges PROVE RecordsAgree'
    BY <1>27 DEF TickJudges, Orphan, WriteTx
<1>28. ASSUME Crash PROVE RecordsAgree'
    BY <1>28 DEF Crash
<1>29. CASE UNCHANGED vars
  BY <1>29 DEF vars
<1> QED BY <1>1, <1>2, <1>3, <1>4, <1>5, <1>6, <1>7, <1>8, <1>9, <1>10, <1>11,
       <1>12, <1>13, <1>14, <1>15, <1>16, <1>17, <1>18, <1>19, <1>20, <1>21,
       <1>22, <1>23, <1>24, <1>25, <1>26, <1>27, <1>28, <1>29 DEF Next,
       Thread, Waits, Tick

-----------------------------------------------------------------------------
(* A child at work is the one waited for, or its outcome is unknown.       *)
ChildrenKnown ==
    /\ \A c \in Child : child[c] = "running" => c <= cur
    /\ \A c \in Child \ ReadOnly :
         child[c] = "running" /\ (c # cur \/ pc \notin Waiting) => unknown
    /\ pc = "dead" => \A c \in Child : child[c] # "running"
(* A child whose wait a cancel ended is being settled, counted, or has     *)
(* stopped without a change.                                               *)
StoppedKnown ==
    \A c \in stopped :
        /\ pc # "dead"
        /\ c <= cur /\ c \in Child
        /\ \/ c = cur /\ pc = "settles" /\ ending = "cancelled"
           \/ mutated
           \/ ~reported[c] /\ child[c] \notin {"running", "success"}

(* A wait ends with the child's outcome, or counts it as unknown. *)
LEMMA ChildrenStep == TypeOK /\ RecPhase /\ ChildrenKnown /\ [Next]_vars => ChildrenKnown'
<1> SUFFICES ASSUME TypeOK, RecPhase, ChildrenKnown, [Next]_vars PROVE ChildrenKnown'
  OBVIOUS
<1> USE ChildAssumption, BoundAssumption DEF TypeOK, RecordType, ThreadType,
       ChildType, OtherType, thread, progress, children, txRecord, jobRecord,
       reconcile, Final, Ended, TxPhase, RecPhase, Starting, Waiting, Working,
       Settled, ChildrenKnown, Child
<1>1. ASSUME Create PROVE ChildrenKnown'
    BY <1>1 DEF WriteTx, Goes, Create
<1>2. ASSUME StartThread PROVE ChildrenKnown'
    BY <1>2 DEF StartThread, Goes
<1>3. ASSUME Run PROVE ChildrenKnown'
    BY <1>3 DEF WriteTx, Goes, Run
<1>4. ASSUME NextChild PROVE ChildrenKnown'
  <2>1. CASE cancel # "no"
    BY <1>4, <2>1 DEF NextChild, Sees, Ends
  <2>2. CASE cancel = "no" /\ cur = Children
    BY <1>4, <2>2 DEF NextChild, Sees, Ends
  <2>3. CASE cancel = "no" /\ cur # Children
    <3>1. pc = "loop" /\ pc' = "polls" /\ cur' = cur + 1
      BY <1>4, <2>3 DEF NextChild
    <3>2. child' = [child EXCEPT ![cur + 1] = "running"]
      BY <1>4, <2>3 DEF NextChild
    <3>3. UNCHANGED <<progress, reported, stopped>>
      BY <1>4 DEF NextChild
    <3> QED BY <3>1, <3>2, <3>3
  <2> QED BY <2>1, <2>2, <2>3
<1>5. ASSUME PollUncancelled PROVE ChildrenKnown'
    BY <1>5 DEF PollUncancelled, Goes
<1>6. ASSUME PollCancelled PROVE ChildrenKnown'
  <2>1. CASE child[cur] = "gone"
    BY <1>6, <2>1 DEF PollCancelled, Sees, Fails, Ends, Note, Asks
  <2>2. CASE child[cur] # "gone" /\ cur \in ReadOnly
    <3>1. pc = "polls" /\ pc' \in {"loop", "ended"} /\ UNCHANGED <<cur, child, reported, progress, stopped>>
      BY <1>6, <2>2 DEF PollCancelled, Fails, Ends
    <3> QED BY <2>2, <3>1
  <2>3. CASE child[cur] # "gone" /\ cur \notin ReadOnly
    <3>1. pc' = "settles" /\ ending' = "cancelled" /\ stopped' = stopped \cup {cur}
      BY <1>6, <2>3 DEF PollCancelled
    <3>2. pc = "polls" /\ UNCHANGED <<cur, child, reported, progress>>
      BY <1>6, <2>3 DEF PollCancelled
    <3> QED BY <3>1, <3>2
  <2> QED BY <2>1, <2>2, <2>3
<1>7. ASSUME LooksAgain PROVE ChildrenKnown'
    BY <1>7 DEF LooksAgain, Goes
<1>8. ASSUME ChildSucceeded PROVE ChildrenKnown'
    BY <1>8 DEF ChildSucceeded, Goes
<1>9. ASSUME ChildFailed PROVE ChildrenKnown'
    BY <1>9 DEF ChildFailed, Fails, Ends, Note
<1>10. ASSUME SettleEnded PROVE ChildrenKnown'
    BY <1>10 DEF SettleEnded, Fails, Ends, Note, Changed
<1>11. ASSUME SettleUnknown PROVE ChildrenKnown'
    BY <1>11 DEF SettleUnknown, Fails, Ends, Note
<1>12. ASSUME Settle PROVE ChildrenKnown'
    BY <1>12 DEF Settle, Verdict, Honoured, WriteTx, Goes
<1>13. ASSUME Finish PROVE ChildrenKnown'
    BY <1>13 DEF Finish, WriteTx, Goes
<1>14. ASSUME JobEnds PROVE ChildrenKnown'
    BY <1>14 DEF JobEnds, Honoured, Goes
<1>15. ASSUME Callback PROVE ChildrenKnown'
    BY <1>15 DEF Callback, UpdateFromJob, Synced, WriteTx, Goes
<1>16. ASSUME StartFails PROVE ChildrenKnown'
    BY <1>16 DEF StartFails, WriteTx, Goes
<1>17. ASSUME Attach PROVE ChildrenKnown'
    BY <1>17 DEF Attach
<1>18. ASSUME Kill PROVE ChildrenKnown'
    BY <1>18 DEF Kill
<1>19. ASSUME GiveUp PROVE ChildrenKnown'
    BY <1>19 DEF GiveUp, Asks, Fails, Ends
<1>20. ASSUME NEW c \in Child, ChildReports(c) PROVE ChildrenKnown'
    BY <1>20 DEF ChildReports
<1>21. ASSUME NEW c \in Child, ChildEnds(c) PROVE ChildrenKnown'
    BY <1>21 DEF ChildEnds
<1>22. ASSUME NEW c \in Child, ChildCleared(c) PROVE ChildrenKnown'
    BY <1>22 DEF ChildCleared
<1>23. ASSUME LoadRecord PROVE ChildrenKnown'
    BY <1>23 DEF LoadRecord
<1>24. ASSUME Scanned PROVE ChildrenKnown'
    BY <1>24 DEF Scanned
<1>25. ASSUME TickLooks PROVE ChildrenKnown'
    BY <1>25 DEF TickLooks, Orphan, Retry
<1>26. ASSUME TickSyncs PROVE ChildrenKnown'
    BY <1>26 DEF TickSyncs, UpdateFromJob, Synced, WriteTx
<1>27. ASSUME TickJudges PROVE ChildrenKnown'
    BY <1>27 DEF TickJudges, Orphan, WriteTx
<1>28. ASSUME Crash PROVE ChildrenKnown'
    BY <1>28 DEF Crash
<1>29. CASE UNCHANGED vars
  BY <1>29 DEF vars
<1> QED BY <1>1, <1>2, <1>3, <1>4, <1>5, <1>6, <1>7, <1>8, <1>9, <1>10, <1>11,
       <1>12, <1>13, <1>14, <1>15, <1>16, <1>17, <1>18, <1>19, <1>20, <1>21,
       <1>22, <1>23, <1>24, <1>25, <1>26, <1>27, <1>28, <1>29 DEF Next,
       Thread, Waits, Tick

(* A child that has stopped reports nothing any more. *)
LEMMA StoppedStep == TypeOK /\ RecPhase /\ StoppedKnown /\ [Next]_vars => StoppedKnown'
<1> SUFFICES ASSUME TypeOK, RecPhase, StoppedKnown, [Next]_vars PROVE StoppedKnown'
  OBVIOUS
<1> USE ChildAssumption, BoundAssumption DEF TypeOK, RecordType, ThreadType,
       ChildType, OtherType, thread, progress, children, txRecord, jobRecord,
       reconcile, Final, Ended, TxPhase, RecPhase, Starting, Waiting, Working,
       Settled, StoppedKnown, Child
<1>1. ASSUME Create PROVE StoppedKnown'
    BY <1>1 DEF WriteTx, Goes, Create
<1>2. ASSUME StartThread PROVE StoppedKnown'
    BY <1>2 DEF StartThread, Goes
<1>3. ASSUME Run PROVE StoppedKnown'
    BY <1>3 DEF WriteTx, Goes, Run
<1>4. ASSUME NextChild PROVE StoppedKnown'
  <2>1. CASE cancel # "no"
    BY <1>4, <2>1 DEF NextChild, Sees, Ends
  <2>2. CASE cancel = "no" /\ cur = Children
    BY <1>4, <2>2 DEF NextChild, Sees, Ends
  <2>3. CASE cancel = "no" /\ cur # Children
    <3>1. pc = "loop" /\ pc' = "polls" /\ cur' = cur + 1
      BY <1>4, <2>3 DEF NextChild
    <3>2. child' = [child EXCEPT ![cur + 1] = "running"]
      BY <1>4, <2>3 DEF NextChild
    <3>3. UNCHANGED <<progress, reported, stopped>>
      BY <1>4 DEF NextChild
    <3> QED BY <3>1, <3>2, <3>3
  <2> QED BY <2>1, <2>2, <2>3
<1>5. ASSUME PollUncancelled PROVE StoppedKnown'
    BY <1>5 DEF PollUncancelled, Goes
<1>6. ASSUME PollCancelled PROVE StoppedKnown'
  <2>1. CASE child[cur] = "gone"
    BY <1>6, <2>1 DEF PollCancelled, Sees, Fails, Ends, Note, Asks
  <2>2. CASE child[cur] # "gone" /\ cur \in ReadOnly
    <3>1. pc = "polls" /\ pc' \in {"loop", "ended"} /\ UNCHANGED <<cur, child, reported, progress, stopped>>
      BY <1>6, <2>2 DEF PollCancelled, Fails, Ends
    <3> QED BY <2>2, <3>1
  <2>3. CASE child[cur] # "gone" /\ cur \notin ReadOnly
    <3>1. pc' = "settles" /\ ending' = "cancelled" /\ stopped' = stopped \cup {cur}
      BY <1>6, <2>3 DEF PollCancelled
    <3>2. pc = "polls" /\ UNCHANGED <<cur, child, reported, progress>>
      BY <1>6, <2>3 DEF PollCancelled
    <3> QED BY <3>1, <3>2
  <2> QED BY <2>1, <2>2, <2>3
<1>7. ASSUME LooksAgain PROVE StoppedKnown'
    BY <1>7 DEF LooksAgain, Goes
<1>8. ASSUME ChildSucceeded PROVE StoppedKnown'
    BY <1>8 DEF ChildSucceeded, Goes
<1>9. ASSUME ChildFailed PROVE StoppedKnown'
    BY <1>9 DEF ChildFailed, Fails, Ends, Note
<1>10. ASSUME SettleEnded PROVE StoppedKnown'
  <2>1. CASE ending = "error" /\ child[cur] = "success"
    BY <1>10, <2>1 DEF SettleEnded, Fails, Ends, Note, Changed
  <2>2. CASE ~(ending = "error" /\ child[cur] = "success")
    BY <1>10, <2>2 DEF SettleEnded, Fails, Ends, Note, Changed
  <2> QED BY <2>1, <2>2
<1>11. ASSUME SettleUnknown PROVE StoppedKnown'
    BY <1>11 DEF SettleUnknown, Fails, Ends, Note
<1>12. ASSUME Settle PROVE StoppedKnown'
    BY <1>12 DEF Settle, Verdict, Honoured, WriteTx, Goes
<1>13. ASSUME Finish PROVE StoppedKnown'
    BY <1>13 DEF Finish, WriteTx, Goes
<1>14. ASSUME JobEnds PROVE StoppedKnown'
    BY <1>14 DEF JobEnds, Honoured, Goes
<1>15. ASSUME Callback PROVE StoppedKnown'
    BY <1>15 DEF Callback, UpdateFromJob, Synced, WriteTx, Goes
<1>16. ASSUME StartFails PROVE StoppedKnown'
    BY <1>16 DEF StartFails, WriteTx, Goes
<1>17. ASSUME Attach PROVE StoppedKnown'
    BY <1>17 DEF Attach
<1>18. ASSUME Kill PROVE StoppedKnown'
    BY <1>18 DEF Kill
<1>19. ASSUME GiveUp PROVE StoppedKnown'
    BY <1>19 DEF GiveUp, Asks, Fails, Ends
<1>20. ASSUME NEW c \in Child, ChildReports(c) PROVE StoppedKnown'
    BY <1>20 DEF ChildReports
<1>21. ASSUME NEW c \in Child, ChildEnds(c) PROVE StoppedKnown'
    BY <1>21 DEF ChildEnds
<1>22. ASSUME NEW c \in Child, ChildCleared(c) PROVE StoppedKnown'
    BY <1>22 DEF ChildCleared
<1>23. ASSUME LoadRecord PROVE StoppedKnown'
    BY <1>23 DEF LoadRecord
<1>24. ASSUME Scanned PROVE StoppedKnown'
    BY <1>24 DEF Scanned
<1>25. ASSUME TickLooks PROVE StoppedKnown'
    BY <1>25 DEF TickLooks, Orphan, Retry
<1>26. ASSUME TickSyncs PROVE StoppedKnown'
    BY <1>26 DEF TickSyncs, UpdateFromJob, Synced, WriteTx
<1>27. ASSUME TickJudges PROVE StoppedKnown'
    BY <1>27 DEF TickJudges, Orphan, WriteTx
<1>28. ASSUME Crash PROVE StoppedKnown'
    BY <1>28 DEF Crash
<1>29. CASE UNCHANGED vars
  BY <1>29 DEF vars
<1> QED BY <1>1, <1>2, <1>3, <1>4, <1>5, <1>6, <1>7, <1>8, <1>9, <1>10, <1>11,
       <1>12, <1>13, <1>14, <1>15, <1>16, <1>17, <1>18, <1>19, <1>20, <1>21,
       <1>22, <1>23, <1>24, <1>25, <1>26, <1>27, <1>28, <1>29 DEF Next,
       Thread, Waits, Tick

-----------------------------------------------------------------------------
(* The conjuncts above are an inductive invariant.  They are needed since  *)
(* each property is about the end of a run, and what makes it true is      *)
(* written earlier: by the wait, by the wrapper's settle, by the crash.    *)
IInv ==
    /\ TypeOK /\ TxPhase /\ RecPhase
    /\ Decided /\ RecordsAgree
    /\ ChildrenKnown /\ StoppedKnown

LEMMA IInvInit == Init => IInv
<1> SUFFICES ASSUME Init PROVE IInv
  OBVIOUS
<1>1. TypeOK
  BY TypeInit
<1>2. TxPhase /\ RecPhase
  BY DEF Init, TxPhase, RecPhase, Starting, Waiting, Working, Settled
<1>3. Decided /\ RecordsAgree
  BY DEF Init, Decided, RecordsAgree, Settled
<1>4. ChildrenKnown /\ StoppedKnown
  BY DEF Init, ChildrenKnown, StoppedKnown
<1> QED BY <1>1, <1>2, <1>3, <1>4 DEF IInv

LEMMA IInvStep == IInv /\ [Next]_vars => IInv'
<1> SUFFICES ASSUME IInv, [Next]_vars PROVE IInv'
  OBVIOUS
<1>1. TypeOK' /\ TxPhase' /\ RecPhase'
  BY TypeStep, TxPhaseStep, RecPhaseStep DEF IInv
<1>2. Decided' /\ RecordsAgree'
  BY DecidedStep, AgreeStep DEF IInv
<1>3. ChildrenKnown' /\ StoppedKnown'
  BY ChildrenStep, StoppedStep DEF IInv
<1> QED BY <1>1, <1>2, <1>3 DEF IInv

LEMMA IInvAlways == Spec => []IInv
<1> QED BY IInvInit, IInvStep, PTL DEF Spec

(* The job's record and its transaction never contradict each other.       *)
THEOREM RecordsNeverContradict == Spec => []RecordsAgree
<1>1. IInv => RecordsAgree
  BY DEF IInv
<1> QED BY IInvAlways, <1>1, PTL

(* A transaction with a final status other than Recovery Required has no   *)
(* mutating child at work.                                                 *)
THEOREM FinalHasNoChildren == Spec => []NoChildLeftBehind
<1>1. IInv => NoChildLeftBehind
  BY DEF IInv, TypeOK, RecordType, ThreadType, NoChildLeftBehind, ChildrenKnown, Decided, TxPhase,
         Starting, Waiting, Working, Settled, Final
<1> QED BY IInvAlways, <1>1, PTL

(* Cancelled is written only when every child that the cancel stopped had  *)
(* stopped before it changed anything.                                     *)
THEOREM CancelledIsClean == Spec => []CancelledBeforeChange
<1>1. IInv => CancelledBeforeChange
  <2> SUFFICES ASSUME IInv, tx = "Cancelled", NEW c \in stopped
               PROVE ~reported[c] /\ child[c] \notin {"running", "success"}
    BY DEF CancelledBeforeChange
  <2>1. pc \in Settled \cup {"dead"}
    BY DEF IInv, TypeOK, ThreadType, TxPhase, Working, Waiting, Settled
  <2>2. pc # "settles" /\ (pc \in Settled => ~mutated)
    BY <2>1 DEF IInv, Decided, Settled
  <2> QED BY <2>1, <2>2 DEF IInv, StoppedKnown
<1> QED BY IInvAlways, <1>1, PTL

-----------------------------------------------------------------------------
(* Nobody writes a final transaction again: the wrapper's writes come      *)
(* before it is final, the callback's and the reconcile's look first.      *)
TxMoves ==
    /\ tx \in Final => tx' = tx
    /\ tx = "Running" /\ pc = "dead" => tx' \in {"Running", "RecoveryRequired"}
LEMMA TxMovesStep == IInv /\ [Next]_vars => TxMoves
<1> SUFFICES ASSUME IInv, [Next]_vars PROVE TxMoves
  OBVIOUS
<1> USE DEF IInv, TypeOK, RecordType, ThreadType, TxPhase, RecPhase, Starting, Working, Waiting,
            Settled, Final, Ended, WriteTx, Goes, txRecord, jobRecord, thread, TxMoves
<1>1. CASE UNCHANGED tx
  BY <1>1
<1>2. ASSUME Create \/ StartFails \/ Run \/ Settle \/ Finish PROVE TxMoves
  BY <1>2 DEF Create, StartFails, Run, Settle, Finish
<1>3. ASSUME Callback \/ TickSyncs PROVE TxMoves
  BY <1>3 DEF Callback, TickSyncs, UpdateFromJob, Synced
<1>4. ASSUME TickJudges PROVE TxMoves
  BY <1>4 DEF TickJudges
<1>5. CASE Next
  <2> HIDE DEF TxMoves
  <2>1. ASSUME Attach \/ Kill \/ GiveUp \/ LoadRecord \/ Scanned \/ TickLooks \/ Crash \/ Waits
               \/ StartThread \/ NextChild \/ JobEnds
               \/ \E c \in Child : ChildReports(c) \/ ChildEnds(c) \/ ChildCleared(c)
        PROVE UNCHANGED tx
    BY <2>1 DEF Attach, Kill, GiveUp, LoadRecord, Scanned, TickLooks, Crash, StartThread, NextChild,
         JobEnds, ChildReports, ChildEnds, ChildCleared, Waits, PollUncancelled, PollCancelled,
         LooksAgain, ChildSucceeded, ChildFailed, SettleEnded, SettleUnknown
  <2> QED BY <1>1, <1>2, <1>3, <1>4, <1>5, <2>1 DEF Next, Thread, Tick
<1>6. CASE UNCHANGED vars
  BY <1>1, <1>6 DEF vars
<1> QED BY <1>5, <1>6

(* The first to settle a transaction is the last.                          *)
THEOREM FirstSettlesLast == Spec => FinalStays
<1>1. IInv /\ [Next]_vars => [(tx \in Final) => tx' = tx]_vars
  BY TxMovesStep DEF TxMoves
<1> QED BY IInvAlways, <1>1, PTL DEF Spec, FinalStays

(* A transaction whose process died is settled as Recovery Required only.  *)
THEOREM DeadNeedsRecovery == Spec => InterruptedIsRecovery
<1>1. IInv /\ [Next]_vars =>
        [tx = "Running" /\ pc = "dead" => tx' \in {"Running", "RecoveryRequired"}]_vars
  BY TxMovesStep DEF TxMoves
<1> QED BY IInvAlways, <1>1, PTL DEF Spec, InterruptedIsRecovery
=============================================================================
