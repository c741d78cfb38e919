--------------------------- MODULE JobStoreProofs ---------------------------
(* Proofs about JobStore: for any jobs, requests, readers and crashes. *)
EXTENDS JobStore, FiniteSetTheorems, TLAPS

(* The objects, the table, the records and the loaders keep their types.   *)
LEMMA TypeInit == Init => TypeOK
<1> SUFFICES ASSUME Init PROVE TypeOK
  OBVIOUS
<1>1. JobType
  BY DEF Init, JobType, Threads, Statuses
<1>2. TableType
  BY DEF Init, TableType, Statuses
<1>3. DiskType
  BY DEF Init, DiskType, Statuses
<1>4. LoaderType
  BY DEF Init, LoaderType, Idle, Loading, Statuses
<1>5. OtherType
  BY DEF Init, OtherType
<1>6. crashes \in 0..MaxCrash
  BY BoundAssumption DEF Init
<1>7. HistoryType
  BY DEF Init, HistoryType
<1> QED BY <1>1, <1>2, <1>3, <1>4, <1>5, <1>6, <1>7 DEF TypeOK

(* A loader that is at work has a job in hand.                             *)
LEMMA LoaderBusy ==
  TypeOK => \A l \in Loader : loader[l].at # "idle" =>
              loader[l].job \in Job /\ loader[l].status \in Statuses
<1> QED BY DEF TypeOK, LoaderType, Idle, Loading

LEMMA JobTypeStep == TypeOK /\ [Next]_vars => JobType'
<1> SUFFICES ASSUME TypeOK, [Next]_vars PROVE JobType'
  OBVIOUS
<1> USE NoneAssumption DEF TypeOK, JobType, Threads, Statuses, Terminal,
            Moves, vars, job, table, record, startup, cleared, past
<1>1. ASSUME NEW j \in Job, NEW r \in Request, Start(j, r) PROVE JobType'
  BY <1>1 DEF Start, Duplicate
<1>2. ASSUME NEW j \in Job, StartFails(j) PROVE JobType'
  BY <1>2 DEF StartFails
<1>3. ASSUME NEW j \in Job, FirstSave(j) PROVE JobType'
  BY <1>3 DEF FirstSave
<1>4. ASSUME NEW j \in Job, Act(j) PROVE JobType'
  BY <1>4 DEF Act
<1>5. ASSUME NEW j \in Job, Observe(j) PROVE JobType'
  BY <1>5 DEF Observe
<1>6. ASSUME NEW j \in Job, Returns(j) PROVE JobType'
  BY <1>6 DEF Returns
<1>7. ASSUME NEW j \in Job, Raises(j) PROVE JobType'
  BY <1>7 DEF Raises
<1>8. ASSUME NEW j \in Job, Finish(j) PROVE JobType'
  BY <1>8 DEF Finish, OutcomeOf
<1>9. ASSUME NEW j \in Job, FinalSave(j) PROVE JobType'
  BY <1>9 DEF FinalSave
<1>10. ASSUME NEW j \in Job, Kill(j) PROVE JobType'
  BY <1>10 DEF Kill
<1>11. ASSUME Crash PROVE JobType'
  BY <1>11 DEF Crash, Window, Recorded
<1>12. CASE UNCHANGED job
  BY <1>12
<1> QED BY <1>1, <1>2, <1>3, <1>4, <1>5, <1>6, <1>7, <1>8, <1>9, <1>10, <1>11,
           <1>12
     DEF Next, Run, Load, BeatSees, BeatSaves, Get, Insert, Resolve,
         SaveResolved, Boot, SweepTail, Prune, ClearLists, ClearDrops,
         ClearDelete

LEMMA TableTypeStep == TypeOK /\ [Next]_vars => TableType'
<1> SUFFICES ASSUME TypeOK, [Next]_vars PROVE TableType'
  OBVIOUS
<1> USE NoneAssumption DEF TypeOK, TableType, LoaderType, JobType, Statuses,
            Terminal, Loader, Reads, vars, job, table, record, startup,
            cleared, past
<1>1. ASSUME NEW j \in Job, NEW r \in Request, Start(j, r) PROVE TableType'
  BY <1>1 DEF Start, Duplicate
<1>2. ASSUME NEW l \in Loader, Insert(l) PROVE TableType'
  BY <1>2, LoaderBusy DEF Insert
<1>3. ASSUME NEW l \in Loader, Resolve(l) PROVE TableType'
  BY <1>3 DEF Resolve, Interrupted
<1>4. ASSUME Prune PROVE TableType'
  BY <1>4 DEF Prune, Drop, Finished
<1>5. ASSUME ClearDrops PROVE TableType'
  BY <1>5 DEF ClearDrops, Drop, Finished
<1>6. ASSUME Crash PROVE TableType'
  BY <1>6 DEF Crash, Window, Recorded
<1>7. CASE UNCHANGED table
  BY <1>7
<1> QED BY <1>1, <1>2, <1>3, <1>4, <1>5, <1>6, <1>7
     DEF Next, Run, Load, StartFails, FirstSave, Act, Observe, Returns,
         Raises, Finish, FinalSave, Kill, BeatSees, BeatSaves, Get,
         SaveResolved, Boot, SweepTail, ClearLists, ClearDelete

LEMMA DiskTypeStep == TypeOK /\ [Next]_vars => DiskType'
<1> SUFFICES ASSUME TypeOK, [Next]_vars PROVE DiskType'
  OBVIOUS
<1> USE NoneAssumption DEF TypeOK, DiskType, TableType, JobType, LoaderType,
            OtherType, Beat, NoBeat, Statuses, Terminal, Write, Put, Delete,
            Others, Status, vars, job, table, record, startup, cleared, past
<1>1. ASSUME NEW j \in Job, FirstSave(j) PROVE DiskType'
  BY <1>1 DEF FirstSave
<1>2. ASSUME NEW j \in Job, FinalSave(j) PROVE DiskType'
  BY <1>2 DEF FinalSave
<1>3. ASSUME NEW j \in Job, Kill(j) PROVE DiskType'
  BY <1>3 DEF Kill
<1>4. ASSUME BeatSaves PROVE DiskType'
  BY <1>4 DEF BeatSaves
<1>5. ASSUME NEW l \in Loader, SaveResolved(l) PROVE DiskType'
  <2>1. loader[l].job \in Job
    BY <1>5, LoaderBusy DEF SaveResolved
  <2>2. Write(loader[l].job, l)
    BY <1>5 DEF SaveResolved
  <2> QED BY <2>1, <2>2
<1>6. ASSUME NEW j \in Job, SweepTail(j) PROVE DiskType'
  BY <1>6 DEF SweepTail, Newest
<1>7. ASSUME NEW j \in Job, ClearDelete(j) PROVE DiskType'
  BY <1>7 DEF ClearDelete
<1>8. CASE UNCHANGED record
  BY <1>8
<1> QED BY <1>1, <1>2, <1>3, <1>4, <1>5, <1>6, <1>7, <1>8
     DEF Next, Run, Load, Start, StartFails, Act, Observe, Returns, Raises,
         Finish, BeatSees, Get, Insert, Resolve, Boot, Prune, ClearLists,
         ClearDrops, Crash

LEMMA LoaderTypeStep == TypeOK /\ [Next]_vars => LoaderType'
<1> SUFFICES ASSUME TypeOK, [Next]_vars PROVE LoaderType'
  OBVIOUS
<1> USE NoneAssumption DEF TypeOK, LoaderType, DiskType, Statuses, Loader,
            Loading, Idle, Reads, vars, job, table, record, startup, cleared, past
<1>1. ASSUME NEW l \in Reader, NEW j \in Job, Get(l, j) PROVE LoaderType'
  BY <1>1 DEF Get
<1>2. ASSUME NEW l \in Loader, Insert(l) PROVE LoaderType'
  BY <1>2 DEF Insert
<1>3. ASSUME NEW l \in Loader, Resolve(l) PROVE LoaderType'
  BY <1>3 DEF Resolve, Interrupted
<1>4. ASSUME NEW l \in Loader, SaveResolved(l) PROVE LoaderType'
  BY <1>4 DEF SaveResolved
<1>5. ASSUME NEW j \in Job, Boot(j) PROVE LoaderType'
  BY <1>5 DEF Boot, Newest
<1>6. ASSUME NEW j \in Job, SweepTail(j) PROVE LoaderType'
  BY <1>6 DEF SweepTail, Newest
<1>7. ASSUME Crash PROVE LoaderType'
  BY <1>7 DEF Crash, Window, Recorded
<1>8. CASE UNCHANGED loader
  BY <1>8
<1> QED BY <1>1, <1>2, <1>3, <1>4, <1>5, <1>6, <1>7, <1>8
     DEF Next, Run, Load, Start, StartFails, FirstSave, Act, Observe, Returns,
         Raises, Finish, FinalSave, Kill, BeatSees, BeatSaves, Prune,
         ClearLists, ClearDrops, ClearDelete

LEMMA OtherTypeStep == TypeOK /\ [Next]_vars => OtherType'
<1> SUFFICES ASSUME TypeOK, [Next]_vars PROVE OtherType'
  OBVIOUS
<1> USE NoneAssumption DEF TypeOK, OtherType, TableType, Statuses, Terminal,
            Status, Beat, NoBeat, vars, job, table, record, startup, cleared, past
<1>1. ASSUME NEW j \in Job, BeatSees(j) PROVE OtherType'
  BY <1>1 DEF BeatSees
<1>2. ASSUME BeatSaves PROVE OtherType'
  BY <1>2 DEF BeatSaves
<1>3. ASSUME NEW j \in Job, Boot(j) PROVE OtherType'
  BY <1>3 DEF Boot, Newest
<1>4. ASSUME NEW j \in Job, SweepTail(j) PROVE OtherType'
  BY <1>4 DEF SweepTail, Newest
<1>5. ASSUME Prune PROVE OtherType'
  BY <1>5 DEF Prune, Drop, Finished
<1>6. ASSUME ClearLists PROVE OtherType'
  BY <1>6 DEF ClearLists, Finished
<1>7. ASSUME ClearDrops PROVE OtherType'
  BY <1>7 DEF ClearDrops, Drop, Finished
<1>8. ASSUME NEW j \in Job, ClearDelete(j) PROVE OtherType'
  BY <1>8 DEF ClearDelete
<1>9. ASSUME Crash PROVE OtherType'
  BY <1>9 DEF Crash, Window, Recorded
<1>10. CASE UNCHANGED <<beat, startup, cleared, past>>
  BY <1>10
<1> QED BY <1>1, <1>2, <1>3, <1>4, <1>5, <1>6, <1>7, <1>8, <1>9, <1>10
     DEF Next, Run, Load, Start, StartFails, FirstSave, Act, Observe, Returns,
         Raises, Finish, FinalSave, Kill, Get, Insert, Resolve, SaveResolved

LEMMA TypeStep == TypeOK /\ [Next]_vars => TypeOK'
<1> SUFFICES ASSUME TypeOK, [Next]_vars PROVE TypeOK'
  OBVIOUS
<1>1. crashes' \in 0..MaxCrash
  <2>1. CASE Crash
    BY <2>1, BoundAssumption DEF TypeOK, Crash
  <2>2. CASE UNCHANGED crashes
    BY <2>2 DEF TypeOK
  <2> QED
    BY <2>1, <2>2
    DEF Next, Run, Load, vars, past, Start, StartFails, FirstSave, Act, Observe,
        Returns, Raises, Finish, FinalSave, Kill, BeatSees, BeatSaves, Get,
        Insert, Resolve, SaveResolved, Boot, SweepTail, Prune, ClearLists,
        ClearDrops, ClearDelete
<1>2. HistoryType'
  <2> USE DEF TypeOK, HistoryType, OtherType
  <2>1. ASSUME NEW l \in Loader, Insert(l) PROVE HistoryType'
    BY <2>1, LoaderBusy DEF Insert
  <2>2. ASSUME NEW j \in Job, SweepTail(j) PROVE HistoryType'
    BY <2>2 DEF SweepTail
  <2>3. ASSUME Prune PROVE HistoryType'
    BY <2>3 DEF Prune, Drop, Finished
  <2>4. ASSUME ClearDrops PROVE HistoryType'
    BY <2>4 DEF ClearDrops, Drop, Finished
  <2>5. ASSUME Crash PROVE HistoryType'
    BY <2>5 DEF Crash, Recorded
  <2>6. CASE UNCHANGED past
    BY <2>6 DEF past
  <2> QED
    BY <2>1, <2>2, <2>3, <2>4, <2>5, <2>6
    DEF Next, Run, Load, vars, Start, StartFails, FirstSave, Act, Observe,
        Returns, Raises, Finish, FinalSave, Kill, BeatSees, BeatSaves, Get,
        Resolve, SaveResolved, Boot, ClearLists, ClearDelete
<1> QED BY <1>1, <1>2, JobTypeStep, TableTypeStep, DiskTypeStep, LoaderTypeStep, OtherTypeStep DEF
     TypeOK

(* For every variable, the type invariant of the runs.                     *)
THEOREM TypeCorrect == Spec => []TypeOK
<1> QED BY TypeInit, TypeStep, PTL DEF Spec

-----------------------------------------------------------------------------
(* A job whose function may still run shows "running" in the table.        *)
Held == \A j \in Job : Working(j) => own[j] = "running" /\ entry[j] = "own"

LEMMA HeldStep ==
  ASSUME TypeOK, Held, [Next]_vars PROVE Held'
<1> USE NoneAssumption DEF TypeOK, JobType, TableType, Held, Working, Moves,
            Status, Finished, Prunable, Terminal, job, table
<1>1. ASSUME NEW j \in Job, NEW r \in Request, Start(j, r) PROVE Held'
  BY <1>1 DEF Start, Duplicate
<1>2. ASSUME NEW j \in Job, StartFails(j) PROVE Held'
  BY <1>2 DEF StartFails
<1>3. ASSUME NEW j \in Job, FirstSave(j) PROVE Held'
  BY <1>3 DEF FirstSave
<1>4. ASSUME NEW j \in Job, Returns(j) PROVE Held'
  BY <1>4 DEF Returns
<1>5. ASSUME NEW j \in Job, Raises(j) PROVE Held'
  BY <1>5 DEF Raises
<1>6. ASSUME NEW j \in Job, Finish(j) PROVE Held'
  BY <1>6 DEF Finish, OutcomeOf
<1>7. ASSUME NEW j \in Job, FinalSave(j) PROVE Held'
  BY <1>7 DEF FinalSave
<1>8. ASSUME NEW l \in Loader, Insert(l) PROVE Held'
  BY <1>8 DEF Insert
<1>9. ASSUME Prune PROVE Held'
  BY <1>9 DEF Prune, Drop, Finished
<1>10. ASSUME ClearDrops PROVE Held'
  BY <1>10 DEF ClearDrops, Drop, Finished
<1>11. ASSUME Crash PROVE Held'
  BY <1>11 DEF Crash, Window, Recorded
<1>12. CASE UNCHANGED <<thread, own, entry>>
  BY <1>12
<1> QED BY <1>1, <1>2, <1>3, <1>4, <1>5, <1>6, <1>7, <1>8, <1>9, <1>10, <1>11,
           <1>12
     DEF vars, job, table, record, startup, cleared, past, Next, Run, Load, Act,
         Observe, Kill, BeatSees, BeatSaves, Get, Resolve, SaveResolved, Boot,
         SweepTail, ClearLists, ClearDelete

LEMMA NoOverlapStep ==
  ASSUME TypeOK, Held, NoOverlap, [Next]_vars PROVE NoOverlap'
<1> USE NoneAssumption DEF TypeOK, JobType, TableType, Held, Working,
            NoOverlap, Moves, Status, job
<1>1. ASSUME NEW j \in Job, NEW r \in Request, Start(j, r) PROVE NoOverlap'
  BY <1>1 DEF Start, Duplicate
<1>2. ASSUME NEW j \in Job, StartFails(j) PROVE NoOverlap'
  BY <1>2 DEF StartFails
<1>3. ASSUME NEW j \in Job, FirstSave(j) PROVE NoOverlap'
  BY <1>3 DEF FirstSave
<1>4. ASSUME NEW j \in Job, Returns(j) PROVE NoOverlap'
  BY <1>4 DEF Returns
<1>5. ASSUME NEW j \in Job, Raises(j) PROVE NoOverlap'
  BY <1>5 DEF Raises
<1>6. ASSUME NEW j \in Job, Finish(j) PROVE NoOverlap'
  BY <1>6 DEF Finish, OutcomeOf
<1>7. ASSUME NEW j \in Job, FinalSave(j) PROVE NoOverlap'
  BY <1>7 DEF FinalSave
<1>8. ASSUME Crash PROVE NoOverlap'
  BY <1>8 DEF Crash, Window, Recorded
<1>9. CASE UNCHANGED <<request, thread>>
  BY <1>9
<1> QED BY <1>1, <1>2, <1>3, <1>4, <1>5, <1>6, <1>7, <1>8, <1>9
     DEF vars, job, table, record, startup, cleared, past, Next, Run, Load, Act,
         Observe, Kill, BeatSees, BeatSaves, Get, Insert, Resolve,
         SaveResolved, Boot, SweepTail, Prune, ClearLists, ClearDrops,
         ClearDelete

(* For any jobs and crashes, the mutating jobs of one request never run at *)
(* once: the running one is in the table, so find_duplicate meets it.      *)
THEOREM OneAtATime == Spec => []NoOverlap
<1>1. Init => Held /\ NoOverlap
  BY DEF Init, Held, NoOverlap, Working
<1>2. TypeOK /\ Held /\ NoOverlap /\ [Next]_vars => Held' /\ NoOverlap'
  BY HeldStep, NoOverlapStep
<1> QED BY <1>1, <1>2, TypeCorrect, PTL DEF Spec

-----------------------------------------------------------------------------
(* What holds whatever is loaded and cleared.  Only the object in the      *)
(* table is ever written, and only two steps delete: that of a cleared     *)
(* job's record, and the tail sweep's of an old finished one, after which  *)
(* a job in the table is stale.                                            *)
Deletes(i) ==
    \/ i \in removed /\ ~locked
    \/ disk[i] \in Prunable /\ (entry[i] = "none" \/ i \in stale')
DiskFollows ==
    \A i \in Job : \/ disk'[i] = disk[i]
                   \/ entry[i] # "none" /\ disk'[i] = Status(i)
                   \/ Deletes(i) /\ disk'[i] = "none"

LEMMA DiskMoves ==
  ASSUME TypeOK, [Next]_vars PROVE DiskFollows
<1> USE NoneAssumption DEF DiskFollows, Deletes, TypeOK, TableType, DiskType,
        LoaderType, OtherType, Write, Put, Delete, Others, Status, record
<1>1. ASSUME NEW j \in Job, FirstSave(j) PROVE DiskFollows
  BY <1>1 DEF FirstSave
<1>2. ASSUME NEW j \in Job, FinalSave(j) PROVE DiskFollows
  BY <1>2 DEF FinalSave
<1>3. ASSUME NEW j \in Job, Kill(j) PROVE DiskFollows
  BY <1>3 DEF Kill
<1>4. ASSUME BeatSaves PROVE DiskFollows
  <2>1. beat.job \in Job /\ beat.object # "none"
    BY <1>4, ReaderAssumption DEF BeatSaves, Loader
  <2>2. Write(beat.job, beat.object)
    BY <1>4 DEF BeatSaves
  <2> QED BY <2>1, <2>2
<1>5. ASSUME NEW l \in Loader, SaveResolved(l) PROVE DiskFollows
  <2>1. loader[l].job \in Job /\ l # "none"
    BY <1>5, LoaderBusy, ReaderAssumption DEF SaveResolved, Loader
  <2>2. Write(loader[l].job, l)
    BY <1>5 DEF SaveResolved
  <2> QED BY <2>1, <2>2
<1>6. ASSUME NEW j \in Job, SweepTail(j) PROVE DiskFollows
  BY <1>6 DEF SweepTail, Newest
<1>7. ASSUME NEW j \in Job, ClearDelete(j) PROVE DiskFollows
  BY <1>7 DEF ClearDelete, cleared
<1>8. CASE UNCHANGED <<disk>>
  BY <1>8 DEF vars
<1> QED
  BY <1>1, <1>2, <1>3, <1>4, <1>5, <1>6, <1>7, <1>8
  DEF vars, job, table, record, startup, cleared, past, Next, Run, Load, Start,
      StartFails, Act, Observe, Returns, Raises, Finish, BeatSees, Get,
      Insert, Resolve, Boot, Prune, ClearLists, ClearDrops, Crash

(* A job that nobody asked for leaves no trace, and a loader that is about *)
(* to resolve a job has its running object in the table.                   *)
Unasked ==
    \A j \in Job : request[j] = "none" =>
        /\ disk[j] = "none" /\ entry[j] = "none" /\ thread[j] = "none" /\ j \notin removed
        /\ \A l \in Loader : loader[l].at # "idle" => loader[l].job # j
Resolving ==
    \A l \in Loader : loader[l].at = "resolve" =>
        entry[loader[l].job] = l /\ copy[loader[l].job] = "running"

LEMMA UnaskedStep ==
  ASSUME TypeOK, Unasked, [Next]_vars PROVE Unasked'
<1>h. DiskFollows
  BY DiskMoves
<1> USE NoneAssumption DEF DiskFollows, TypeOK, JobType, TableType, DiskType,
        LoaderType, OtherType, Unasked, Moves, Loading, Idle, Reads, job,
        table, record, cleared
<1>1. ASSUME NEW j \in Job, NEW r \in Request, Start(j, r) PROVE Unasked'
  BY <1>1, <1>h DEF Start, Duplicate
<1>2. ASSUME NEW j \in Job, StartFails(j) PROVE Unasked'
  BY <1>2, <1>h DEF StartFails
<1>3. ASSUME NEW j \in Job, FirstSave(j) PROVE Unasked'
  BY <1>3, <1>h DEF FirstSave
<1>4. ASSUME NEW j \in Job, Returns(j) PROVE Unasked'
  BY <1>4, <1>h DEF Returns
<1>5. ASSUME NEW j \in Job, Raises(j) PROVE Unasked'
  BY <1>5, <1>h DEF Raises
<1>6. ASSUME NEW j \in Job, Finish(j) PROVE Unasked'
  BY <1>6, <1>h DEF Finish, OutcomeOf
<1>7. ASSUME NEW j \in Job, FinalSave(j) PROVE Unasked'
  BY <1>7, <1>h DEF FinalSave
<1>8. ASSUME NEW l \in Reader, NEW j \in Job, Get(l, j) PROVE Unasked'
  BY <1>8, <1>h DEF Get
<1>9. ASSUME NEW l \in Loader, Insert(l) PROVE Unasked'
  BY <1>9, <1>h, LoaderBusy DEF Insert
<1>10. ASSUME NEW l \in Loader, Resolve(l) PROVE Unasked'
  BY <1>10, <1>h, LoaderBusy DEF Resolve, Interrupted
<1>11. ASSUME NEW l \in Loader, SaveResolved(l) PROVE Unasked'
  BY <1>11, <1>h DEF SaveResolved
<1>12. ASSUME NEW j \in Job, Boot(j) PROVE Unasked'
  BY <1>12, <1>h DEF Boot, Newest
<1>13. ASSUME NEW j \in Job, SweepTail(j) PROVE Unasked'
  BY <1>13, <1>h DEF SweepTail, Newest
<1>14. ASSUME Prune PROVE Unasked'
  BY <1>14, <1>h DEF Prune, Drop, Finished, Status, Prunable, Terminal
<1>15. ASSUME ClearLists PROVE Unasked'
  BY <1>15, <1>h DEF ClearLists, Finished, Status, Prunable, Terminal
<1>16. ASSUME ClearDrops PROVE Unasked'
  BY <1>16, <1>h DEF ClearDrops, Drop, Finished
<1>17. ASSUME NEW j \in Job, ClearDelete(j) PROVE Unasked'
  BY <1>17, <1>h DEF ClearDelete
<1>18. ASSUME Crash PROVE Unasked'
  BY <1>18, <1>h DEF Crash, Window, Recorded
<1>19. CASE UNCHANGED <<request, thread, entry, removed, loader>>
  BY <1>19, <1>h DEF vars
<1> QED
  BY <1>1, <1>2, <1>3, <1>4, <1>5, <1>6, <1>7, <1>8, <1>9, <1>10, <1>11,
     <1>12, <1>13, <1>14, <1>15, <1>16, <1>17, <1>18, <1>19
  DEF vars, job, table, record, startup, cleared, past, Next, Run, Load, Act,
      Observe, Kill, BeatSees, BeatSaves

LEMMA ResolvingStep ==
  ASSUME TypeOK, Unasked, Resolving, [Next]_vars PROVE Resolving'
<1> USE NoneAssumption DEF TypeOK, TableType, LoaderType, Unasked, Resolving,
        Loading, Idle, Reads, job, table, Status, Prunable, Terminal
<1>1. ASSUME NEW j \in Job, NEW r \in Request, Start(j, r) PROVE Resolving'
  BY <1>1, LoaderBusy DEF Start, Duplicate
<1>2. ASSUME NEW l \in Reader, NEW j \in Job, Get(l, j) PROVE Resolving'
  BY <1>2 DEF Get
<1>3. ASSUME NEW l \in Loader, Insert(l) PROVE Resolving'
  BY <1>3, LoaderBusy, ReaderAssumption DEF Insert, Loader
<1>4. ASSUME NEW l \in Loader, Resolve(l) PROVE Resolving'
  BY <1>4, LoaderBusy DEF Resolve, Interrupted
<1>5. ASSUME NEW l \in Loader, SaveResolved(l) PROVE Resolving'
  BY <1>5 DEF SaveResolved
<1>6. ASSUME NEW j \in Job, Boot(j) PROVE Resolving'
  BY <1>6 DEF Boot, Newest
<1>7. ASSUME NEW j \in Job, SweepTail(j) PROVE Resolving'
  BY <1>7 DEF SweepTail, Newest
<1>8. ASSUME Prune PROVE Resolving'
  BY <1>8, LoaderBusy, ReaderAssumption DEF Prune, Drop, Finished, Loader
<1>9. ASSUME ClearDrops PROVE Resolving'
  BY <1>9, LoaderBusy, ReaderAssumption DEF ClearDrops, Drop, Finished, Loader
<1>10. ASSUME Crash PROVE Resolving'
  BY <1>10 DEF Crash, Window, Recorded
<1>11. CASE UNCHANGED <<entry, copy, loader>>
  BY <1>11 DEF vars
<1> QED
  BY <1>1, <1>2, <1>3, <1>4, <1>5, <1>6, <1>7, <1>8, <1>9, <1>10, <1>11
  DEF vars, job, table, record, startup, cleared, past, Next, Run, Load, StartFails,
      FirstSave, Act, Observe, Returns, Raises, Finish, FinalSave, Kill,
      BeatSees, BeatSaves, ClearLists, ClearDelete

-----------------------------------------------------------------------------
(* A job is dead when it was asked for and has no thread in this process.  *)
Dead(j) == thread[j] = "none" /\ request[j] # "none"
DeadMutation(j) == Dead(j) /\ request[j] \notin ReadOnly

(* A job stays stale, and its thread is done by then.                      *)
LEMMA StaleGrows == ASSUME [Next]_vars PROVE stale \subseteq stale'
<1>1. CASE UNCHANGED past
  BY <1>1 DEF past
<1> QED
  BY <1>1
  DEF vars, Next, Run, Load, Start, StartFails, FirstSave, Act, Observe,
      Returns, Raises, Finish, FinalSave, Kill, BeatSees, BeatSaves, Get,
      Insert, Resolve, SaveResolved, Boot, SweepTail, Prune, ClearLists,
      ClearDrops, ClearDelete, Crash

(* An object of its own in the table is that of a job this process runs or *)
(* has run, and a loader that is to insert has read a record.              *)
Mine == \A j \in Job : entry[j] = "own" => thread[j] # "none"
HasRead == \A l \in Loader : loader[l].at = "insert" => loader[l].status # "none"

(* What holds of the jobs that are not stale.  A job that a clear has      *)
(* picked is finished or gone and was not interrupted.                     *)
Dropped ==
    \A j \in removed \ stale :
        /\ entry[j] # "none" => locked /\ j \in Finished
        /\ disk[j] # "recovery_required" /\ (DeadMutation(j) => disk[j] # "running")
(* The objects in the table say what the finished records say, and nobody  *)
(* is about to insert anything else where recovery is required.            *)
Current ==
    \A j \in Job \ stale : entry[j] # "none" =>
        /\ Status(j) # "none" /\ (disk[j] \in Terminal => Status(j) = disk[j])
        /\ entry[j] # "own" => disk[j] # "none"
Resolved ==
    \A j \in Job \ stale : disk[j] = "recovery_required" /\ entry[j] = "none" =>
        \A l \in Loader : loader[l].at = "insert" /\ loader[l].job = j
                             => loader[l].status = "recovery_required"
(* A success is said of a job that has done all of its work, a cancelled   *)
(* job has seen the signal, and recovery_required is said of a mutating    *)
(* job whose process died.                                                 *)
SuccessesDone ==
    /\ \A j \in Job : /\ "success" \in {own[j], copy[j], disk[j]} => effect[j] = "all"
                      /\ thread[j] = "returned" => effect[j] = "all"
    /\ \A l \in Loader : loader[l].at = "insert" /\ loader[l].status = "success"
                             => effect[loader[l].job] = "all"
CancelsSeen == \A j \in Job : own[j] = "cancelled" => killed[j] = "observed"
RecoveriesDead ==
    /\ \A j \in Job : own[j] # "recovery_required"
    /\ \A j \in Job \ stale : "recovery_required" \in {copy[j], disk[j]} => DeadMutation(j)
    /\ \A l \in Loader : loader[l].at = "resolve" /\ loader[l].job \notin stale
                             => Dead(loader[l].job)
(* The object in the table of a job that died while running.               *)
RanUntilDeath ==
    \A j \in Job \ stale : disk[j] = "running" /\ entry[j] # "none" /\ DeadMutation(j)
                       => copy[j] \in {"running", "recovery_required"}
(* A function that runs or has run is on record as running, and a job of   *)
(* this process without a record has not begun, or could not; a job is     *)
(* not stale before its function has ended.                                *)
AtWork ==
    \A j \in Job \ stale :
        /\ thread[j] \in {"work", "returned", "raised"} => disk[j] = "running"
        /\ entry[j] = "own" /\ disk[j] = "none"
               => thread[j] = "start" \/ (thread[j] = "save" /\ own[j] = "failed")
StaleDone == \A j \in stale : request[j] # "none" /\ ~Working(j)
Honest == SuccessesDone /\ CancelsSeen /\ RecoveriesDead /\ RanUntilDeath
Follows == Unasked /\ Resolving /\ Mine /\ HasRead /\ Held /\ Dropped /\ Current /\ Resolved
(* The inductive invariant of the theorems that follow.                    *)
Sound == TypeOK /\ Follows /\ Honest /\ AtWork /\ StaleDone

(* No record is deleted under an object in the table of a job that is not  *)
(* stale, nor one that has to be resolved.                                 *)
Harmless ==
    \A i \in Job \ stale' : Deletes(i) =>
        /\ entry[i] = "none"
        /\ disk[i] # "recovery_required" /\ (DeadMutation(i) => disk[i] # "running")
LEMMA StepIs ==
  ASSUME Sound, [Next]_vars PROVE DiskFollows /\ Harmless /\ stale \subseteq stale'
<1>1. DiskFollows /\ stale \subseteq stale'
  BY DiskMoves, StaleGrows DEF Sound
<1> QED
  BY <1>1 DEF Sound, Follows, Dropped, Harmless, Deletes, Prunable, Terminal, Finished

(* Each of these is kept by every step.                                    *)
LEMMA MineStep ==
  ASSUME Sound, [Next]_vars PROVE Mine'
<1> USE NoneAssumption DEF Sound, TypeOK, JobType, TableType, Follows, Moves,
                           Mine, job, table
<1>1. ASSUME NEW j \in Job, NEW r \in Request, Start(j, r) PROVE Mine'
  BY <1>1 DEF Start, Duplicate
<1>2. ASSUME NEW j \in Job, StartFails(j) PROVE Mine'
  BY <1>2 DEF StartFails
<1>3. ASSUME NEW j \in Job, FirstSave(j) PROVE Mine'
  BY <1>3 DEF FirstSave
<1>4. ASSUME NEW j \in Job, Returns(j) PROVE Mine'
  BY <1>4 DEF Returns
<1>5. ASSUME NEW j \in Job, Raises(j) PROVE Mine'
  BY <1>5 DEF Raises
<1>6. ASSUME NEW j \in Job, Finish(j) PROVE Mine'
  BY <1>6 DEF Finish, OutcomeOf
<1>7. ASSUME NEW j \in Job, FinalSave(j) PROVE Mine'
  BY <1>7 DEF FinalSave
<1>8. ASSUME NEW l \in Loader, Insert(l) PROVE Mine'
  BY <1>8, ReaderAssumption DEF Insert, Loader
<1>9. ASSUME Prune PROVE Mine'
  BY <1>9 DEF Prune, Drop, Finished
<1>10. ASSUME ClearDrops PROVE Mine'
  BY <1>10 DEF ClearDrops, Drop, Finished
<1>11. ASSUME Crash PROVE Mine'
  BY <1>11 DEF Crash, Window, Recorded
<1>12. CASE UNCHANGED <<thread, entry>>
  BY <1>12 DEF vars, past
<1> QED
  BY <1>1, <1>2, <1>3, <1>4, <1>5, <1>6, <1>7, <1>8, <1>9, <1>10, <1>11, <1>12
  DEF vars, job, table, record, startup, cleared, past, Next, Run, Load, Act,
      Observe, Kill, BeatSees, BeatSaves, Get, Resolve, SaveResolved, Boot,
      SweepTail, ClearLists, ClearDelete

LEMMA HasReadStep ==
  ASSUME Sound, [Next]_vars PROVE HasRead'
<1> USE NoneAssumption DEF Sound, TypeOK, LoaderType, DiskType, Follows,
                           HasRead, Loading, Idle, Reads
<1>1. ASSUME NEW l \in Reader, NEW j \in Job, Get(l, j) PROVE HasRead'
  BY <1>1 DEF Get
<1>2. ASSUME NEW l \in Loader, Insert(l) PROVE HasRead'
  BY <1>2 DEF Insert
<1>3. ASSUME NEW l \in Loader, Resolve(l) PROVE HasRead'
  BY <1>3 DEF Resolve, Interrupted
<1>4. ASSUME NEW l \in Loader, SaveResolved(l) PROVE HasRead'
  BY <1>4 DEF SaveResolved
<1>5. ASSUME NEW j \in Job, Boot(j) PROVE HasRead'
  BY <1>5 DEF Boot, Newest
<1>6. ASSUME NEW j \in Job, SweepTail(j) PROVE HasRead'
  BY <1>6 DEF SweepTail, Newest
<1>7. ASSUME Crash PROVE HasRead'
  BY <1>7 DEF Crash, Window, Recorded
<1>8. CASE UNCHANGED <<loader>>
  BY <1>8 DEF vars, past
<1> QED
  BY <1>1, <1>2, <1>3, <1>4, <1>5, <1>6, <1>7, <1>8
  DEF vars, job, table, record, startup, cleared, past, Next, Run, Load,
      Start, StartFails, FirstSave, Act, Observe, Returns, Raises, Finish,
      FinalSave, Kill, BeatSees, BeatSaves, Prune, ClearLists, ClearDrops,
      ClearDelete

LEMMA DroppedStep ==
  ASSUME Sound, [Next]_vars PROVE Dropped'
<1>h. DiskFollows /\ Harmless /\ stale \subseteq stale'
  BY StepIs
<1> USE NoneAssumption DEF Sound, TypeOK, JobType, TableType, OtherType,
                           DiskFollows, Harmless, Follows, Unasked, Resolving,
                           Mine, Dropped, Finished, Status, Prunable,
                           Terminal, Dead, DeadMutation, Moves, job, table,
                           record, cleared, past
<1>1. ASSUME NEW j \in Job, NEW r \in Request, Start(j, r) PROVE Dropped'
  BY <1>1, <1>h DEF Start, Duplicate
<1>2. ASSUME NEW j \in Job, StartFails(j) PROVE Dropped'
  BY <1>2, <1>h DEF StartFails
<1>3. ASSUME NEW j \in Job, FirstSave(j) PROVE Dropped'
  BY <1>3, <1>h DEF FirstSave
<1>4. ASSUME NEW j \in Job, Returns(j) PROVE Dropped'
  BY <1>4, <1>h DEF Returns
<1>5. ASSUME NEW j \in Job, Raises(j) PROVE Dropped'
  BY <1>5, <1>h DEF Raises
<1>6. ASSUME NEW j \in Job, Finish(j) PROVE Dropped'
  BY <1>6, <1>h DEF Finish, OutcomeOf
<1>7. ASSUME NEW j \in Job, FinalSave(j) PROVE Dropped'
  BY <1>7, <1>h DEF FinalSave
<1>8. ASSUME NEW l \in Loader, Insert(l) PROVE Dropped'
  BY <1>8, <1>h, LoaderBusy DEF Insert
<1>9. ASSUME NEW l \in Loader, Resolve(l) PROVE Dropped'
  BY <1>9, <1>h, LoaderBusy DEF Resolve, Interrupted, Honest, RecoveriesDead
<1>10. ASSUME NEW j \in Job, SweepTail(j) PROVE Dropped'
  BY <1>10, <1>h DEF SweepTail, Newest
<1>11. ASSUME Prune PROVE Dropped'
  BY <1>11, <1>h DEF Prune, Drop, Finished, Current, Honest, RanUntilDeath
<1>12. ASSUME ClearLists PROVE Dropped'
  BY <1>12, <1>h DEF ClearLists, Finished, Current, Honest, RanUntilDeath
<1>13. ASSUME ClearDrops PROVE Dropped'
  BY <1>13, <1>h DEF ClearDrops, Drop, Finished
<1>14. ASSUME NEW j \in Job, ClearDelete(j) PROVE Dropped'
  BY <1>14, <1>h DEF ClearDelete
<1>15. ASSUME Crash PROVE Dropped'
  BY <1>15, <1>h DEF Crash, Window, Recorded
<1>16. CASE UNCHANGED <<request, thread, own, entry, copy, removed, locked>>
  BY <1>16, <1>h DEF vars, past
<1> QED
  BY <1>1, <1>2, <1>3, <1>4, <1>5, <1>6, <1>7, <1>8, <1>9, <1>10, <1>11,
     <1>12, <1>13, <1>14, <1>15, <1>16
  DEF vars, job, table, record, startup, cleared, past, Next, Run, Load, Act,
      Observe, Kill, BeatSees, BeatSaves, Get, SaveResolved, Boot

LEMMA CurrentStep ==
  ASSUME Sound, [Next]_vars PROVE Current'
<1>h. DiskFollows /\ Harmless /\ stale \subseteq stale'
  BY StepIs
<1> USE NoneAssumption DEF Sound, TypeOK, JobType, TableType, DiskType,
                           LoaderType, DiskFollows, Harmless, Follows,
                           Unasked, Resolving, Mine, HasRead, Held, Working,
                           Current, Honest, RecoveriesDead, Dead,
                           DeadMutation, Status, Terminal, Statuses, Moves,
                           job, table, record, past
<1>1. ASSUME NEW j \in Job, NEW r \in Request, Start(j, r) PROVE Current'
  BY <1>1, <1>h DEF Start, Duplicate
<1>2. ASSUME NEW j \in Job, StartFails(j) PROVE Current'
  BY <1>2, <1>h DEF StartFails
<1>3. ASSUME NEW j \in Job, Finish(j) PROVE Current'
  BY <1>3, <1>h DEF Finish, OutcomeOf
<1>4. ASSUME NEW l \in Loader, Insert(l) PROVE Current'
  BY <1>4, <1>h, LoaderBusy, ReaderAssumption DEF Insert, Loader
<1>5. ASSUME NEW l \in Loader, Resolve(l) PROVE Current'
  BY <1>5, <1>h, LoaderBusy DEF Resolve, Interrupted
<1>6. ASSUME NEW j \in Job, SweepTail(j) PROVE Current'
  BY <1>6, <1>h DEF SweepTail, Newest
<1>7. ASSUME Prune PROVE Current'
  BY <1>7, <1>h DEF Prune, Drop, Finished
<1>8. ASSUME ClearDrops PROVE Current'
  BY <1>8, <1>h DEF ClearDrops, Drop, Finished
<1>9. ASSUME Crash PROVE Current'
  BY <1>9, <1>h DEF Crash, Window, Recorded
<1>10. CASE UNCHANGED <<own, entry, copy, stale>>
  BY <1>10, <1>h DEF vars, past
<1> QED
  BY <1>1, <1>2, <1>3, <1>4, <1>5, <1>6, <1>7, <1>8, <1>9, <1>10
  DEF vars, job, table, record, startup, cleared, past, Next, Run, Load,
      FirstSave, Act, Observe, Returns, Raises, FinalSave, Kill, BeatSees,
      BeatSaves, Get, SaveResolved, Boot, ClearLists, ClearDelete

LEMMA ResolvedStep ==
  ASSUME Sound, [Next]_vars PROVE Resolved'
<1>h. DiskFollows /\ Harmless /\ stale \subseteq stale'
  BY StepIs
<1> USE NoneAssumption DEF Sound, TypeOK, JobType, TableType, DiskType,
                           LoaderType, DiskFollows, Harmless, Follows,
                           Unasked, Current, Resolved, Status, Prunable,
                           Terminal, Loading, Idle, Reads, job, table, record,
                           past
<1>1. ASSUME NEW j \in Job, NEW r \in Request, Start(j, r) PROVE Resolved'
  BY <1>1, <1>h DEF Start, Duplicate
<1>2. ASSUME NEW l \in Reader, NEW j \in Job, Get(l, j) PROVE Resolved'
  BY <1>2, <1>h DEF Get
<1>3. ASSUME NEW l \in Loader, Insert(l) PROVE Resolved'
  BY <1>3, <1>h, LoaderBusy, ReaderAssumption DEF Insert, Loader
<1>4. ASSUME NEW l \in Loader, Resolve(l) PROVE Resolved'
  BY <1>4, <1>h DEF Resolve, Interrupted
<1>5. ASSUME NEW l \in Loader, SaveResolved(l) PROVE Resolved'
  BY <1>5, <1>h DEF SaveResolved
<1>6. ASSUME NEW j \in Job, Boot(j) PROVE Resolved'
  BY <1>6, <1>h DEF Boot, Newest
<1>7. ASSUME NEW j \in Job, SweepTail(j) PROVE Resolved'
  BY <1>7, <1>h DEF SweepTail, Newest
<1>8. ASSUME Prune PROVE Resolved'
  BY <1>8, <1>h DEF Prune, Drop, Finished
<1>9. ASSUME ClearDrops PROVE Resolved'
  BY <1>9, <1>h DEF ClearDrops, Drop, Finished
<1>10. ASSUME Crash PROVE Resolved'
  BY <1>10, <1>h DEF Crash, Window, Recorded
<1>11. CASE UNCHANGED <<entry, loader, stale>>
  BY <1>11, <1>h DEF vars, past
<1> QED
  BY <1>1, <1>2, <1>3, <1>4, <1>5, <1>6, <1>7, <1>8, <1>9, <1>10, <1>11
  DEF vars, job, table, record, startup, cleared, past, Next, Run, Load,
      StartFails, FirstSave, Act, Observe, Returns, Raises, Finish, FinalSave,
      Kill, BeatSees, BeatSaves, ClearLists, ClearDelete

LEMMA CancelsSeenStep ==
  ASSUME Sound, [Next]_vars PROVE CancelsSeen'
<1> USE NoneAssumption DEF Sound, TypeOK, JobType, TableType, Honest, Moves,
                           CancelsSeen, job
<1>1. ASSUME NEW j \in Job, NEW r \in Request, Start(j, r) PROVE CancelsSeen'
  BY <1>1 DEF Start, Duplicate
<1>2. ASSUME NEW j \in Job, StartFails(j) PROVE CancelsSeen'
  BY <1>2 DEF StartFails
<1>3. ASSUME NEW j \in Job, Observe(j) PROVE CancelsSeen'
  BY <1>3 DEF Observe
<1>4. ASSUME NEW j \in Job, Finish(j) PROVE CancelsSeen'
  BY <1>4 DEF Finish, OutcomeOf
<1>5. ASSUME NEW j \in Job, Kill(j) PROVE CancelsSeen'
  BY <1>5 DEF Kill
<1>6. ASSUME Crash PROVE CancelsSeen'
  BY <1>6 DEF Crash, Window, Recorded
<1>7. CASE UNCHANGED <<own, killed>>
  BY <1>7 DEF vars, past
<1> QED
  BY <1>1, <1>2, <1>3, <1>4, <1>5, <1>6, <1>7
  DEF vars, job, table, record, startup, cleared, past, Next, Run, Load,
      FirstSave, Act, Returns, Raises, FinalSave, BeatSees, BeatSaves, Get,
      Insert, Resolve, SaveResolved, Boot, SweepTail, Prune, ClearLists,
      ClearDrops, ClearDelete

LEMMA SuccessesDoneStep ==
  ASSUME Sound, [Next]_vars PROVE SuccessesDone'
<1>h. DiskFollows
  BY DiskMoves DEF Sound
<1> USE NoneAssumption DEF Sound, TypeOK, JobType, TableType, DiskType,
                           LoaderType, Honest, Moves, DiskFollows, Status,
                           SuccessesDone, Loading, Idle, Reads, job, table,
                           record
<1>1. ASSUME NEW j \in Job, NEW r \in Request, Start(j, r) PROVE SuccessesDone'
  BY <1>1, <1>h DEF Start, Duplicate
<1>2. ASSUME NEW j \in Job, StartFails(j) PROVE SuccessesDone'
  BY <1>2, <1>h DEF StartFails
<1>3. ASSUME NEW j \in Job, FirstSave(j) PROVE SuccessesDone'
  BY <1>3, <1>h DEF FirstSave
<1>4. ASSUME NEW j \in Job, Act(j) PROVE SuccessesDone'
  BY <1>4, <1>h, LoaderBusy DEF Act
<1>5. ASSUME NEW j \in Job, Returns(j) PROVE SuccessesDone'
  BY <1>5, <1>h, LoaderBusy DEF Returns
<1>6. ASSUME NEW j \in Job, Raises(j) PROVE SuccessesDone'
  BY <1>6, <1>h DEF Raises
<1>7. ASSUME NEW j \in Job, Finish(j) PROVE SuccessesDone'
  BY <1>7, <1>h DEF Finish, OutcomeOf
<1>8. ASSUME NEW j \in Job, FinalSave(j) PROVE SuccessesDone'
  BY <1>8, <1>h DEF FinalSave
<1>9. ASSUME NEW l \in Reader, NEW j \in Job, Get(l, j) PROVE SuccessesDone'
  BY <1>9, <1>h DEF Get
<1>10. ASSUME NEW l \in Loader, Insert(l) PROVE SuccessesDone'
  BY <1>10, <1>h, LoaderBusy DEF Insert
<1>11. ASSUME NEW l \in Loader, Resolve(l) PROVE SuccessesDone'
  BY <1>11, <1>h, LoaderBusy DEF Resolve, Interrupted
<1>12. ASSUME NEW l \in Loader, SaveResolved(l) PROVE SuccessesDone'
  BY <1>12, <1>h, LoaderBusy DEF SaveResolved
<1>13. ASSUME NEW j \in Job, Boot(j) PROVE SuccessesDone'
  BY <1>13, <1>h DEF Boot, Newest
<1>14. ASSUME NEW j \in Job, SweepTail(j) PROVE SuccessesDone'
  BY <1>14, <1>h DEF SweepTail, Newest
<1>15. ASSUME Prune PROVE SuccessesDone'
  BY <1>15, <1>h DEF Prune, Drop, Finished
<1>16. ASSUME ClearDrops PROVE SuccessesDone'
  BY <1>16, <1>h DEF ClearDrops, Drop, Finished
<1>17. ASSUME Crash PROVE SuccessesDone'
  BY <1>17, <1>h DEF Crash, Window, Recorded
<1>18. CASE UNCHANGED <<effect, own, thread, entry, copy, loader>>
  BY <1>18, <1>h DEF vars, past
<1> QED
  BY <1>1, <1>2, <1>3, <1>4, <1>5, <1>6, <1>7, <1>8, <1>9, <1>10, <1>11,
     <1>12, <1>13, <1>14, <1>15, <1>16, <1>17, <1>18
  DEF vars, job, table, record, startup, cleared, past, Next, Run, Load,
      Observe, Kill, BeatSees, BeatSaves, ClearLists, ClearDelete

LEMMA RecoveriesDeadStep ==
  ASSUME Sound, [Next]_vars PROVE RecoveriesDead'
<1>h. DiskFollows /\ Harmless /\ stale \subseteq stale'
  BY StepIs
<1> USE NoneAssumption DEF Sound, TypeOK, JobType, TableType, DiskType,
                           LoaderType, Moves, DiskFollows, Harmless, Status,
                           Dead, DeadMutation, Honest, RecoveriesDead,
                           Loading, Idle, Reads, job, table, record, past
<1>1. ASSUME NEW j \in Job, NEW r \in Request, Start(j, r) PROVE RecoveriesDead'
  BY <1>1, <1>h, LoaderBusy DEF Start, Duplicate, Follows, Unasked
<1>2. ASSUME NEW j \in Job, StartFails(j) PROVE RecoveriesDead'
  BY <1>2, <1>h, LoaderBusy DEF StartFails
<1>3. ASSUME NEW j \in Job, FirstSave(j) PROVE RecoveriesDead'
  BY <1>3, <1>h, LoaderBusy DEF FirstSave
<1>4. ASSUME NEW j \in Job, Returns(j) PROVE RecoveriesDead'
  BY <1>4, <1>h, LoaderBusy DEF Returns
<1>5. ASSUME NEW j \in Job, Raises(j) PROVE RecoveriesDead'
  BY <1>5, <1>h, LoaderBusy DEF Raises
<1>6. ASSUME NEW j \in Job, Finish(j) PROVE RecoveriesDead'
  BY <1>6, <1>h, LoaderBusy DEF Finish, OutcomeOf
<1>7. ASSUME NEW j \in Job, FinalSave(j) PROVE RecoveriesDead'
  BY <1>7, <1>h, LoaderBusy DEF FinalSave
<1>8. ASSUME NEW l \in Reader, NEW j \in Job, Get(l, j) PROVE RecoveriesDead'
  BY <1>8, <1>h DEF Get
<1>9. ASSUME NEW l \in Loader, Insert(l) PROVE RecoveriesDead'
  BY <1>9, <1>h, LoaderBusy DEF Insert, Follows, Unasked
<1>10. ASSUME NEW l \in Loader, Resolve(l) PROVE RecoveriesDead'
  BY <1>10, <1>h, LoaderBusy DEF Resolve, Interrupted
<1>11. ASSUME NEW l \in Loader, SaveResolved(l) PROVE RecoveriesDead'
  BY <1>11, <1>h, LoaderBusy DEF SaveResolved
<1>12. ASSUME NEW j \in Job, Boot(j) PROVE RecoveriesDead'
  BY <1>12, <1>h DEF Boot, Newest
<1>13. ASSUME NEW j \in Job, SweepTail(j) PROVE RecoveriesDead'
  BY <1>13, <1>h DEF SweepTail, Newest
<1>14. ASSUME Prune PROVE RecoveriesDead'
  BY <1>14, <1>h DEF Prune, Drop, Finished
<1>15. ASSUME ClearDrops PROVE RecoveriesDead'
  BY <1>15, <1>h DEF ClearDrops, Drop, Finished
<1>16. ASSUME Crash PROVE RecoveriesDead'
  BY <1>16, <1>h DEF Crash, Window, Recorded
<1>17. CASE UNCHANGED <<request, thread, own, entry, copy, loader, stale>>
  BY <1>17, <1>h DEF vars, past
<1> QED
  BY <1>1, <1>2, <1>3, <1>4, <1>5, <1>6, <1>7, <1>8, <1>9, <1>10, <1>11,
     <1>12, <1>13, <1>14, <1>15, <1>16, <1>17
  DEF vars, job, table, record, startup, cleared, past, Next, Run, Load, Act,
      Observe, Kill, BeatSees, BeatSaves, ClearLists, ClearDelete

LEMMA RanUntilDeathStep ==
  ASSUME Sound, [Next]_vars PROVE RanUntilDeath'
<1>h. DiskFollows /\ Harmless /\ stale \subseteq stale'
  BY StepIs
<1> USE NoneAssumption DEF Sound, TypeOK, JobType, TableType, DiskType,
                           LoaderType, Moves, DiskFollows, Harmless, Status,
                           Dead, DeadMutation, Follows, Unasked, Mine, Honest,
                           RanUntilDeath, job, table, record, past
<1>1. ASSUME NEW j \in Job, NEW r \in Request, Start(j, r) PROVE RanUntilDeath'
  BY <1>1, <1>h DEF Start, Duplicate
<1>2. ASSUME NEW j \in Job, StartFails(j) PROVE RanUntilDeath'
  BY <1>2, <1>h DEF StartFails
<1>3. ASSUME NEW j \in Job, FirstSave(j) PROVE RanUntilDeath'
  BY <1>3, <1>h DEF FirstSave
<1>4. ASSUME NEW j \in Job, Returns(j) PROVE RanUntilDeath'
  BY <1>4, <1>h DEF Returns
<1>5. ASSUME NEW j \in Job, Raises(j) PROVE RanUntilDeath'
  BY <1>5, <1>h DEF Raises
<1>6. ASSUME NEW j \in Job, Finish(j) PROVE RanUntilDeath'
  BY <1>6, <1>h DEF Finish, OutcomeOf
<1>7. ASSUME NEW j \in Job, FinalSave(j) PROVE RanUntilDeath'
  BY <1>7, <1>h DEF FinalSave
<1>8. ASSUME NEW l \in Loader, Insert(l) PROVE RanUntilDeath'
  BY <1>8, <1>h, LoaderBusy DEF Insert
<1>9. ASSUME NEW l \in Loader, Resolve(l) PROVE RanUntilDeath'
  BY <1>9, <1>h, LoaderBusy DEF Resolve, Interrupted
<1>10. ASSUME NEW j \in Job, SweepTail(j) PROVE RanUntilDeath'
  BY <1>10, <1>h DEF SweepTail, Newest
<1>11. ASSUME Prune PROVE RanUntilDeath'
  BY <1>11, <1>h DEF Prune, Drop, Finished
<1>12. ASSUME ClearDrops PROVE RanUntilDeath'
  BY <1>12, <1>h DEF ClearDrops, Drop, Finished
<1>13. ASSUME Crash PROVE RanUntilDeath'
  BY <1>13, <1>h DEF Crash, Window, Recorded
<1>14. CASE UNCHANGED <<request, thread, entry, copy, stale>>
  BY <1>14, <1>h DEF vars, past
<1> QED
  BY <1>1, <1>2, <1>3, <1>4, <1>5, <1>6, <1>7, <1>8, <1>9, <1>10, <1>11,
     <1>12, <1>13, <1>14
  DEF vars, job, table, record, startup, cleared, past, Next, Run, Load, Act,
      Observe, Kill, BeatSees, BeatSaves, Get, SaveResolved, Boot, ClearLists,
      ClearDelete

LEMMA AtWorkStep ==
  ASSUME Sound, [Next]_vars PROVE AtWork'
<1>h. DiskFollows /\ Harmless /\ stale \subseteq stale'
  BY StepIs
<1> USE NoneAssumption DEF Sound, TypeOK, JobType, TableType, DiskType,
                           LoaderType, Follows, Held, Working, Current, Mine,
                           Unasked, AtWork, DiskFollows, Harmless, Prunable,
                           Terminal, Statuses, Status, Moves, job, table,
                           record, past
<1>1. ASSUME NEW j \in Job, NEW r \in Request, Start(j, r) PROVE AtWork'
  BY <1>1, <1>h DEF Start, Duplicate
<1>2. ASSUME NEW j \in Job, StartFails(j) PROVE AtWork'
  BY <1>2, <1>h DEF StartFails
<1>3. ASSUME NEW j \in Job, FirstSave(j) PROVE AtWork'
  BY <1>3, <1>h DEF FirstSave, Write, Put
<1>4. ASSUME NEW j \in Job, Returns(j) PROVE AtWork'
  BY <1>4, <1>h DEF Returns
<1>5. ASSUME NEW j \in Job, Raises(j) PROVE AtWork'
  BY <1>5, <1>h DEF Raises
<1>6. ASSUME NEW j \in Job, Finish(j) PROVE AtWork'
  BY <1>6, <1>h DEF Finish, OutcomeOf
<1>7. ASSUME NEW j \in Job, FinalSave(j) PROVE AtWork'
  BY <1>7, <1>h DEF FinalSave, Write, Put
<1>8. ASSUME NEW l \in Loader, Insert(l) PROVE AtWork'
  BY <1>8, <1>h, LoaderBusy, ReaderAssumption DEF Insert, Loader
<1>9. ASSUME NEW j \in Job, SweepTail(j) PROVE AtWork'
  BY <1>9, <1>h DEF SweepTail, Newest, Delete
<1>10. ASSUME Prune PROVE AtWork'
  BY <1>10, <1>h DEF Prune, Drop, Finished
<1>11. ASSUME ClearDrops PROVE AtWork'
  BY <1>11, <1>h DEF ClearDrops, Drop, Finished
<1>12. ASSUME Crash PROVE AtWork'
  BY <1>12, <1>h DEF Crash, Window, Recorded
<1>13. CASE UNCHANGED <<thread, own, entry, stale>>
  BY <1>13, <1>h DEF vars, past
<1> QED
  BY <1>1, <1>2, <1>3, <1>4, <1>5, <1>6, <1>7, <1>8, <1>9, <1>10, <1>11,
     <1>12, <1>13
  DEF vars, job, table, record, startup, cleared, past, Next, Run, Load, Act,
      Observe, Kill, BeatSees, BeatSaves, Get, Resolve, SaveResolved, Boot,
      ClearLists, ClearDelete

LEMMA StaleDoneStep ==
  ASSUME Sound, [Next]_vars PROVE StaleDone'
<1> USE NoneAssumption DEF Sound, TypeOK, JobType, TableType, DiskType,
                           LoaderType, HistoryType, Follows, Held, Working,
                           Unasked, Current, AtWork, StaleDone, Prunable,
                           Terminal, Statuses, Status, Moves, job, table,
                           record, past
<1>1. ASSUME NEW j \in Job, NEW r \in Request, Start(j, r) PROVE StaleDone'
  BY <1>1 DEF Start, Duplicate
<1>2. ASSUME NEW j \in Job, StartFails(j) PROVE StaleDone'
  BY <1>2 DEF StartFails
<1>3. ASSUME NEW j \in Job, FirstSave(j) PROVE StaleDone'
  BY <1>3 DEF FirstSave
<1>4. ASSUME NEW j \in Job, Returns(j) PROVE StaleDone'
  BY <1>4 DEF Returns
<1>5. ASSUME NEW j \in Job, Raises(j) PROVE StaleDone'
  BY <1>5 DEF Raises
<1>6. ASSUME NEW j \in Job, Finish(j) PROVE StaleDone'
  BY <1>6 DEF Finish, OutcomeOf
<1>7. ASSUME NEW j \in Job, FinalSave(j) PROVE StaleDone'
  BY <1>7 DEF FinalSave
<1>8. ASSUME NEW l \in Loader, Insert(l) PROVE StaleDone'
  BY <1>8, LoaderBusy, ReaderAssumption DEF Insert, Loader
<1>9. ASSUME NEW j \in Job, SweepTail(j) PROVE StaleDone'
  BY <1>9 DEF SweepTail, Newest
<1>10. ASSUME Crash PROVE StaleDone'
  BY <1>10 DEF Crash, Window, Recorded
<1>11. CASE UNCHANGED <<request, thread, stale>>
  BY <1>11 DEF vars, past
<1> QED
  BY <1>1, <1>2, <1>3, <1>4, <1>5, <1>6, <1>7, <1>8, <1>9, <1>10, <1>11
  DEF vars, job, table, record, startup, cleared, past, Next, Run, Load, Act,
      Observe, Kill, BeatSees, BeatSaves, Get, Resolve, SaveResolved, Boot,
      Prune, ClearLists, ClearDrops, ClearDelete

LEMMA SoundInit == Init => Sound
<1> QED
  BY NoneAssumption, TypeInit
  DEF Init, Sound, Follows, Unasked, Resolving, Mine, HasRead, Held, Working,
      Dropped, Current, Resolved, Honest, SuccessesDone, CancelsSeen,
      RecoveriesDead, RanUntilDeath, AtWork, StaleDone, Loader, Idle, Loading

LEMMA SoundStep == ASSUME Sound, [Next]_vars PROVE Sound'
<1>1. TypeOK'
  BY TypeStep DEF Sound
<1>2. Unasked' /\ Resolving' /\ Held'
  BY UnaskedStep, ResolvingStep, HeldStep DEF Sound, Follows
<1>3. Follows'
  BY <1>2, MineStep, HasReadStep, DroppedStep, CurrentStep, ResolvedStep DEF Follows
<1>4. Honest'
  BY CancelsSeenStep, SuccessesDoneStep, RecoveriesDeadStep, RanUntilDeathStep DEF Honest
<1> QED BY <1>1, <1>3, <1>4, AtWorkStep, StaleDoneStep DEF Sound

LEMMA StaysSound == Spec => []Sound
<1>1. Sound /\ [Next]_vars => Sound'
  BY SoundStep
<1> QED BY <1>1, SoundInit, PTL DEF Spec

(* For any jobs, readers and crashes, whatever is cleared, loaded and      *)
(* swept meanwhile: a record of an ended job never says "running" again,   *)
(* unless the job was loaded from a record that was about to go.           *)
THEOREM EndsStayEnded == Spec => NoStaleRunning
<1>1. Sound /\ [Next]_vars =>
      [\A j \in Job \ stale : disk[j] \in Terminal => disk'[j] # "running"]_vars
  BY StepIs
  DEF Sound, DiskFollows, Follows, Current, Terminal, vars, record
<1> QED BY <1>1, StaysSound, PTL DEF Spec, NoStaleRunning

(* ... a mutating job that died while its record said "running" is         *)
(* recorded as nothing but recovery_required.                              *)
THEOREM InterruptedAreShown == Spec => InterruptedIsShown
<1>1. Sound /\ [Next]_vars =>
      [\A j \in Job \ stale :
         disk[j] = "running" /\ thread[j] = "none" /\ request[j] \notin ReadOnly
             => disk'[j] \in {"running", "recovery_required"}]_vars
  BY StepIs
  DEF Sound, DiskFollows, Deletes, Prunable, Terminal, Follows, Unasked, Mine,
      Dropped, Honest, RanUntilDeath, DeadMutation, Dead, Status
<1> QED BY <1>1, StaysSound, PTL DEF Spec, InterruptedIsShown

(* No step loads a stale object, or deletes, where recovery is required.   *)
LEMMA RecoveryNotStale ==
  ASSUME Sound, [Next]_vars, NEW i \in Job \ stale, disk[i] = "recovery_required"
  PROVE  i \notin stale'
<1> USE DEF Sound, TypeOK, LoaderType
<1>1. ASSUME NEW l \in Loader, Insert(l) PROVE i \notin stale'
  <2>1. loader[l].job = i /\ entry[i] = "none" => loader[l].status = disk[i]
    BY <1>1 DEF Insert, Follows, Resolved
  <2>2. thread[i] = "none" /\ i \notin removed
    BY DEF Follows, Dropped, Honest, RecoveriesDead, DeadMutation, Dead
  <2> QED BY <1>1, <2>1, <2>2 DEF Insert
<1>2. ASSUME NEW j \in Job, SweepTail(j) PROVE i \notin stale'
  BY <1>2 DEF SweepTail, Prunable, Terminal
<1>3. CASE UNCHANGED stale
  BY <1>3
<1> QED
  BY <1>1, <1>2, <1>3
  DEF vars, past, Next, Run, Load, Start, StartFails, FirstSave, Act, Observe,
      Returns, Raises, Finish, FinalSave, Kill, BeatSees, BeatSaves, Get,
      Resolve, SaveResolved, Boot, Prune, ClearLists, ClearDrops, ClearDelete,
      Crash

(* ... a record that says recovery_required goes on saying it, whatever is *)
(* cleared, pruned, swept, loaded or restarted, and its job does not go    *)
(* stale.                                                                  *)
THEOREM RecoveriesAreKept == Spec => RecoveryKept
<1>1. Sound /\ [Next]_vars =>
      [\A j \in Job \ stale : disk[j] = "recovery_required" =>
         disk'[j] = "recovery_required" /\ j \notin stale']_vars
  BY StepIs, RecoveryNotStale
  DEF Sound, DiskFollows, Harmless, Follows, Current, Terminal
<1> QED BY <1>1, StaysSound, PTL DEF Spec, RecoveryKept

(* ... a job whose record was cleared or pruned is never written back.     *)
THEOREM ClearedAreGone == Spec => ClearedStaysCleared
<1>1. Sound /\ [Next]_vars =>
      [\A j \in Job \ stale :
         request[j] # "none" /\ entry[j] # "own" /\ disk[j] = "none" => disk'[j] = "none"]_vars
  BY StepIs
  DEF Sound, DiskFollows, Follows, Current
<1> QED BY <1>1, StaysSound, PTL DEF Spec, ClearedStaysCleared

(* ... a job shown or recorded as a success has done all of its work, a    *)
(* cancelled one had seen the request, and recovery_required means a       *)
(* mutating job whose process died.                                        *)
THEOREM StatusesAreHonest == Spec => []StatusHonest
<1>1. Sound => StatusHonest
  BY DEF Sound, TypeOK, JobType, Honest, StatusHonest, RecoveryMeansInterrupted,
         Status, SuccessesDone, CancelsSeen, RecoveriesDead, DeadMutation, Dead
<1> QED BY <1>1, StaysSound, PTL

-----------------------------------------------------------------------------
(* How a step of the store shows: one phase moves, or some are forgotten.  *)
Shown == [j \in Job |-> Phase(j)]
Shows == Contract!Next \/ UNCHANGED <<Shown, effect>>

LEMMA SameShows == ASSUME \A i \in Job : Phase(i)' = Phase(i), UNCHANGED effect PROVE Shows
<1> QED BY DEF Shows, Shown

LEMMA MoveShows ==
  ASSUME NEW j \in Job, NEW from, Phase(j) \in from, UNCHANGED effect,
         \A i \in Job \ {j} : Phase(i)' = Phase(i)
  PROVE  Contract!Moves(j, from, Phase(j)')
<1> QED BY DEF Contract!Moves

LEMMA ForgetShows ==
  ASSUME UNCHANGED effect,
         \A i \in Job : \/ Phase(i)' = Phase(i)
                        \/ /\ Phase(i)' = "gone"
                           /\ Phase(i) \in {"starting", "running", "success", "failed", "cancelled"}
  PROVE  Shows
<1> DEFINE S == {i \in Job : Phase(i)' # Phase(i)}
<1>1. Contract!Forget(S)
  BY DEF Contract!Forget, Contract!Outcomes
<1> QED BY <1>1 DEF Shows, Contract!Next

(* Whatever writes the record of a job in the table moves it along.        *)
LEMMA WriteShows ==
  ASSUME Sound, NEW j \in Job, entry[j] # "none", Put(j, Status(j)),
         UNCHANGED <<request, entry, effect, stale>>
  PROVE  Shows
<1> USE DEF Sound, TypeOK, JobType, TableType, DiskType, Statuses, Terminal
<1>1. /\ disk' = [disk EXCEPT ![j] = Status(j)] /\ Status(j) \in Statuses
      /\ j \notin stale => Status(j) # "none"
  BY DEF Put, Status, Follows, Current
<1>2. \A i \in Job \ {j} : Phase(i)' = Phase(i)
  BY <1>1 DEF Phase
<1>s. CASE j \in stale
  BY <1>2, <1>s, SameShows DEF Phase
<1>3. j \notin stale => Phase(j)' = Status(j)
  BY <1>1 DEF Phase
<1>4. CASE j \notin stale /\ disk[j] \in Terminal
  BY <1>2, <1>3, <1>4, SameShows DEF Follows, Current, Phase
<1>5. CASE j \notin stale /\ disk[j] = "running"
  <2>1. Phase(j) = "running"
    BY <1>5 DEF Phase
  <2>2. CASE Status(j) = "running"
    BY <1>2, <1>3, <1>5, <2>1, <2>2, SameShows
  <2>3. CASE Status(j) = "success"
    <3>1. effect[j] = "all"
      BY <2>3 DEF Status, Honest, SuccessesDone
    <3>2. Contract!Moves(j, {"running"}, "success")
      BY <1>2, <1>3, <1>5, <2>1, <2>3, MoveShows
    <3> QED BY <3>1, <3>2 DEF Shows, Contract!Next, Contract!Succeed
  <2>4. CASE Status(j) \in {"failed", "cancelled", "recovery_required"}
    <3>1. Contract!Moves(j, {"running"}, Status(j))
      BY <1>2, <1>3, <1>5, <2>1, MoveShows
    <3>2. Contract!EndOtherwise(j)
      BY <2>4, <3>1 DEF Contract!EndOtherwise, Contract!Final, Contract!Outcomes
    <3> QED BY <3>2 DEF Shows, Contract!Next
  <2> QED BY <1>1, <1>5, <2>2, <2>3, <2>4
<1>6. CASE j \notin stale /\ disk[j] = "none"
  <2>1. entry[j] = "own" /\ Phase(j) = "starting"
    BY <1>6, NoneAssumption DEF Follows, Current, Unasked, Phase
  <2>2. Status(j) \in {"running", "failed"}
    BY <1>6, <2>1 DEF AtWork, Follows, Held, Working, Status
  <2>3. CASE Status(j) = "running"
    <3>1. Contract!Moves(j, {"starting"}, "running")
      BY <1>2, <1>3, <1>6, <2>1, <2>3, MoveShows
    <3> QED BY <3>1 DEF Shows, Contract!Next, Contract!Record
  <2>4. CASE Status(j) = "failed"
    <3>1. Contract!Moves(j, {"starting"}, "failed")
      BY <1>2, <1>3, <1>6, <2>1, <2>4, MoveShows
    <3> QED BY <3>1 DEF Shows, Contract!Next, Contract!NotStarted
  <2> QED BY <2>2, <2>3, <2>4
<1> QED BY <1>1, <1>s, <1>4, <1>5, <1>6

(* Whatever takes objects out of the table forgets what was not recorded.  *)
LEMMA DropShows ==
  ASSUME UNCHANGED <<request, effect, disk, stale>>, \A i \in Job : entry'[i] \in {entry[i], "none"}
  PROVE  Shows
<1> QED BY ForgetShows DEF Phase

(* A job takes no effect but under a record that says running.             *)
LEMMA WorkShows ==
  ASSUME Sound, NEW j \in Job, thread[j] = "work", UNCHANGED <<request, entry, disk, stale>>,
         effect' = [effect EXCEPT ![j] = IF @ = "none" THEN "some" ELSE "all"]
  PROVE  Shows
<1>1. \A i \in Job : Phase(i)' = Phase(i)
  BY DEF Phase
<1>2. Phase(j) = "running"
  BY DEF Sound, AtWork, StaleDone, Working, Phase, TypeOK, JobType
<1>3. Contract!Work(j)
  BY <1>1, <1>2 DEF Contract!Work
<1> QED BY <1>3 DEF Shows, Contract!Next

LEMMA RunShows == ASSUME Sound, NEW j \in Job, Run(j) PROVE Shows
<1> USE DEF table, record, past
<1>1. CASE StartFails(j)
  BY <1>1, SameShows DEF StartFails, Phase
<1>2. CASE FirstSave(j)
  <2>1. entry[j] = "own"
    BY <1>2 DEF FirstSave, Moves, Sound, Follows, Held, Working
  <2> QED BY <1>2, <2>1, WriteShows DEF FirstSave, Write
<1>3. CASE Act(j)
  BY <1>3, WorkShows DEF Act
<1>4. CASE Observe(j)
  BY <1>4, SameShows DEF Observe, Phase
<1>5. CASE Returns(j)
  BY <1>5, WorkShows DEF Returns, Moves
<1>6. CASE Raises(j)
  BY <1>6, SameShows DEF Raises, Phase
<1>7. CASE Finish(j)
  BY <1>7, SameShows DEF Finish, Phase
<1>8. CASE FinalSave(j)
  <2>1. CASE entry[j] = "own"
    BY <1>8, <2>1, WriteShows DEF FinalSave, Write
  <2>2. CASE entry[j] # "own"
    BY <1>8, <2>2, SameShows DEF FinalSave, Write, Phase
  <2> QED BY <2>1, <2>2
<1> QED BY <1>1, <1>2, <1>3, <1>4, <1>5, <1>6, <1>7, <1>8 DEF Run

(* A job that has left no trace, or has to be recovered, does not stray.   *)
LEMMA StrayShows ==
  ASSUME Sound, [Next]_vars, NEW j \in Job \ stale, stale' = stale \cup {j},
         UNCHANGED <<request, effect>>,
         \A i \in Job \ {j} : disk'[i] = disk[i] /\ entry'[i] = entry[i],
         disk[j] # "none" \/ entry[j] = "none", request[j] # "none"
  PROVE  Shows
<1>1. \A i \in Job \ {j} : Phase(i)' = Phase(i)
  BY DEF Phase
<1>2. Phase(j)' = "astray"
  BY DEF Phase
<1>3. Phase(j) \in {"running", "gone", "success", "failed", "cancelled"}
  BY RecoveryNotStale DEF Sound, TypeOK, DiskType, Statuses, Terminal, Phase
<1>4. Contract!Moves(j, {"running", "gone"} \cup Contract!Outcomes, "astray")
  BY <1>1, <1>2, <1>3 DEF Contract!Moves, Contract!Outcomes
<1> QED BY <1>4 DEF Shows, Contract!Next, Contract!Stray

LEMMA LoadShows == ASSUME Sound, [Next]_vars, NEW l \in Loader, Load(l) PROVE Shows
<1> USE LoaderBusy, ReaderAssumption DEF Sound, Loader, job, table, record, past
<1>1. CASE Insert(l)
  <2> DEFINE j == loader[l].job
  <2>1. j \in Job /\ loader[l].status # "none" /\ request[j] # "none"
    BY <1>1 DEF Insert, Follows, HasRead, Unasked
  <2>2. \A i \in Job \ {j} : disk'[i] = disk[i] /\ entry'[i] = entry[i]
    BY <1>1 DEF Insert, TypeOK, TableType
  <2>3. CASE stale' = stale
    <3>1. entry[j] = "none" => j \in stale \/ disk[j] # "none"
      BY <1>1, <2>1, <2>3 DEF Insert
    <3>2. \A i \in Job : Phase(i)' = Phase(i)
      BY <1>1, <2>1, <2>2, <2>3, <3>1 DEF Insert, Phase, TypeOK, TableType
    <3> QED BY <1>1, <3>2, SameShows DEF Insert
  <2>4. CASE j \notin stale /\ stale' = stale \cup {j}
    <3>1. entry[j] = "none"
      BY <1>1, <2>4 DEF Insert
    <3> QED BY <1>1, <2>1, <2>2, <2>4, <3>1, StrayShows DEF Insert
  <2> QED BY <1>1, <2>3, <2>4 DEF Insert
<1>2. CASE Resolve(l)
  BY <1>2, SameShows DEF Resolve, Phase
<1>3. CASE SaveResolved(l)
  <2>1. loader[l].job \in Job /\ Write(loader[l].job, l)
    BY <1>3 DEF SaveResolved
  <2>2. CASE entry[loader[l].job] = l
    BY <1>3, <2>1, <2>2, WriteShows DEF SaveResolved, Write
  <2>3. CASE entry[loader[l].job] # l
    BY <1>3, <2>1, <2>3, SameShows DEF SaveResolved, Write, Phase
  <2> QED BY <2>2, <2>3
<1> QED BY <1>1, <1>2, <1>3 DEF Load

LEMMA StartShows ==
  ASSUME Sound, NEW j \in Job, NEW r \in Request, Start(j, r) PROVE Shows
<1> USE NoneAssumption DEF Sound, Follows, Unasked, StaleDone, TypeOK, JobType,
        TableType, record, past
<1>1. Phase(j) = "unknown" /\ Phase(j)' = "starting"
  BY DEF Start, Phase
<1>2. \A i \in Job \ {j} : Phase(i)' = Phase(i)
  BY DEF Start, Phase
<1>3. Contract!Moves(j, {"unknown"}, "starting")
  BY <1>1, <1>2, MoveShows DEF Start
<1> QED BY <1>3 DEF Shows, Contract!Next, Contract!Ask

LEMMA DeleteShows ==
  ASSUME Sound, NEW j \in Job, Delete(j), entry[j] = "none",
         disk[j] # "recovery_required", request[j] # "none",
         UNCHANGED <<request, effect, entry, stale>>
  PROVE  Shows
<1>1. disk' = [disk EXCEPT ![j] = "none"] /\ disk[j] \in Statuses
  BY DEF Delete, Sound, TypeOK, DiskType
<1>2. \A i \in Job \ {j} : Phase(i)' = Phase(i)
  BY <1>1 DEF Phase
<1>s. CASE j \in stale
  BY <1>2, <1>s, SameShows DEF Phase
<1>3. j \notin stale => Phase(j)' = "gone"
  BY <1>1 DEF Phase, Sound, TypeOK, DiskType
<1>4. j \notin stale => Phase(j) \in {"gone", "running", "success", "failed", "cancelled"}
  BY <1>1 DEF Phase, Statuses, Terminal
<1> QED BY <1>2, <1>s, <1>3, <1>4, ForgetShows

LEMMA StepShows == ASSUME Sound, [Next]_vars PROVE Shows
<1>h. Harmless
  BY StepIs
<1> USE DEF job, table, record, cleared, past
<1>1. ASSUME NEW j \in Job, NEW r \in Request, Start(j, r) PROVE Shows
  BY <1>1, StartShows
<1>2. ASSUME NEW l \in Reader, NEW j \in Job, Get(l, j) PROVE Shows
  BY <1>2, SameShows DEF Get, Phase
<1>3. ASSUME NEW j \in Job, Boot(j) PROVE Shows
  BY <1>3, SameShows DEF Boot, Phase
<1>4. ASSUME NEW j \in Job, SweepTail(j) PROVE Shows
  <2>1. CASE UNCHANGED <<record, stale>>
    BY <1>4, <2>1, SameShows DEF SweepTail, Phase
  <2>2. CASE disk[j] \in Prunable /\ Delete(j) /\ stale' = stale /\ (entry[j] = "none" \/ j \in stale)
    <3>1. request[j] # "none" /\ disk[j] # "recovery_required"
      BY <2>2 DEF Sound, Follows, Unasked, Prunable, Terminal
    <3>2. CASE entry[j] = "none"
      BY <1>4, <2>2, <3>1, <3>2, DeleteShows DEF SweepTail
    <3>3. CASE j \in stale
      BY <1>4, <2>2, <3>3, SameShows DEF SweepTail, Delete, Phase, Sound, TypeOK, DiskType
    <3> QED BY <2>2, <3>2, <3>3
  <2>3. CASE disk[j] \in Prunable /\ Delete(j) /\ j \notin stale /\ stale' = stale \cup {j}
    <3>1. request[j] # "none" /\ disk[j] # "none"
      BY <2>3 DEF Sound, Follows, Unasked, Prunable, Terminal
    <3>2. \A i \in Job \ {j} : disk'[i] = disk[i]
      BY <2>3 DEF Delete, Sound, TypeOK, DiskType
    <3> QED BY <1>4, <2>3, <3>1, <3>2, StrayShows DEF SweepTail
  <2> QED BY <1>4, <2>1, <2>2, <2>3 DEF SweepTail
<1>5. ASSUME NEW j \in Job, Run(j) PROVE Shows
  BY <1>5, RunShows
<1>6. ASSUME NEW j \in Job, Kill(j) PROVE Shows
  BY <1>6, WriteShows DEF Kill, Write
<1>7. ASSUME NEW j \in Job, BeatSees(j) PROVE Shows
  BY <1>7, SameShows DEF BeatSees, Phase
<1>8. ASSUME NEW j \in Job, ClearDelete(j) PROVE Shows
  <2>1. Deletes(j) /\ request[j] # "none"
    BY <1>8 DEF ClearDelete, Deletes, Sound, Follows, Unasked
  <2>2. CASE j \in stale
    BY <1>8, <2>2, SameShows DEF ClearDelete, Delete, Phase, Sound, TypeOK, DiskType
  <2>3. CASE j \notin stale
    BY <1>8, <1>h, <2>1, <2>3, DeleteShows DEF ClearDelete, Harmless
  <2> QED BY <2>2, <2>3
<1>9. ASSUME NEW l \in Loader, Load(l) PROVE Shows
  BY <1>9, LoadShows
<1>10. ASSUME BeatSaves PROVE Shows
  <2>1. beat.job \in Job /\ beat.object # "none" /\ Write(beat.job, beat.object)
    BY <1>10, ReaderAssumption DEF BeatSaves, Loader, Sound, TypeOK, OtherType
  <2>2. CASE entry[beat.job] = beat.object
    BY <1>10, <2>1, <2>2, WriteShows DEF BeatSaves, Write
  <2>3. CASE entry[beat.job] # beat.object
    BY <1>10, <2>1, <2>3, SameShows DEF BeatSaves, Write, Phase
  <2> QED BY <2>2, <2>3
<1>11. ASSUME Prune PROVE Shows
  BY <1>11, DropShows DEF Prune, Drop
<1>12. ASSUME ClearLists PROVE Shows
  BY <1>12, SameShows DEF ClearLists, Phase
<1>13. ASSUME ClearDrops PROVE Shows
  BY <1>13, DropShows DEF ClearDrops, Drop
<1>14. ASSUME Crash PROVE Shows
  BY <1>14, DropShows DEF Crash
<1>15. CASE UNCHANGED vars
  BY <1>15, SameShows DEF vars, Phase
<1> QED
  BY <1>1, <1>2, <1>3, <1>4, <1>5, <1>6, <1>7, <1>8, <1>9, <1>10, <1>11, <1>12,
     <1>13, <1>14, <1>15
  DEF Next

(* For any jobs, readers, clears and crashes, the store keeps the contract *)
(* of its records: work is done under a record that says running, an       *)
(* outcome is written once, a success after all of the work, what is gone  *)
(* never comes back, and only a job that was cleared, or that ended        *)
(* without its record, can be led astray by a load.                        *)
THEOREM RecordsKeepContract == Spec => RecordSpec
<1>1. Init => Contract!Init
  BY NoneAssumption DEF Init, Contract!Init, Phase
<1>2. Sound /\ [Next]_vars => Contract!Next \/ UNCHANGED <<Shown, effect>>
  BY StepShows DEF Shows
<1> QED BY <1>1, <1>2, StaysSound, PTL DEF Spec, RecordSpec, Contract!Spec, Shown

-----------------------------------------------------------------------------
(* The keys.  A job whose record a start has not loaded, or that was taken *)
(* out of the table, is lapsed; the records of the others stay, are in the *)
(* table or about to be while the store is not serving, and share no key.  *)
LapsedFirst ==
    /\ tail \subseteq lapsed
    /\ \A j \in removed \ lapsed : locked /\ j \in Finished
Named == \A j \in Job : entry[j] # "none" => Status(j) # "none"
BootReads(j) == loader["boot"].at = "insert" /\ loader["boot"].job = j
Known ==
    \A j \in Job \ lapsed : disk[j] # "none" => entry[j] # "none" \/ j \in todo \/ BootReads(j)
ReadsOnly ==
    \A l \in Loader : loader[l].at = "insert" =>
        loader[l].job \in lapsed \/ disk[loader[l].job] # "none"
Saved == \A j \in Job \ lapsed : effect[j] # "none" \/ thread[j] = "work" => disk[j] # "none"
Present(j) == disk[j] # "none" \/ entry[j] # "none"
OneOfKey == \A i, j \in Job \ lapsed : Present(i) /\ Present(j) => ~OneKey(i, j)
Keys == Sound /\ LapsedFirst /\ Named /\ Known /\ ReadsOnly /\ Saved /\ OneOfKey

(* No record of a job that has not lapsed disappears, and only a job in    *)
(* the table gets one; a job stays lapsed.                                 *)
RecordsKept ==
    /\ \A j \in Job \ lapsed' :
         /\ disk[j] # "none" => disk'[j] # "none"
         /\ disk'[j] # "none" => Present(j)
    /\ lapsed \subseteq lapsed'
LEMMA RecordsStay == ASSUME Keys, [Next]_vars PROVE RecordsKept
<1>1. lapsed \subseteq lapsed'
  <2>1. CASE UNCHANGED lapsed
    BY <2>1
  <2>2. CASE Prune \/ ClearDrops \/ Crash
    BY <2>2 DEF Prune, ClearDrops, Crash, Drop
  <2> QED
    BY <2>1, <2>2
    DEF vars, past, Next, Run, Load, Start, StartFails, FirstSave, Act,
        Observe, Returns, Raises, Finish, FinalSave, Kill, BeatSees,
        BeatSaves, Get, Insert, Resolve, SaveResolved, Boot, SweepTail,
        ClearLists, ClearDelete
<1> USE NoneAssumption DEF Keys, Sound, TypeOK, TableType, DiskType, OtherType,
        Named, Write, Put, Delete, Others, Status, record, RecordsKept, Present
<1>2. ASSUME NEW j \in Job, FirstSave(j) PROVE RecordsKept
  BY <1>1, <1>2 DEF FirstSave
<1>3. ASSUME NEW j \in Job, FinalSave(j) PROVE RecordsKept
  BY <1>1, <1>3 DEF FinalSave
<1>4. ASSUME NEW j \in Job, Kill(j) PROVE RecordsKept
  BY <1>1, <1>4 DEF Kill
<1>5. ASSUME BeatSaves PROVE RecordsKept
  <2>1. beat.job \in Job /\ beat.object # "none"
    BY <1>5, ReaderAssumption DEF BeatSaves, Loader
  <2>2. Write(beat.job, beat.object)
    BY <1>5 DEF BeatSaves
  <2> QED BY <1>1, <2>1, <2>2
<1>6. ASSUME NEW l \in Loader, SaveResolved(l) PROVE RecordsKept
  <2>1. loader[l].job \in Job /\ l # "none"
    BY <1>6, LoaderBusy, ReaderAssumption DEF SaveResolved, Loader
  <2>2. Write(loader[l].job, l)
    BY <1>6 DEF SaveResolved
  <2> QED BY <1>1, <2>1, <2>2
<1>7. ASSUME NEW j \in Job, SweepTail(j) PROVE RecordsKept
  BY <1>1, <1>7 DEF SweepTail, Newest, LapsedFirst
<1>8. ASSUME NEW j \in Job, ClearDelete(j) PROVE RecordsKept
  BY <1>1, <1>8 DEF ClearDelete, LapsedFirst, cleared, past
<1>9. CASE UNCHANGED disk
  BY <1>1, <1>9
<1> QED
  BY <1>2, <1>3, <1>4, <1>5, <1>6, <1>7, <1>8, <1>9
  DEF vars, table, startup, cleared, past, Next, Run, Load, Start, StartFails,
      Act, Observe, Returns, Raises, Finish, BeatSees, Get, Insert, Resolve,
      Boot, Prune, ClearLists, ClearDrops, Crash

LEMMA LapsedFirstStep ==
  ASSUME Keys, [Next]_vars PROVE LapsedFirst'
<1> USE NoneAssumption DEF Keys, Sound, TypeOK, JobType, TableType, OtherType,
                           LapsedFirst, Follows, Resolving, Held, Working,
                           Finished, Status, Prunable, Terminal, Moves, job,
                           table, startup, cleared, past
<1>1. ASSUME NEW j \in Job, NEW r \in Request, Start(j, r) PROVE LapsedFirst'
  BY <1>1 DEF Start, Duplicate
<1>2. ASSUME NEW j \in Job, StartFails(j) PROVE LapsedFirst'
  BY <1>2 DEF StartFails
<1>3. ASSUME NEW j \in Job, Finish(j) PROVE LapsedFirst'
  BY <1>3 DEF Finish, OutcomeOf
<1>4. ASSUME NEW l \in Loader, Insert(l) PROVE LapsedFirst'
  BY <1>4 DEF Insert
<1>5. ASSUME NEW l \in Loader, Resolve(l) PROVE LapsedFirst'
  BY <1>5, LoaderBusy, ReaderAssumption DEF Resolve, Interrupted, Loader
<1>6. ASSUME NEW j \in Job, Boot(j) PROVE LapsedFirst'
  BY <1>6 DEF Boot, Newest
<1>7. ASSUME NEW j \in Job, SweepTail(j) PROVE LapsedFirst'
  BY <1>7 DEF SweepTail, Newest
<1>8. ASSUME Prune PROVE LapsedFirst'
  BY <1>8 DEF Prune, Drop, Finished
<1>9. ASSUME ClearLists PROVE LapsedFirst'
  BY <1>9 DEF ClearLists, Finished
<1>10. ASSUME ClearDrops PROVE LapsedFirst'
  BY <1>10 DEF ClearDrops, Drop, Finished
<1>11. ASSUME NEW j \in Job, ClearDelete(j) PROVE LapsedFirst'
  BY <1>11 DEF ClearDelete
<1>12. ASSUME Crash PROVE LapsedFirst'
  BY <1>12 DEF Crash, Window, Recorded
<1>13. CASE UNCHANGED <<own, entry, copy, tail, removed, locked, lapsed>>
  BY <1>13 DEF vars, past
<1> QED
  BY <1>1, <1>2, <1>3, <1>4, <1>5, <1>6, <1>7, <1>8, <1>9, <1>10, <1>11,
     <1>12, <1>13
  DEF vars, job, table, record, startup, cleared, past, Next, Run, Load,
      FirstSave, Act, Observe, Returns, Raises, FinalSave, Kill, BeatSees,
      BeatSaves, Get, SaveResolved

LEMMA NamedStep ==
  ASSUME Keys, [Next]_vars PROVE Named'
<1> USE NoneAssumption DEF Keys, Sound, TypeOK, JobType, TableType,
                           LoaderType, Follows, HasRead, Named, Status, Moves,
                           job, table
<1>1. ASSUME NEW j \in Job, NEW r \in Request, Start(j, r) PROVE Named'
  BY <1>1 DEF Start, Duplicate
<1>2. ASSUME NEW j \in Job, StartFails(j) PROVE Named'
  BY <1>2 DEF StartFails
<1>3. ASSUME NEW j \in Job, Finish(j) PROVE Named'
  BY <1>3 DEF Finish, OutcomeOf
<1>4. ASSUME NEW l \in Loader, Insert(l) PROVE Named'
  BY <1>4, LoaderBusy, ReaderAssumption DEF Insert, Loader
<1>5. ASSUME NEW l \in Loader, Resolve(l) PROVE Named'
  BY <1>5, LoaderBusy DEF Resolve, Interrupted
<1>6. ASSUME Prune PROVE Named'
  BY <1>6 DEF Prune, Drop, Finished
<1>7. ASSUME ClearDrops PROVE Named'
  BY <1>7 DEF ClearDrops, Drop, Finished
<1>8. ASSUME Crash PROVE Named'
  BY <1>8 DEF Crash, Window, Recorded
<1>9. CASE UNCHANGED <<own, entry, copy>>
  BY <1>9 DEF vars, past
<1> QED
  BY <1>1, <1>2, <1>3, <1>4, <1>5, <1>6, <1>7, <1>8, <1>9
  DEF vars, job, table, record, startup, cleared, past, Next, Run, Load,
      FirstSave, Act, Observe, Returns, Raises, FinalSave, Kill, BeatSees,
      BeatSaves, Get, SaveResolved, Boot, SweepTail, ClearLists, ClearDelete

LEMMA KnownStep ==
  ASSUME Keys, [Next]_vars PROVE Known'
<1>h. RecordsKept
  BY RecordsStay
<1> USE NoneAssumption DEF Keys, Sound, TypeOK, JobType, TableType,
                           RecordsKept, LoaderType, DiskType, OtherType,
                           Known, BootReads, Present, Loader, Loading, Idle,
                           Reads, table, record, startup, past
<1>1. ASSUME NEW j \in Job, NEW r \in Request, Start(j, r) PROVE Known'
  BY <1>1, <1>h DEF Start, Duplicate
<1>2. ASSUME NEW l \in Reader, NEW j \in Job, Get(l, j) PROVE Known'
  BY <1>2, <1>h DEF Get
<1>3. ASSUME NEW l \in Loader, Insert(l) PROVE Known'
  BY <1>3, <1>h DEF Insert
<1>4. ASSUME NEW l \in Loader, Resolve(l) PROVE Known'
  BY <1>4, <1>h DEF Resolve, Interrupted
<1>5. ASSUME NEW l \in Loader, SaveResolved(l) PROVE Known'
  BY <1>5, <1>h DEF SaveResolved
<1>6. ASSUME NEW j \in Job, Boot(j) PROVE Known'
  BY <1>6, <1>h DEF Boot, Newest
<1>7. ASSUME NEW j \in Job, SweepTail(j) PROVE Known'
  BY <1>7, <1>h DEF SweepTail, Newest
<1>8. ASSUME Prune PROVE Known'
  BY <1>8, <1>h DEF Prune, Drop, Finished
<1>9. ASSUME ClearDrops PROVE Known'
  BY <1>9, <1>h DEF ClearDrops, Drop, Finished
<1>10. ASSUME Crash PROVE Known'
  BY <1>10, <1>h DEF Crash, Window, Recorded
<1>11. CASE UNCHANGED <<entry, todo, loader, lapsed>>
  BY <1>11, <1>h DEF vars, past
<1> QED
  BY <1>1, <1>2, <1>3, <1>4, <1>5, <1>6, <1>7, <1>8, <1>9, <1>10, <1>11
  DEF vars, job, table, record, startup, cleared, past, Next, Run, Load,
      StartFails, FirstSave, Act, Observe, Returns, Raises, Finish, FinalSave,
      Kill, BeatSees, BeatSaves, ClearLists, ClearDelete

LEMMA ReadsOnlyStep ==
  ASSUME Keys, [Next]_vars PROVE ReadsOnly'
<1>h. RecordsKept
  BY RecordsStay
<1> USE NoneAssumption DEF Keys, Sound, TypeOK, JobType, TableType,
                           RecordsKept, LoaderType, OtherType, LapsedFirst,
                           Known, BootReads, ReadsOnly, Loading, Idle, Reads,
                           record, startup, past
<1>1. ASSUME NEW l \in Reader, NEW j \in Job, Get(l, j) PROVE ReadsOnly'
  BY <1>1, <1>h DEF Get
<1>2. ASSUME NEW l \in Loader, Insert(l) PROVE ReadsOnly'
  BY <1>2, <1>h DEF Insert
<1>3. ASSUME NEW l \in Loader, Resolve(l) PROVE ReadsOnly'
  BY <1>3, <1>h DEF Resolve, Interrupted
<1>4. ASSUME NEW l \in Loader, SaveResolved(l) PROVE ReadsOnly'
  BY <1>4, <1>h DEF SaveResolved
<1>5. ASSUME NEW j \in Job, Boot(j) PROVE ReadsOnly'
  BY <1>5, <1>h DEF Boot, Newest
<1>6. ASSUME NEW j \in Job, SweepTail(j) PROVE ReadsOnly'
  BY <1>6, <1>h DEF SweepTail, Newest
<1>7. ASSUME Prune PROVE ReadsOnly'
  BY <1>7, <1>h DEF Prune, Drop, Finished
<1>8. ASSUME ClearDrops PROVE ReadsOnly'
  BY <1>8, <1>h DEF ClearDrops, Drop, Finished
<1>9. ASSUME Crash PROVE ReadsOnly'
  BY <1>9, <1>h DEF Crash, Window, Recorded
<1>10. CASE UNCHANGED <<loader, lapsed>>
  BY <1>10, <1>h DEF vars, past
<1> QED
  BY <1>1, <1>2, <1>3, <1>4, <1>5, <1>6, <1>7, <1>8, <1>9, <1>10
  DEF vars, job, table, record, startup, cleared, past, Next, Run, Load,
      Start, StartFails, FirstSave, Act, Observe, Returns, Raises, Finish,
      FinalSave, Kill, BeatSees, BeatSaves, ClearLists, ClearDelete

LEMMA SavedStep ==
  ASSUME Keys, [Next]_vars PROVE Saved'
<1>h. RecordsKept
  BY RecordsStay
<1> USE NoneAssumption DEF Keys, Sound, TypeOK, JobType, TableType,
                           RecordsKept, DiskType, Follows, Saved, Moves, job,
                           past
<1>1. ASSUME NEW j \in Job, NEW r \in Request, Start(j, r) PROVE Saved'
  BY <1>1, <1>h DEF Start, Duplicate
<1>2. ASSUME NEW j \in Job, StartFails(j) PROVE Saved'
  BY <1>2, <1>h DEF StartFails
<1>3. ASSUME NEW j \in Job, FirstSave(j) PROVE Saved'
  <2>1. Write(j, "own") /\ Working(j)
    BY <1>3 DEF FirstSave, Moves, Working
  <2>2. disk'[j] # "none"
    BY <2>1 DEF Held, Write, Put, Status
  <2> QED BY <1>3, <2>2, <1>h DEF FirstSave
<1>4. ASSUME NEW j \in Job, Act(j) PROVE Saved'
  BY <1>4, <1>h DEF Act
<1>5. ASSUME NEW j \in Job, Returns(j) PROVE Saved'
  BY <1>5, <1>h DEF Returns
<1>6. ASSUME NEW j \in Job, Raises(j) PROVE Saved'
  BY <1>6, <1>h DEF Raises
<1>7. ASSUME NEW j \in Job, Finish(j) PROVE Saved'
  BY <1>7, <1>h DEF Finish, OutcomeOf
<1>8. ASSUME NEW j \in Job, FinalSave(j) PROVE Saved'
  BY <1>8, <1>h DEF FinalSave
<1>9. ASSUME Prune PROVE Saved'
  BY <1>9, <1>h DEF Prune, Drop, Finished
<1>10. ASSUME ClearDrops PROVE Saved'
  BY <1>10, <1>h DEF ClearDrops, Drop, Finished
<1>11. ASSUME Crash PROVE Saved'
  BY <1>11, <1>h DEF Crash, Window, Recorded
<1>12. CASE UNCHANGED <<effect, thread, lapsed>>
  BY <1>12, <1>h DEF vars, past
<1> QED
  BY <1>1, <1>2, <1>3, <1>4, <1>5, <1>6, <1>7, <1>8, <1>9, <1>10, <1>11, <1>12
  DEF vars, job, table, record, startup, cleared, past, Next, Run, Load,
      Observe, Kill, BeatSees, BeatSaves, Get, Insert, Resolve, SaveResolved,
      Boot, SweepTail, ClearLists, ClearDelete

LEMMA OneOfKeyStep ==
  ASSUME Keys, [Next]_vars PROVE OneOfKey'
<1>h. RecordsKept
  BY RecordsStay
<1> USE NoneAssumption DEF Keys, Sound, TypeOK, JobType, TableType,
                           RecordsKept, DiskType, Known, OneOfKey, OneKey,
                           Present, job, record, past
<1>1. ASSUME NEW j \in Job, NEW r \in Request, Start(j, r) PROVE OneOfKey'
  <2>1. \A i \in Job \ lapsed : Present(i) => entry[i] # "none"
    BY <1>1 DEF Start, Serving, BootReads, Idle, Loading
  <2>2. \A i \in Job \ lapsed : Present(i) /\ request[i] \in Keyed => request[i] # r
    BY <1>1, <2>1 DEF Start, Duplicate
  <2>3. \A i \in Job : i # j => request'[i] = request[i] /\ entry'[i] = entry[i]
    BY <1>1 DEF Start
  <2>4. request'[j] = r /\ UNCHANGED <<disk, lapsed>>
    BY <1>1 DEF Start
  <2> QED BY <2>2, <2>3, <2>4
<1>2. ASSUME NEW l \in Loader, Insert(l) PROVE OneOfKey'
  BY <1>2, <1>h, LoaderBusy DEF Insert, ReadsOnly
<1>3. ASSUME Prune PROVE OneOfKey'
  BY <1>3, <1>h DEF Prune, Drop, Finished
<1>4. ASSUME ClearDrops PROVE OneOfKey'
  BY <1>4, <1>h DEF ClearDrops, Drop, Finished
<1>5. ASSUME Crash PROVE OneOfKey'
  BY <1>5, <1>h DEF Crash, Window, Recorded
<1>6. CASE UNCHANGED <<request, entry, lapsed>>
  BY <1>6, <1>h DEF vars, past
<1> QED
  BY <1>1, <1>2, <1>3, <1>4, <1>5, <1>6
  DEF vars, job, table, record, startup, cleared, past, Next, Run, Load,
      StartFails, FirstSave, Act, Observe, Returns, Raises, Finish, FinalSave,
      Kill, BeatSees, BeatSaves, Get, Resolve, SaveResolved, Boot, SweepTail,
      ClearLists, ClearDelete

(* For any jobs, readers, clears, crashes and any startup window: one      *)
(* Idempotency-Key changes the library through one job at most, as long as *)
(* every start has loaded that job's record and no clear or prune has      *)
(* taken the job out of the table.                                         *)
THEOREM KeysStartOnce == Spec => []EffectOncePerKey
<1>1. Init => Keys
  BY NoneAssumption, SoundInit
  DEF Init, Keys, LapsedFirst, Named, Known, ReadsOnly, Saved, OneOfKey, Present,
      Loader, Idle, Loading
<1>2. Keys /\ [Next]_vars => Keys'
  BY SoundStep, LapsedFirstStep, NamedStep, KnownStep, ReadsOnlyStep, SavedStep, OneOfKeyStep DEF Keys
<1>3. Keys => EffectOncePerKey
  BY DEF Keys, EffectOncePerKey, Saved, OneOfKey, Present
<1> QED BY <1>1, <1>2, <1>3, PTL DEF Spec
=============================================================================
