------------------------ MODULE RecoveryCarrierProofs ------------------------
(* Proofs about RecoveryCarrier: for any number of imports, downloads,     *)
(* preflights and faults.                                                  *)
EXTENDS RecoveryCarrier, TLAPS

(* The row, the album, the jobs and the bounds keep their types.           *)
LEMMA TypeInit == Init => TypeOK
<1> SUFFICES ASSUME Init PROVE TypeOK
  OBVIOUS
<1>1. pc \in [Import -> {"idle", "queued", "runs", "loaded", "tail", "plex", "done"} \cup Claimed]
  BY DEF Init
<1>2. count \in [{"download", "scan", "fault"} -> Nat]
  BY DEF Init
<1> QED BY <1>1, <1>2 DEF Init, TypeOK

LEMMA TypeStep == TypeOK /\ [Next]_vars => TypeOK'
<1> SUFFICES ASSUME TypeOK, [Next]_vars PROVE TypeOK'
  OBVIOUS
<1> USE NoneAssumption DEF TypeOK, row, jobs, others, ADVANCER_STATES,
     NO_DOWNGRADE, Claimed
<1>1. ASSUME Begin PROVE TypeOK'
  BY <1>1 DEF Begin, Counts, Write
<1>2. ASSUME Resume PROVE TypeOK'
  BY <1>2 DEF Resume, Blind, Counts, Write
<1>3. ASSUME Land PROVE TypeOK'
  BY <1>3 DEF Land, Advance, Blind, Counts, Write, Live
<1>4. ASSUME Stage PROVE TypeOK'
  BY <1>4 DEF Stage, Advance, Blind, Counts, Write, Live
<1>5. ASSUME Fail PROVE TypeOK'
  BY <1>5 DEF Fail
<1>6. ASSUME FinishWithoutImport PROVE TypeOK'
  <2>1. CASE Advance("review_required", "")
    BY <1>6, <2>1 DEF FinishWithoutImport, Advance, Blind, Counts, Write, Live
  <2>2. CASE Advance("failed", "")
    BY <1>6, <2>2 DEF FinishWithoutImport, Advance, Blind, Counts, Write, Live
  <2> QED BY <1>6, <2>1, <2>2 DEF FinishWithoutImport
<1>7. ASSUME LeaveStaged PROVE TypeOK'
  BY <1>7 DEF LeaveStaged
<1>8. ASSUME NoteImport PROVE TypeOK'
  BY <1>8 DEF NoteImport, Touch
<1>9. ASSUME StopWaiting PROVE TypeOK'
  BY <1>9 DEF StopWaiting
<1>10. ASSUME SweepFinds PROVE TypeOK'
  BY <1>10 DEF SweepFinds
<1>11. ASSUME SweepEvaluates PROVE TypeOK'
  BY <1>11 DEF SweepEvaluates
<1>12. ASSUME SweepProves PROVE TypeOK'
  BY <1>12 DEF SweepProves, Evidence, Swap, Write
<1>13. ASSUME SweepAttaches PROVE TypeOK'
  BY <1>13 DEF SweepAttaches, Touch
<1>14. ASSUME SweepReads PROVE TypeOK'
  BY <1>14 DEF SweepReads
<1>15. ASSUME SweepKeeps PROVE TypeOK'
  BY <1>15 DEF SweepKeeps, Swap, Write
<1>16. ASSUME ScanReads PROVE TypeOK'
  BY <1>16 DEF ScanReads, Counts
<1>17. ASSUME ScanRecords PROVE TypeOK'
  BY <1>17 DEF ScanRecords, Evidence, Swap, Write
<1>18. ASSUME Crash PROVE TypeOK'
  BY <1>18 DEF Crash, Counts, Live
<1>19. ASSUME NEW i \in Import, StartImport(i) PROVE TypeOK'
  BY <1>19 DEF StartImport
<1>20. ASSUME NEW i \in Import, Confirm(i), UNCHANGED <<row, onAlbum, others, count>> PROVE TypeOK'
  BY <1>20 DEF Confirm
<1>21. ASSUME NEW i \in Import, TakeSlot(i) PROVE TypeOK'
  BY <1>21 DEF TakeSlot, Goes, Rebind, Touch
<1>22. ASSUME NEW i \in Import, GiveUp(i) PROVE TypeOK'
  BY <1>22 DEF GiveUp
<1>23. ASSUME NEW i \in Import, Load(i) PROVE TypeOK'
  BY <1>23 DEF Load, Leave
<1>24. ASSUME NEW i \in Import, Claim(i) PROVE TypeOK'
  BY <1>24 DEF Claim, Claims, Leave, Write
<1>25. ASSUME NEW i \in Import, Precheck(i) PROVE TypeOK'
  BY <1>25 DEF Precheck
<1>26. ASSUME NEW i \in Import, ToReview(i) PROVE TypeOK'
  BY <1>26 DEF ToReview, Goes, Leave, Blind, Counts, Write, Ends
<1>27. ASSUME NEW i \in Import, Unavailable(i) PROVE TypeOK'
  BY <1>27 DEF Unavailable, Goes, Leave
<1>28. ASSUME NEW i \in Import, Plan(i) PROVE TypeOK'
  BY <1>28 DEF Plan, Goes
<1>29. ASSUME NEW i \in Import, Apply(i) PROVE TypeOK'
  BY <1>29 DEF Apply, Goes
<1>30. ASSUME NEW i \in Import, MarkFailed(i) PROVE TypeOK'
  BY <1>30 DEF MarkFailed, Leave, Blind, Counts, Write, Ends
<1>31. ASSUME NEW i \in Import, MarkOutcome(i) PROVE TypeOK'
  BY <1>31 DEF MarkOutcome, Delivered, Blind, Counts, Write, Ends
<1>32. ASSUME NEW i \in Import, PlexLeg(i) PROVE TypeOK'
  BY <1>32 DEF PlexLeg, Goes, Leave
<1>33. ASSUME NEW i \in Import, PlexRecord(i) PROVE TypeOK'
  BY <1>33 DEF PlexRecord, Goes, Leave, Blind, Counts, Write, Live
<1>34. ASSUME NEW i \in Import, HandOff(i) PROVE TypeOK'
  BY <1>34 DEF HandOff, Confirm
<1>36. ASSUME NEW i \in Import, EndsEarly(i) PROVE TypeOK'
  BY <1>36 DEF EndsEarly, Leave
<1>35. CASE UNCHANGED vars
  BY <1>35 DEF vars
<1> QED BY <1>1, <1>2, <1>3, <1>4, <1>5, <1>6, <1>7, <1>8, <1>9, <1>10, <1>11,
     <1>12, <1>13, <1>14, <1>15, <1>16, <1>17, <1>18, <1>19, <1>20, <1>21,
     <1>22, <1>23, <1>24, <1>25, <1>26, <1>27, <1>28, <1>29, <1>30, <1>31,
     <1>32, <1>33, <1>34, <1>35, <1>36 DEF Next, Downloads, Review, Merge, Sweep,
     Evaluate, Scan

(* Every variable of the carrier model keeps its type.                     *)
THEOREM TypeCorrect == Spec => []TypeOK
<1> QED BY TypeInit, TypeStep, PTL DEF Spec

-----------------------------------------------------------------------------
(* Who read the row as it is now, and has yet to act on it, read it        *)
(* neither claimed nor imported.                                           *)
FreshIsOpen ==
    /\ \A i \in Import : pc[i] = "loaded" /\ i \in fresh => state \notin {"importing", "imported"}
    /\ sweep \in {"proves", "keeps"} /\ "sweep" \in fresh => state \notin {"importing", "imported"}
    /\ scan = "records" /\ "scan" \in fresh => state \notin {"importing", "imported"}

(* Whoever is past the claim holds it.                                     *)
ClaimersHold == overwrote \/ \A i \in Import : pc[i] \in Claimed => claim = i

(* What a merge has done is on the album.                                  *)
MergedIsThere == \A i \in Import : pc[i] \in {"applied", "keeps", "plex"} => onAlbum
Delivery == ImportedIsDelivered /\ MergedIsThere

(* A claim keeps an owner who is on it. *)
LEMMA OwnerStep == TypeOK /\ ClaimHasOwner /\ [Next]_vars => ClaimHasOwner'
<1> SUFFICES ASSUME TypeOK, ClaimHasOwner, [Next]_vars PROVE ClaimHasOwner'
  OBVIOUS
<1> USE NoneAssumption, ImportAssumption DEF TypeOK, row, jobs, others,
     ADVANCER_STATES, NO_DOWNGRADE, Claimed, ClaimHasOwner, Live
<1>1. ASSUME Begin PROVE ClaimHasOwner'
  BY <1>1 DEF Begin, Counts, Write
<1>2. ASSUME Resume PROVE ClaimHasOwner'
  BY <1>2 DEF Resume, Blind, Counts, Write
<1>3. ASSUME Land PROVE ClaimHasOwner'
  BY <1>3 DEF Land, Advance, Blind, Counts, Write, Live
<1>4. ASSUME Stage PROVE ClaimHasOwner'
  BY <1>4 DEF Stage, Advance, Blind, Counts, Write, Live
<1>5. ASSUME Fail PROVE ClaimHasOwner'
  BY <1>5 DEF Fail
<1>6. ASSUME FinishWithoutImport PROVE ClaimHasOwner'
  <2>1. CASE Advance("review_required", "")
    BY <1>6, <2>1 DEF FinishWithoutImport, Advance, Blind, Counts, Write, Live
  <2>2. CASE Advance("failed", "")
    BY <1>6, <2>2 DEF FinishWithoutImport, Advance, Blind, Counts, Write, Live
  <2> QED BY <1>6, <2>1, <2>2 DEF FinishWithoutImport
<1>7. ASSUME LeaveStaged PROVE ClaimHasOwner'
  BY <1>7 DEF LeaveStaged
<1>8. ASSUME NoteImport PROVE ClaimHasOwner'
  BY <1>8 DEF NoteImport, Touch
<1>9. ASSUME StopWaiting PROVE ClaimHasOwner'
  BY <1>9 DEF StopWaiting
<1>10. ASSUME SweepFinds PROVE ClaimHasOwner'
  BY <1>10 DEF SweepFinds
<1>11. ASSUME SweepEvaluates PROVE ClaimHasOwner'
  BY <1>11 DEF SweepEvaluates
<1>12. ASSUME SweepProves PROVE ClaimHasOwner'
  BY <1>12 DEF SweepProves, Evidence, Swap, Write
<1>13. ASSUME SweepAttaches PROVE ClaimHasOwner'
  BY <1>13 DEF SweepAttaches, Touch
<1>14. ASSUME SweepReads PROVE ClaimHasOwner'
  BY <1>14 DEF SweepReads
<1>15. ASSUME SweepKeeps PROVE ClaimHasOwner'
  BY <1>15 DEF SweepKeeps, Swap, Write
<1>16. ASSUME ScanReads PROVE ClaimHasOwner'
  BY <1>16 DEF ScanReads, Counts
<1>17. ASSUME ScanRecords PROVE ClaimHasOwner'
  BY <1>17 DEF ScanRecords, Evidence, Swap, Write
<1>18. ASSUME Crash PROVE ClaimHasOwner'
  BY <1>18 DEF Crash, Counts, Live
<1>19. ASSUME NEW i \in Import, StartImport(i) PROVE ClaimHasOwner'
  BY <1>19 DEF StartImport
<1>20. ASSUME NEW i \in Import, Confirm(i), UNCHANGED <<row, onAlbum, others, count>> PROVE ClaimHasOwner'
  BY <1>20 DEF Confirm
<1>21. ASSUME NEW i \in Import, TakeSlot(i) PROVE ClaimHasOwner'
  BY <1>21 DEF TakeSlot, Goes, Rebind, Touch
<1>22. ASSUME NEW i \in Import, GiveUp(i) PROVE ClaimHasOwner'
  BY <1>22 DEF GiveUp
<1>23. ASSUME NEW i \in Import, Load(i) PROVE ClaimHasOwner'
  BY <1>23 DEF Load, Leave
<1>24. ASSUME NEW i \in Import, Claim(i) PROVE ClaimHasOwner'
  BY <1>24 DEF Claim, Claims, Leave, Write
<1>25. ASSUME NEW i \in Import, Precheck(i) PROVE ClaimHasOwner'
  BY <1>25 DEF Precheck
<1>26. ASSUME NEW i \in Import, ToReview(i) PROVE ClaimHasOwner'
  BY <1>26 DEF ToReview, Goes, Leave, Blind, Counts, Write, Ends
<1>27. ASSUME NEW i \in Import, Unavailable(i) PROVE ClaimHasOwner'
  BY <1>27 DEF Unavailable, Goes, Leave
<1>28. ASSUME NEW i \in Import, Plan(i) PROVE ClaimHasOwner'
  BY <1>28 DEF Plan, Goes
<1>29. ASSUME NEW i \in Import, Apply(i) PROVE ClaimHasOwner'
  BY <1>29 DEF Apply, Goes
<1>30. ASSUME NEW i \in Import, MarkFailed(i) PROVE ClaimHasOwner'
  BY <1>30 DEF MarkFailed, Leave, Blind, Counts, Write, Ends
<1>31. ASSUME NEW i \in Import, MarkOutcome(i) PROVE ClaimHasOwner'
  BY <1>31 DEF MarkOutcome, Delivered, Blind, Counts, Write, Ends
<1>32. ASSUME NEW i \in Import, PlexLeg(i) PROVE ClaimHasOwner'
  BY <1>32 DEF PlexLeg, Goes, Leave
<1>33. ASSUME NEW i \in Import, PlexRecord(i) PROVE ClaimHasOwner'
  BY <1>33 DEF PlexRecord, Goes, Leave, Blind, Counts, Write, Live
<1>34. ASSUME NEW i \in Import, HandOff(i) PROVE ClaimHasOwner'
  BY <1>34 DEF HandOff, Confirm
<1>36. ASSUME NEW i \in Import, EndsEarly(i) PROVE ClaimHasOwner'
  BY <1>36 DEF EndsEarly, Leave
<1>35. CASE UNCHANGED vars
  BY <1>35 DEF vars
<1> QED BY <1>1, <1>2, <1>3, <1>4, <1>5, <1>6, <1>7, <1>8, <1>9, <1>10, <1>11,
     <1>12, <1>13, <1>14, <1>15, <1>16, <1>17, <1>18, <1>19, <1>20, <1>21,
     <1>22, <1>23, <1>24, <1>25, <1>26, <1>27, <1>28, <1>29, <1>30, <1>31,
     <1>32, <1>33, <1>34, <1>35, <1>36 DEF Next, Downloads, Review, Merge, Sweep,
     Evaluate, Scan

(* Every write that changes the state makes every earlier read stale. *)
LEMMA FreshStep == TypeOK /\ FreshIsOpen /\ [Next]_vars => FreshIsOpen'
<1> SUFFICES ASSUME TypeOK, FreshIsOpen, [Next]_vars PROVE FreshIsOpen'
  OBVIOUS
<1> USE NoneAssumption, ImportAssumption DEF TypeOK, row, jobs, others,
     ADVANCER_STATES, NO_DOWNGRADE, Claimed, FreshIsOpen
<1>1. ASSUME Begin PROVE FreshIsOpen'
  BY <1>1 DEF Begin, Counts, Write
<1>2. ASSUME Resume PROVE FreshIsOpen'
  BY <1>2 DEF Resume, Blind, Counts, Write
<1>3. ASSUME Land PROVE FreshIsOpen'
  BY <1>3 DEF Land, Advance, Blind, Counts, Write, Live
<1>4. ASSUME Stage PROVE FreshIsOpen'
  BY <1>4 DEF Stage, Advance, Blind, Counts, Write, Live
<1>5. ASSUME Fail PROVE FreshIsOpen'
  BY <1>5 DEF Fail
<1>6. ASSUME FinishWithoutImport PROVE FreshIsOpen'
  <2>1. CASE Advance("review_required", "")
    BY <1>6, <2>1 DEF FinishWithoutImport, Advance, Blind, Counts, Write, Live
  <2>2. CASE Advance("failed", "")
    BY <1>6, <2>2 DEF FinishWithoutImport, Advance, Blind, Counts, Write, Live
  <2> QED BY <1>6, <2>1, <2>2 DEF FinishWithoutImport
<1>7. ASSUME LeaveStaged PROVE FreshIsOpen'
  BY <1>7 DEF LeaveStaged
<1>8. ASSUME NoteImport PROVE FreshIsOpen'
  BY <1>8 DEF NoteImport, Touch
<1>9. ASSUME StopWaiting PROVE FreshIsOpen'
  BY <1>9 DEF StopWaiting
<1>10. ASSUME SweepFinds PROVE FreshIsOpen'
  BY <1>10 DEF SweepFinds
<1>11. ASSUME SweepEvaluates PROVE FreshIsOpen'
  BY <1>11 DEF SweepEvaluates
<1>12. ASSUME SweepProves PROVE FreshIsOpen'
  BY <1>12 DEF SweepProves, Evidence, Swap, Write
<1>13. ASSUME SweepAttaches PROVE FreshIsOpen'
  BY <1>13 DEF SweepAttaches, Touch
<1>14. ASSUME SweepReads PROVE FreshIsOpen'
  BY <1>14 DEF SweepReads
<1>15. ASSUME SweepKeeps PROVE FreshIsOpen'
  BY <1>15 DEF SweepKeeps, Swap, Write
<1>16. ASSUME ScanReads PROVE FreshIsOpen'
  BY <1>16 DEF ScanReads, Counts
<1>17. ASSUME ScanRecords PROVE FreshIsOpen'
  BY <1>17 DEF ScanRecords, Evidence, Swap, Write
<1>18. ASSUME Crash PROVE FreshIsOpen'
  BY <1>18 DEF Crash, Counts, Live
<1>19. ASSUME NEW i \in Import, StartImport(i) PROVE FreshIsOpen'
  BY <1>19 DEF StartImport
<1>20. ASSUME NEW i \in Import, Confirm(i), UNCHANGED <<row, onAlbum, others, count>> PROVE FreshIsOpen'
  BY <1>20 DEF Confirm
<1>21. ASSUME NEW i \in Import, TakeSlot(i) PROVE FreshIsOpen'
  BY <1>21 DEF TakeSlot, Goes, Rebind, Touch
<1>22. ASSUME NEW i \in Import, GiveUp(i) PROVE FreshIsOpen'
  BY <1>22 DEF GiveUp
<1>23. ASSUME NEW i \in Import, Load(i) PROVE FreshIsOpen'
  BY <1>23 DEF Load, Leave
<1>24. ASSUME NEW i \in Import, Claim(i) PROVE FreshIsOpen'
  BY <1>24 DEF Claim, Claims, Leave, Write
<1>25. ASSUME NEW i \in Import, Precheck(i) PROVE FreshIsOpen'
  BY <1>25 DEF Precheck
<1>26. ASSUME NEW i \in Import, ToReview(i) PROVE FreshIsOpen'
  BY <1>26 DEF ToReview, Goes, Leave, Blind, Counts, Write, Ends
<1>27. ASSUME NEW i \in Import, Unavailable(i) PROVE FreshIsOpen'
  BY <1>27 DEF Unavailable, Goes, Leave
<1>28. ASSUME NEW i \in Import, Plan(i) PROVE FreshIsOpen'
  BY <1>28 DEF Plan, Goes
<1>29. ASSUME NEW i \in Import, Apply(i) PROVE FreshIsOpen'
  BY <1>29 DEF Apply, Goes
<1>30. ASSUME NEW i \in Import, MarkFailed(i) PROVE FreshIsOpen'
  BY <1>30 DEF MarkFailed, Leave, Blind, Counts, Write, Ends
<1>31. ASSUME NEW i \in Import, MarkOutcome(i) PROVE FreshIsOpen'
  BY <1>31 DEF MarkOutcome, Delivered, Blind, Counts, Write, Ends
<1>32. ASSUME NEW i \in Import, PlexLeg(i) PROVE FreshIsOpen'
  BY <1>32 DEF PlexLeg, Goes, Leave
<1>33. ASSUME NEW i \in Import, PlexRecord(i) PROVE FreshIsOpen'
  BY <1>33 DEF PlexRecord, Goes, Leave, Blind, Counts, Write, Live
<1>34. ASSUME NEW i \in Import, HandOff(i) PROVE FreshIsOpen'
  BY <1>34 DEF HandOff, Confirm
<1>36. ASSUME NEW i \in Import, EndsEarly(i) PROVE FreshIsOpen'
  BY <1>36 DEF EndsEarly, Leave
<1>35. CASE UNCHANGED vars
  BY <1>35 DEF vars
<1> QED BY <1>1, <1>2, <1>3, <1>4, <1>5, <1>6, <1>7, <1>8, <1>9, <1>10, <1>11,
     <1>12, <1>13, <1>14, <1>15, <1>16, <1>17, <1>18, <1>19, <1>20, <1>21,
     <1>22, <1>23, <1>24, <1>25, <1>26, <1>27, <1>28, <1>29, <1>30, <1>31,
     <1>32, <1>33, <1>34, <1>35, <1>36 DEF Next, Downloads, Review, Merge, Sweep,
     Evaluate, Scan

(* A claim is taken from nobody who holds one. *)
LEMMA HoldStep == TypeOK /\ ClaimHasOwner /\ FreshIsOpen /\ ClaimersHold /\ [Next]_vars => ClaimersHold'
<1> SUFFICES ASSUME TypeOK, ClaimHasOwner, FreshIsOpen, ClaimersHold, [Next]_vars PROVE ClaimersHold'
  OBVIOUS
<1> USE NoneAssumption, ImportAssumption DEF TypeOK, row, jobs, others,
     ADVANCER_STATES, NO_DOWNGRADE, Claimed, ClaimHasOwner, FreshIsOpen,
     ClaimersHold, Live
<1>1. ASSUME Begin PROVE ClaimersHold'
  BY <1>1 DEF Begin, Counts, Write
<1>2. ASSUME Resume PROVE ClaimersHold'
  BY <1>2 DEF Resume, Blind, Counts, Write
<1>3. ASSUME Land PROVE ClaimersHold'
  BY <1>3 DEF Land, Advance, Blind, Counts, Write, Live
<1>4. ASSUME Stage PROVE ClaimersHold'
  BY <1>4 DEF Stage, Advance, Blind, Counts, Write, Live
<1>5. ASSUME Fail PROVE ClaimersHold'
  BY <1>5 DEF Fail
<1>6. ASSUME FinishWithoutImport PROVE ClaimersHold'
  <2>1. CASE Advance("review_required", "")
    BY <1>6, <2>1 DEF FinishWithoutImport, Advance, Blind, Counts, Write, Live
  <2>2. CASE Advance("failed", "")
    BY <1>6, <2>2 DEF FinishWithoutImport, Advance, Blind, Counts, Write, Live
  <2> QED BY <1>6, <2>1, <2>2 DEF FinishWithoutImport
<1>7. ASSUME LeaveStaged PROVE ClaimersHold'
  BY <1>7 DEF LeaveStaged
<1>8. ASSUME NoteImport PROVE ClaimersHold'
  BY <1>8 DEF NoteImport, Touch
<1>9. ASSUME StopWaiting PROVE ClaimersHold'
  BY <1>9 DEF StopWaiting
<1>10. ASSUME SweepFinds PROVE ClaimersHold'
  BY <1>10 DEF SweepFinds
<1>11. ASSUME SweepEvaluates PROVE ClaimersHold'
  BY <1>11 DEF SweepEvaluates
<1>12. ASSUME SweepProves PROVE ClaimersHold'
  BY <1>12 DEF SweepProves, Evidence, Swap, Write
<1>13. ASSUME SweepAttaches PROVE ClaimersHold'
  BY <1>13 DEF SweepAttaches, Touch
<1>14. ASSUME SweepReads PROVE ClaimersHold'
  BY <1>14 DEF SweepReads
<1>15. ASSUME SweepKeeps PROVE ClaimersHold'
  BY <1>15 DEF SweepKeeps, Swap, Write
<1>16. ASSUME ScanReads PROVE ClaimersHold'
  BY <1>16 DEF ScanReads, Counts
<1>17. ASSUME ScanRecords PROVE ClaimersHold'
  BY <1>17 DEF ScanRecords, Evidence, Swap, Write
<1>18. ASSUME Crash PROVE ClaimersHold'
  BY <1>18 DEF Crash, Counts, Live
<1>19. ASSUME NEW i \in Import, StartImport(i) PROVE ClaimersHold'
  BY <1>19 DEF StartImport
<1>20. ASSUME NEW i \in Import, Confirm(i), UNCHANGED <<row, onAlbum, others, count>> PROVE ClaimersHold'
  BY <1>20 DEF Confirm
<1>21. ASSUME NEW i \in Import, TakeSlot(i) PROVE ClaimersHold'
  BY <1>21 DEF TakeSlot, Goes, Rebind, Touch
<1>22. ASSUME NEW i \in Import, GiveUp(i) PROVE ClaimersHold'
  BY <1>22 DEF GiveUp
<1>23. ASSUME NEW i \in Import, Load(i) PROVE ClaimersHold'
  BY <1>23 DEF Load, Leave
<1>24. ASSUME NEW i \in Import, Claim(i) PROVE ClaimersHold'
  BY <1>24 DEF Claim, Claims, Leave, Write
<1>25. ASSUME NEW i \in Import, Precheck(i) PROVE ClaimersHold'
  BY <1>25 DEF Precheck
<1>26. ASSUME NEW i \in Import, ToReview(i) PROVE ClaimersHold'
  BY <1>26 DEF ToReview, Goes, Leave, Blind, Counts, Write, Ends
<1>27. ASSUME NEW i \in Import, Unavailable(i) PROVE ClaimersHold'
  BY <1>27 DEF Unavailable, Goes, Leave
<1>28. ASSUME NEW i \in Import, Plan(i) PROVE ClaimersHold'
  BY <1>28 DEF Plan, Goes
<1>29. ASSUME NEW i \in Import, Apply(i) PROVE ClaimersHold'
  BY <1>29 DEF Apply, Goes
<1>30. ASSUME NEW i \in Import, MarkFailed(i) PROVE ClaimersHold'
  BY <1>30 DEF MarkFailed, Leave, Blind, Counts, Write, Ends
<1>31. ASSUME NEW i \in Import, MarkOutcome(i) PROVE ClaimersHold'
  BY <1>31 DEF MarkOutcome, Delivered, Blind, Counts, Write, Ends
<1>32. ASSUME NEW i \in Import, PlexLeg(i) PROVE ClaimersHold'
  BY <1>32 DEF PlexLeg, Goes, Leave
<1>33. ASSUME NEW i \in Import, PlexRecord(i) PROVE ClaimersHold'
  BY <1>33 DEF PlexRecord, Goes, Leave, Blind, Counts, Write, Live
<1>34. ASSUME NEW i \in Import, HandOff(i) PROVE ClaimersHold'
  BY <1>34 DEF HandOff, Confirm
<1>36. ASSUME NEW i \in Import, EndsEarly(i) PROVE ClaimersHold'
  BY <1>36 DEF EndsEarly, Leave
<1>35. CASE UNCHANGED vars
  BY <1>35 DEF vars
<1> QED BY <1>1, <1>2, <1>3, <1>4, <1>5, <1>6, <1>7, <1>8, <1>9, <1>10, <1>11,
     <1>12, <1>13, <1>14, <1>15, <1>16, <1>17, <1>18, <1>19, <1>20, <1>21,
     <1>22, <1>23, <1>24, <1>25, <1>26, <1>27, <1>28, <1>29, <1>30, <1>31,
     <1>32, <1>33, <1>34, <1>35, <1>36 DEF Next, Downloads, Review, Merge, Sweep,
     Evaluate, Scan

(* imported is written only from an album that has the track. *)
LEMMA DeliveryStep == TypeOK /\ Delivery /\ [Next]_vars => Delivery'
<1> SUFFICES ASSUME TypeOK, Delivery, [Next]_vars PROVE Delivery'
  OBVIOUS
<1> USE NoneAssumption, ImportAssumption DEF TypeOK, row, jobs, others,
     ADVANCER_STATES, NO_DOWNGRADE, Claimed, Delivery, ImportedIsDelivered,
     MergedIsThere
<1>1. ASSUME Begin PROVE Delivery'
  BY <1>1 DEF Begin, Counts, Write
<1>2. ASSUME Resume PROVE Delivery'
  BY <1>2 DEF Resume, Blind, Counts, Write
<1>3. ASSUME Land PROVE Delivery'
  BY <1>3 DEF Land, Advance, Blind, Counts, Write, Live
<1>4. ASSUME Stage PROVE Delivery'
  BY <1>4 DEF Stage, Advance, Blind, Counts, Write, Live
<1>5. ASSUME Fail PROVE Delivery'
  BY <1>5 DEF Fail
<1>6. ASSUME FinishWithoutImport PROVE Delivery'
  <2>1. CASE Advance("review_required", "")
    BY <1>6, <2>1 DEF FinishWithoutImport, Advance, Blind, Counts, Write, Live
  <2>2. CASE Advance("failed", "")
    BY <1>6, <2>2 DEF FinishWithoutImport, Advance, Blind, Counts, Write, Live
  <2> QED BY <1>6, <2>1, <2>2 DEF FinishWithoutImport
<1>7. ASSUME LeaveStaged PROVE Delivery'
  BY <1>7 DEF LeaveStaged
<1>8. ASSUME NoteImport PROVE Delivery'
  BY <1>8 DEF NoteImport, Touch
<1>9. ASSUME StopWaiting PROVE Delivery'
  BY <1>9 DEF StopWaiting
<1>10. ASSUME SweepFinds PROVE Delivery'
  BY <1>10 DEF SweepFinds
<1>11. ASSUME SweepEvaluates PROVE Delivery'
  BY <1>11 DEF SweepEvaluates
<1>12. ASSUME SweepProves PROVE Delivery'
  BY <1>12 DEF SweepProves, Evidence, Swap, Write
<1>13. ASSUME SweepAttaches PROVE Delivery'
  BY <1>13 DEF SweepAttaches, Touch
<1>14. ASSUME SweepReads PROVE Delivery'
  BY <1>14 DEF SweepReads
<1>15. ASSUME SweepKeeps PROVE Delivery'
  BY <1>15 DEF SweepKeeps, Swap, Write
<1>16. ASSUME ScanReads PROVE Delivery'
  BY <1>16 DEF ScanReads, Counts
<1>17. ASSUME ScanRecords PROVE Delivery'
  BY <1>17 DEF ScanRecords, Evidence, Swap, Write
<1>18. ASSUME Crash PROVE Delivery'
  BY <1>18 DEF Crash, Counts, Live
<1>19. ASSUME NEW i \in Import, StartImport(i) PROVE Delivery'
  BY <1>19 DEF StartImport
<1>20. ASSUME NEW i \in Import, Confirm(i), UNCHANGED <<row, onAlbum, others, count>> PROVE Delivery'
  BY <1>20 DEF Confirm
<1>21. ASSUME NEW i \in Import, TakeSlot(i) PROVE Delivery'
  BY <1>21 DEF TakeSlot, Goes, Rebind, Touch
<1>22. ASSUME NEW i \in Import, GiveUp(i) PROVE Delivery'
  BY <1>22 DEF GiveUp
<1>23. ASSUME NEW i \in Import, Load(i) PROVE Delivery'
  BY <1>23 DEF Load, Leave
<1>24. ASSUME NEW i \in Import, Claim(i) PROVE Delivery'
  BY <1>24 DEF Claim, Claims, Leave, Write
<1>25. ASSUME NEW i \in Import, Precheck(i) PROVE Delivery'
  BY <1>25 DEF Precheck
<1>26. ASSUME NEW i \in Import, ToReview(i) PROVE Delivery'
  BY <1>26 DEF ToReview, Goes, Leave, Blind, Counts, Write, Ends
<1>27. ASSUME NEW i \in Import, Unavailable(i) PROVE Delivery'
  BY <1>27 DEF Unavailable, Goes, Leave
<1>28. ASSUME NEW i \in Import, Plan(i) PROVE Delivery'
  BY <1>28 DEF Plan, Goes
<1>29. ASSUME NEW i \in Import, Apply(i) PROVE Delivery'
  BY <1>29 DEF Apply, Goes
<1>30. ASSUME NEW i \in Import, MarkFailed(i) PROVE Delivery'
  BY <1>30 DEF MarkFailed, Leave, Blind, Counts, Write, Ends
<1>31. ASSUME NEW i \in Import, MarkOutcome(i) PROVE Delivery'
  BY <1>31 DEF MarkOutcome, Delivered, Blind, Counts, Write, Ends
<1>32. ASSUME NEW i \in Import, PlexLeg(i) PROVE Delivery'
  BY <1>32 DEF PlexLeg, Goes, Leave
<1>33. ASSUME NEW i \in Import, PlexRecord(i) PROVE Delivery'
  BY <1>33 DEF PlexRecord, Goes, Leave, Blind, Counts, Write, Live
<1>34. ASSUME NEW i \in Import, HandOff(i) PROVE Delivery'
  BY <1>34 DEF HandOff, Confirm
<1>36. ASSUME NEW i \in Import, EndsEarly(i) PROVE Delivery'
  BY <1>36 DEF EndsEarly, Leave
<1>35. CASE UNCHANGED vars
  BY <1>35 DEF vars
<1> QED BY <1>1, <1>2, <1>3, <1>4, <1>5, <1>6, <1>7, <1>8, <1>9, <1>10, <1>11,
     <1>12, <1>13, <1>14, <1>15, <1>16, <1>17, <1>18, <1>19, <1>20, <1>21,
     <1>22, <1>23, <1>24, <1>25, <1>26, <1>27, <1>28, <1>29, <1>30, <1>31,
     <1>32, <1>33, <1>34, <1>35, <1>36 DEF Next, Downloads, Review, Merge, Sweep,
     Evaluate, Scan

-----------------------------------------------------------------------------
(* The conjuncts above, with the types, are an inductive invariant: a      *)
(* claim is taken only from a fresh read of an unclaimed row, and no write *)
(* that would end a claim leaves such a read fresh.                        *)
IInv == TypeOK /\ ClaimHasOwner /\ FreshIsOpen /\ ClaimersHold /\ Delivery

LEMMA IInvInit == Init => IInv
<1> SUFFICES ASSUME Init PROVE IInv
  OBVIOUS
<1>1. TypeOK
  BY TypeInit
<1>2. ClaimHasOwner /\ ClaimersHold
  BY NoneAssumption DEF Init, ClaimHasOwner, ClaimersHold, Live, Claimed
<1>3. FreshIsOpen /\ Delivery
  BY NoneAssumption DEF Init, FreshIsOpen, Delivery, ImportedIsDelivered, MergedIsThere
<1> QED BY <1>1, <1>2, <1>3 DEF IInv

LEMMA IInvStep == IInv /\ [Next]_vars => IInv'
  BY TypeStep, OwnerStep, FreshStep, HoldStep, DeliveryStep DEF IInv

LEMMA IInvAlways == Spec => []IInv
<1> QED BY IInvInit, IInvStep, PTL DEF Spec

(* Whatever crashes, and whatever write is lost, a row that says importing *)
(* for a live import has that import on it.                                *)
THEOREM ClaimOwned == Spec => []ClaimHasOwner
<1>1. IInv => ClaimHasOwner
  BY DEF IInv
<1> QED BY IInvAlways, <1>1, PTL

(* Two imports are never past the claim at once, also when the slot was    *)
(* given up, unless a write without a revision replaced a live claim.      *)
THEOREM OneImportClaims == Spec => []OneClaim
<1>1. IInv => OneClaim
  BY DEF IInv, ClaimersHold, OneClaim
<1> QED BY IInvAlways, <1>1, PTL

(* A carrier is imported, or resumes as imported, only when the album has  *)
(* the track.                                                              *)
THEOREM NeverFalselyImported == Spec => []ImportedIsDelivered
<1>1. IInv => ImportedIsDelivered
  BY DEF IInv, Delivery
<1> QED BY IInvAlways, <1>1, PTL

(* The advancer and the preflights never move a claimed or imported row:   *)
(* what they write is swapped in on a read that saw neither.               *)
LEMMA BackgroundStep ==
    IInv /\ [Next]_vars /\ (Sweep \/ Scan) /\ state \in {"importing", "imported"} => state' = state
<1> SUFFICES ASSUME IInv, Sweep \/ Scan, state \in {"importing", "imported"} PROVE state' = state
  OBVIOUS
<1> USE DEF IInv, FreshIsOpen
<1>1. ASSUME SweepFinds \/ SweepEvaluates \/ SweepAttaches \/ SweepReads PROVE state' = state
  BY <1>1 DEF SweepFinds, SweepEvaluates, SweepAttaches, SweepReads, Touch, row
<1>2. ASSUME SweepProves PROVE state' = state
  BY <1>2 DEF SweepProves, Evidence, Swap
<1>3. ASSUME SweepKeeps PROVE state' = state
  BY <1>3 DEF SweepKeeps, Swap
<1>4. ASSUME Scan PROVE state' = state
  BY <1>4 DEF Scan, ScanReads, ScanRecords, Evidence, Swap
<1> QED BY <1>1, <1>2, <1>3, <1>4 DEF Sweep, Evaluate

(* So the steps of the background never move a claimed or imported row.    *)
THEOREM BackgroundNeverMoves == Spec => BackgroundKeepsOff
<1>1. IInv /\ [Next]_vars => [(Sweep \/ Scan) /\ state \in {"importing", "imported"} => state' = state]_vars
  BY BackgroundStep
<1> QED BY IInvAlways, <1>1, PTL DEF Spec, BackgroundKeepsOff
=============================================================================
