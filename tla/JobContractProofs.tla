-------------------------- MODULE JobContractProofs --------------------------
(* Proofs about JobContract: for any number of jobs, processes and keys,   *)
(* any waits and any ttl.                                                  *)
EXTENDS JobContract, TLAPS

(* The lock files, the records and what `held` keeps in memory keep their  *)
(* types.                                                                  *)
LEMMA TypeInit == Init => TypeOK
<1> SUFFICES ASSUME Init PROVE TypeOK
  OBVIOUS
<1> QED BY TimeAssumption DEF Init, TypeOK, Places, Over

(* A step keeps the types. *)
LEMMA TypeStep == TypeOK /\ [Next]_vars => TypeOK'
<1> SUFFICES ASSUME TypeOK, [Next]_vars PROVE TypeOK'
  OBVIOUS
<1> USE JobAssumption, TimeAssumption, FileAssumption DEF TypeOK, Places,
       Running, Started, Over
<1>1. ASSUME NEW p \in Proc, Boot(p) PROVE TypeOK'
    BY <1>1 DEF Boot, records
<1>2. ASSUME NEW p \in Proc, NEW j \in Job, Resolve(p, j) PROVE TypeOK'
    BY <1>2 DEF Resolve, Orphaned, Without, Mine, SameHost, Alive, records
<1>3. ASSUME NEW p \in Proc, Serve(p) PROVE TypeOK'
    BY <1>3 DEF Serve, records
<1>4. ASSUME NEW p \in Proc, Die(p) PROVE TypeOK'
    BY <1>4 DEF Die, Alive, Started, Over, records
<1>5. ASSUME NEW j \in Job, Start(j) PROVE TypeOK'
    BY <1>5 DEF Start, process, records
<1>6. ASSUME NEW j \in Job, Cancel(j) PROVE TypeOK'
    BY <1>6 DEF Cancel, Waits, process, records
<1>7. ASSUME NEW j \in Job, CheckCancel(j) PROVE TypeOK'
  <2>1. CASE cancel[j]
    <3>1. Settles(j, "cancelled") /\ UNCHANGED <<process, lock, records>>
      BY <1>7, <2>1 DEF CheckCancel
    <3> QED BY <3>1 DEF Settles, process, records
  <2>2. CASE ~cancel[j]
    BY <1>7, <2>2 DEF CheckCancel, process, records
  <2> QED BY <2>1, <2>2
<1>8. ASSUME NEW j \in Job, Take(j) PROVE TypeOK'
  <2>1. lock' \in [Key -> [job : Job, age : 0..Ttl + 1] \cup {None}]
    BY <1>8 DEF Take, Rec
  <2> QED BY <1>8, <2>1 DEF Take, Settles, process, records
<1>9. ASSUME NEW j \in Job, Blocked(j) PROVE TypeOK'
  <2>1. PICK S \in SUBSET Stale(j) : lock' = Without(S)
    BY <1>9 DEF Blocked
  <2>2. lock' \in [Key -> [job : Job, age : 0..Ttl + 1] \cup {None}]
    BY <2>1 DEF Without
  <2>3. UNCHANGED <<process, resolved>>
    BY <1>9 DEF Blocked
  <2>4. ASSUME Settles(j, "busy"), UNCHANGED named PROVE TypeOK'
    BY <2>2, <2>3, <2>4 DEF Settles, process
  <2>5. ASSUME pc' = [pc EXCEPT ![j] = "sleeps"], named' = [named EXCEPT ![j] = TRUE],
               UNCHANGED <<cancel, waited>> PROVE TypeOK'
    BY <2>2, <2>3, <2>5 DEF process
  <2> QED BY <1>9, <2>4, <2>5 DEF Blocked
<1>10. ASSUME NEW j \in Job, Wake(j) PROVE TypeOK'
    BY <1>10 DEF Wake, process, records
<1>11. ASSUME NEW j \in Job, Publish(j) PROVE TypeOK'
    BY <1>11 DEF Publish, process
<1>12. ASSUME NEW j \in Job, Heartbeat(j) PROVE TypeOK'
    BY <1>12 DEF Heartbeat, Mine, Rec, process, records
<1>13. ASSUME NEW j \in Job, Leave(j) PROVE TypeOK'
    BY <1>13 DEF Leave, Without, Mine, process, records
<1>16. ASSUME NEW j \in Job, LeaveUnreleased(j) PROVE TypeOK'
    BY <1>16 DEF LeaveUnreleased, process, records
<1>17. ASSUME NEW j \in Job, AcquireFails(j) PROVE TypeOK'
    BY <1>17 DEF AcquireFails, Settles, process, records
<1>14. ASSUME Tick PROVE TypeOK'
  <2>1. lock' \in [Key -> [job : Job, age : 0..Ttl + 1] \cup {None}]
    BY <1>14 DEF Tick, Least
  <2>2. waited' \in [Job -> Nat] /\ gone' \in [Proc -> 0..Ttl + 1] /\ pc' \in [Job -> Places]
    BY <1>14 DEF Tick, Least, Places
  <2> QED BY <1>14, <2>1, <2>2 DEF Tick, records
<1>15. CASE UNCHANGED vars
  BY <1>15 DEF vars, process, records
<1> QED BY <1>1, <1>2, <1>3, <1>4, <1>5, <1>6, <1>7, <1>8, <1>9, <1>10, <1>11,
       <1>12, <1>13, <1>14, <1>15, <1>16, <1>17 DEF Next, Step

(* Every variable of the contract keeps its type.                          *)
THEOREM TypeCorrect == Spec => []TypeOK
<1> QED BY TypeInit, TypeStep, PTL DEF Spec

-----------------------------------------------------------------------------
Active == {"polls", "acquires", "sleeps", "taken", "works"}

(* A job with a thread is in a process that is up.                         *)
ThreadsLive == \A j \in Job : pc[j] \in Active => Alive(ProcOf[j])
(* What died is dead, and its record names its lock if it was at its work. *)
DeadAreDead == \A j \in Job : pc[j] \in {"dead", "killed"} => up[ProcOf[j]] = "dead"
WorkIsNamed == \A j \in Job : pc[j] \in {"works", "killed"} => named[j]
(* A lock file is of the workflow of its job, and of no job that released. *)
OwnKeys == \A k \in Key : lock[k] # None => k \in KeysOf[lock[k].job]
FilesHaveJobs ==
    \A k \in Key : lock[k] # None => Holds(lock[k].job) \/ pc[lock[k].job] \in {"dead", "killed", "unreleased"}
(* A dead holder sends no heartbeat: its file is as old as it is dead.     *)
DeadAge ==
    /\ \A p \in Proc : up[p] # "dead" => gone[p] = 0
    /\ \A k \in Key : lock[k] # None => lock[k].age >= gone[Holder(k)]

(* Threads live and die with their process. *)
LEMMA ThreadsStep == TypeOK /\ ThreadsLive /\ [Next]_vars => ThreadsLive'
<1> SUFFICES ASSUME TypeOK, ThreadsLive, [Next]_vars PROVE ThreadsLive'
  OBVIOUS
<1> USE JobAssumption, TimeAssumption, FileAssumption DEF TypeOK, ThreadsLive,
       Alive, Active
<1>1. ASSUME NEW p \in Proc, Boot(p) PROVE ThreadsLive'
    BY <1>1 DEF Boot, records
<1>2. ASSUME NEW p \in Proc, NEW j \in Job, Resolve(p, j) PROVE ThreadsLive'
    BY <1>2 DEF Resolve, Orphaned, Without, Mine, SameHost, Alive, records
<1>3. ASSUME NEW p \in Proc, Serve(p) PROVE ThreadsLive'
    BY <1>3 DEF Serve, records
<1>4. ASSUME NEW p \in Proc, Die(p) PROVE ThreadsLive'
    BY <1>4 DEF Die, Alive, Started, Over, records
<1>5. ASSUME NEW j \in Job, Start(j) PROVE ThreadsLive'
    BY <1>5 DEF Start, process, records
<1>6. ASSUME NEW j \in Job, Cancel(j) PROVE ThreadsLive'
    BY <1>6 DEF Cancel, Waits, process, records
<1>7. ASSUME NEW j \in Job, CheckCancel(j) PROVE ThreadsLive'
    BY <1>7 DEF CheckCancel, Settles, process, records
<1>8. ASSUME NEW j \in Job, Take(j) PROVE ThreadsLive'
    BY <1>8 DEF Take, Settles, Blockers, Taken, Stale, IsStale, SameHost,
       Alive, Holder, Rec, process, records
<1>9. ASSUME NEW j \in Job, Blocked(j) PROVE ThreadsLive'
    BY <1>9 DEF Blocked, Settles, Stale, Taken, IsStale, SameHost, Alive,
       Holder, Without, process
<1>10. ASSUME NEW j \in Job, Wake(j) PROVE ThreadsLive'
    BY <1>10 DEF Wake, process, records
<1>11. ASSUME NEW j \in Job, Publish(j) PROVE ThreadsLive'
    BY <1>11 DEF Publish, process
<1>12. ASSUME NEW j \in Job, Heartbeat(j) PROVE ThreadsLive'
    BY <1>12 DEF Heartbeat, Mine, Rec, process, records
<1>13. ASSUME NEW j \in Job, Leave(j) PROVE ThreadsLive'
    BY <1>13 DEF Leave, Without, Mine, process, records
<1>16. ASSUME NEW j \in Job, LeaveUnreleased(j) PROVE ThreadsLive'
    BY <1>16 DEF LeaveUnreleased, process, records
<1>17. ASSUME NEW j \in Job, AcquireFails(j) PROVE ThreadsLive'
    BY <1>17 DEF AcquireFails, Settles, process, records
<1>14. ASSUME Tick PROVE ThreadsLive'
    BY <1>14 DEF Tick, Least, records
<1>15. CASE UNCHANGED vars
  BY <1>15 DEF vars, process, records
<1> QED BY <1>1, <1>2, <1>3, <1>4, <1>5, <1>6, <1>7, <1>8, <1>9, <1>10, <1>11,
       <1>12, <1>13, <1>14, <1>15, <1>16, <1>17 DEF Next, Step

(* A process that died does not come back. *)
LEMMA DeadStep == TypeOK /\ ThreadsLive /\ DeadAreDead /\ [Next]_vars => DeadAreDead'
<1> SUFFICES ASSUME TypeOK, ThreadsLive, DeadAreDead, [Next]_vars PROVE DeadAreDead'
  OBVIOUS
<1> USE JobAssumption, TimeAssumption, FileAssumption DEF TypeOK, ThreadsLive,
       DeadAreDead, Alive, Active
<1>1. ASSUME NEW p \in Proc, Boot(p) PROVE DeadAreDead'
    BY <1>1 DEF Boot, records
<1>2. ASSUME NEW p \in Proc, NEW j \in Job, Resolve(p, j) PROVE DeadAreDead'
    BY <1>2 DEF Resolve, Orphaned, Without, Mine, SameHost, Alive, records
<1>3. ASSUME NEW p \in Proc, Serve(p) PROVE DeadAreDead'
    BY <1>3 DEF Serve, records
<1>4. ASSUME NEW p \in Proc, Die(p) PROVE DeadAreDead'
    BY <1>4 DEF Die, Alive, Started, Over, records
<1>5. ASSUME NEW j \in Job, Start(j) PROVE DeadAreDead'
    BY <1>5 DEF Start, process, records
<1>6. ASSUME NEW j \in Job, Cancel(j) PROVE DeadAreDead'
    BY <1>6 DEF Cancel, Waits, process, records
<1>7. ASSUME NEW j \in Job, CheckCancel(j) PROVE DeadAreDead'
    BY <1>7 DEF CheckCancel, Settles, process, records
<1>8. ASSUME NEW j \in Job, Take(j) PROVE DeadAreDead'
    BY <1>8 DEF Take, Settles, Blockers, Taken, Stale, IsStale, SameHost,
       Alive, Holder, Rec, process, records
<1>9. ASSUME NEW j \in Job, Blocked(j) PROVE DeadAreDead'
    BY <1>9 DEF Blocked, Settles, Stale, Taken, IsStale, SameHost, Alive,
       Holder, Without, process
<1>10. ASSUME NEW j \in Job, Wake(j) PROVE DeadAreDead'
    BY <1>10 DEF Wake, process, records
<1>11. ASSUME NEW j \in Job, Publish(j) PROVE DeadAreDead'
    BY <1>11 DEF Publish, process
<1>12. ASSUME NEW j \in Job, Heartbeat(j) PROVE DeadAreDead'
    BY <1>12 DEF Heartbeat, Mine, Rec, process, records
<1>13. ASSUME NEW j \in Job, Leave(j) PROVE DeadAreDead'
    BY <1>13 DEF Leave, Without, Mine, process, records
<1>16. ASSUME NEW j \in Job, LeaveUnreleased(j) PROVE DeadAreDead'
    BY <1>16 DEF LeaveUnreleased, process, records
<1>17. ASSUME NEW j \in Job, AcquireFails(j) PROVE DeadAreDead'
    BY <1>17 DEF AcquireFails, Settles, process, records
<1>14. ASSUME Tick PROVE DeadAreDead'
    BY <1>14 DEF Tick, Least, records
<1>15. CASE UNCHANGED vars
  BY <1>15 DEF vars, process, records
<1> QED BY <1>1, <1>2, <1>3, <1>4, <1>5, <1>6, <1>7, <1>8, <1>9, <1>10, <1>11,
       <1>12, <1>13, <1>14, <1>15, <1>16, <1>17 DEF Next, Step

(* The checkpoint names the owner before the work starts. *)
LEMMA NamedStep == TypeOK /\ WorkIsNamed /\ [Next]_vars => WorkIsNamed'
<1> SUFFICES ASSUME TypeOK, WorkIsNamed, [Next]_vars PROVE WorkIsNamed'
  OBVIOUS
<1> USE JobAssumption, TimeAssumption, FileAssumption DEF TypeOK, WorkIsNamed
<1>1. ASSUME NEW p \in Proc, Boot(p) PROVE WorkIsNamed'
    BY <1>1 DEF Boot, records
<1>2. ASSUME NEW p \in Proc, NEW j \in Job, Resolve(p, j) PROVE WorkIsNamed'
    BY <1>2 DEF Resolve, Orphaned, Without, Mine, SameHost, Alive, records
<1>3. ASSUME NEW p \in Proc, Serve(p) PROVE WorkIsNamed'
    BY <1>3 DEF Serve, records
<1>4. ASSUME NEW p \in Proc, Die(p) PROVE WorkIsNamed'
    BY <1>4 DEF Die, Alive, Started, Over, records
<1>5. ASSUME NEW j \in Job, Start(j) PROVE WorkIsNamed'
    BY <1>5 DEF Start, process, records
<1>6. ASSUME NEW j \in Job, Cancel(j) PROVE WorkIsNamed'
    BY <1>6 DEF Cancel, Waits, process, records
<1>7. ASSUME NEW j \in Job, CheckCancel(j) PROVE WorkIsNamed'
    BY <1>7 DEF CheckCancel, Settles, process, records
<1>8. ASSUME NEW j \in Job, Take(j) PROVE WorkIsNamed'
    BY <1>8 DEF Take, Settles, Blockers, Taken, Stale, IsStale, SameHost,
       Alive, Holder, Rec, process, records
<1>9. ASSUME NEW j \in Job, Blocked(j) PROVE WorkIsNamed'
    BY <1>9 DEF Blocked, Settles, Stale, Taken, IsStale, SameHost, Alive,
       Holder, Without, process
<1>10. ASSUME NEW j \in Job, Wake(j) PROVE WorkIsNamed'
    BY <1>10 DEF Wake, process, records
<1>11. ASSUME NEW j \in Job, Publish(j) PROVE WorkIsNamed'
    BY <1>11 DEF Publish, process
<1>12. ASSUME NEW j \in Job, Heartbeat(j) PROVE WorkIsNamed'
    BY <1>12 DEF Heartbeat, Mine, Rec, process, records
<1>13. ASSUME NEW j \in Job, Leave(j) PROVE WorkIsNamed'
    BY <1>13 DEF Leave, Without, Mine, process, records
<1>16. ASSUME NEW j \in Job, LeaveUnreleased(j) PROVE WorkIsNamed'
    BY <1>16 DEF LeaveUnreleased, process, records
<1>17. ASSUME NEW j \in Job, AcquireFails(j) PROVE WorkIsNamed'
    BY <1>17 DEF AcquireFails, Settles, process, records
<1>14. ASSUME Tick PROVE WorkIsNamed'
    BY <1>14 DEF Tick, Least, records
<1>15. CASE UNCHANGED vars
  BY <1>15 DEF vars, process, records
<1> QED BY <1>1, <1>2, <1>3, <1>4, <1>5, <1>6, <1>7, <1>8, <1>9, <1>10, <1>11,
       <1>12, <1>13, <1>14, <1>15, <1>16, <1>17 DEF Next, Step

(* A job writes the keys of its workflow only. *)
LEMMA OwnStep == TypeOK /\ OwnKeys /\ [Next]_vars => OwnKeys'
<1> SUFFICES ASSUME TypeOK, OwnKeys, [Next]_vars PROVE OwnKeys'
  OBVIOUS
<1> USE JobAssumption, TimeAssumption, FileAssumption DEF TypeOK, OwnKeys
<1>1. ASSUME NEW p \in Proc, Boot(p) PROVE OwnKeys'
    BY <1>1 DEF Boot, records
<1>2. ASSUME NEW p \in Proc, NEW j \in Job, Resolve(p, j) PROVE OwnKeys'
    BY <1>2 DEF Resolve, Orphaned, Without, Mine, SameHost, Alive, records
<1>3. ASSUME NEW p \in Proc, Serve(p) PROVE OwnKeys'
    BY <1>3 DEF Serve, records
<1>4. ASSUME NEW p \in Proc, Die(p) PROVE OwnKeys'
    BY <1>4 DEF Die, Alive, Started, Over, records
<1>5. ASSUME NEW j \in Job, Start(j) PROVE OwnKeys'
    BY <1>5 DEF Start, process, records
<1>6. ASSUME NEW j \in Job, Cancel(j) PROVE OwnKeys'
    BY <1>6 DEF Cancel, Waits, process, records
<1>7. ASSUME NEW j \in Job, CheckCancel(j) PROVE OwnKeys'
    BY <1>7 DEF CheckCancel, Settles, process, records
<1>8. ASSUME NEW j \in Job, Take(j) PROVE OwnKeys'
    BY <1>8 DEF Take, Settles, Blockers, Taken, Stale, IsStale, SameHost,
       Alive, Holder, Rec, process, records
<1>9. ASSUME NEW j \in Job, Blocked(j) PROVE OwnKeys'
    BY <1>9 DEF Blocked, Settles, Stale, Taken, IsStale, SameHost, Alive,
       Holder, Without, process
<1>10. ASSUME NEW j \in Job, Wake(j) PROVE OwnKeys'
    BY <1>10 DEF Wake, process, records
<1>11. ASSUME NEW j \in Job, Publish(j) PROVE OwnKeys'
    BY <1>11 DEF Publish, process
<1>12. ASSUME NEW j \in Job, Heartbeat(j) PROVE OwnKeys'
    BY <1>12 DEF Heartbeat, Mine, Rec, process, records
<1>13. ASSUME NEW j \in Job, Leave(j) PROVE OwnKeys'
    BY <1>13 DEF Leave, Without, Mine, process, records
<1>16. ASSUME NEW j \in Job, LeaveUnreleased(j) PROVE OwnKeys'
    BY <1>16 DEF LeaveUnreleased, process, records
<1>17. ASSUME NEW j \in Job, AcquireFails(j) PROVE OwnKeys'
    BY <1>17 DEF AcquireFails, Settles, process, records
<1>14. ASSUME Tick PROVE OwnKeys'
    BY <1>14 DEF Tick, Least, records
<1>15. CASE UNCHANGED vars
  BY <1>15 DEF vars, process, records
<1> QED BY <1>1, <1>2, <1>3, <1>4, <1>5, <1>6, <1>7, <1>8, <1>9, <1>10, <1>11,
       <1>12, <1>13, <1>14, <1>15, <1>16, <1>17 DEF Next, Step

(* The files of a job go when it ends. *)
LEMMA FilesStep == TypeOK /\ OwnKeys /\ FilesHaveJobs /\ [Next]_vars => FilesHaveJobs'
<1> SUFFICES ASSUME TypeOK, OwnKeys, FilesHaveJobs, [Next]_vars PROVE FilesHaveJobs'
  OBVIOUS
<1> USE JobAssumption, TimeAssumption, FileAssumption DEF TypeOK, OwnKeys,
       FilesHaveJobs, Holds
<1>1. ASSUME NEW p \in Proc, Boot(p) PROVE FilesHaveJobs'
    BY <1>1 DEF Boot, records
<1>2. ASSUME NEW p \in Proc, NEW j \in Job, Resolve(p, j) PROVE FilesHaveJobs'
    BY <1>2 DEF Resolve, Orphaned, Without, Mine, SameHost, Alive, records
<1>3. ASSUME NEW p \in Proc, Serve(p) PROVE FilesHaveJobs'
    BY <1>3 DEF Serve, records
<1>4. ASSUME NEW p \in Proc, Die(p) PROVE FilesHaveJobs'
    BY <1>4 DEF Die, Alive, Started, Over, records
<1>5. ASSUME NEW j \in Job, Start(j) PROVE FilesHaveJobs'
    BY <1>5 DEF Start, process, records
<1>6. ASSUME NEW j \in Job, Cancel(j) PROVE FilesHaveJobs'
    BY <1>6 DEF Cancel, Waits, process, records
<1>7. ASSUME NEW j \in Job, CheckCancel(j) PROVE FilesHaveJobs'
    BY <1>7 DEF CheckCancel, Settles, process, records
<1>8. ASSUME NEW j \in Job, Take(j) PROVE FilesHaveJobs'
    BY <1>8 DEF Take, Settles, Blockers, Taken, Stale, IsStale, SameHost,
       Alive, Holder, Rec, process, records
<1>9. ASSUME NEW j \in Job, Blocked(j) PROVE FilesHaveJobs'
    BY <1>9 DEF Blocked, Settles, Stale, Taken, IsStale, SameHost, Alive,
       Holder, Without, process
<1>10. ASSUME NEW j \in Job, Wake(j) PROVE FilesHaveJobs'
    BY <1>10 DEF Wake, process, records
<1>11. ASSUME NEW j \in Job, Publish(j) PROVE FilesHaveJobs'
    BY <1>11 DEF Publish, process
<1>12. ASSUME NEW j \in Job, Heartbeat(j) PROVE FilesHaveJobs'
    BY <1>12 DEF Heartbeat, Mine, Rec, process, records
<1>13. ASSUME NEW j \in Job, Leave(j) PROVE FilesHaveJobs'
    BY <1>13 DEF Leave, Without, Mine, process, records
<1>16. ASSUME NEW j \in Job, LeaveUnreleased(j) PROVE FilesHaveJobs'
    BY <1>16 DEF LeaveUnreleased, process, records
<1>17. ASSUME NEW j \in Job, AcquireFails(j) PROVE FilesHaveJobs'
    BY <1>17 DEF AcquireFails, Settles, process, records
<1>14. ASSUME Tick PROVE FilesHaveJobs'
    BY <1>14 DEF Tick, Least, records
<1>15. CASE UNCHANGED vars
  BY <1>15 DEF vars, process, records
<1> QED BY <1>1, <1>2, <1>3, <1>4, <1>5, <1>6, <1>7, <1>8, <1>9, <1>10, <1>11,
       <1>12, <1>13, <1>14, <1>15, <1>16, <1>17 DEF Next, Step

(* A heartbeat comes from a process that is up. *)
LEMMA AgeStep == TypeOK /\ ThreadsLive /\ DeadAge /\ [Next]_vars => DeadAge'
<1> SUFFICES ASSUME TypeOK, ThreadsLive, DeadAge, [Next]_vars PROVE DeadAge'
  OBVIOUS
<1> USE JobAssumption, TimeAssumption, FileAssumption DEF TypeOK, ThreadsLive,
       DeadAge, Alive, Holder, Active
<1>1. ASSUME NEW p \in Proc, Boot(p) PROVE DeadAge'
    BY <1>1 DEF Boot, records
<1>2. ASSUME NEW p \in Proc, NEW j \in Job, Resolve(p, j) PROVE DeadAge'
    BY <1>2 DEF Resolve, Orphaned, Without, Mine, SameHost, Alive, records
<1>3. ASSUME NEW p \in Proc, Serve(p) PROVE DeadAge'
    BY <1>3 DEF Serve, records
<1>4. ASSUME NEW p \in Proc, Die(p) PROVE DeadAge'
    BY <1>4 DEF Die, Alive, Started, Over, records
<1>5. ASSUME NEW j \in Job, Start(j) PROVE DeadAge'
    BY <1>5 DEF Start, process, records
<1>6. ASSUME NEW j \in Job, Cancel(j) PROVE DeadAge'
    BY <1>6 DEF Cancel, Waits, process, records
<1>7. ASSUME NEW j \in Job, CheckCancel(j) PROVE DeadAge'
    BY <1>7 DEF CheckCancel, Settles, process, records
<1>8. ASSUME NEW j \in Job, Take(j) PROVE DeadAge'
    BY <1>8 DEF Take, Settles, Blockers, Taken, Stale, IsStale, SameHost,
       Alive, Holder, Rec, process, records
<1>9. ASSUME NEW j \in Job, Blocked(j) PROVE DeadAge'
    BY <1>9 DEF Blocked, Settles, Stale, Taken, IsStale, SameHost, Alive,
       Holder, Without, process
<1>10. ASSUME NEW j \in Job, Wake(j) PROVE DeadAge'
    BY <1>10 DEF Wake, process, records
<1>11. ASSUME NEW j \in Job, Publish(j) PROVE DeadAge'
    BY <1>11 DEF Publish, process
<1>12. ASSUME NEW j \in Job, Heartbeat(j) PROVE DeadAge'
    BY <1>12 DEF Heartbeat, Mine, Rec, process, records
<1>13. ASSUME NEW j \in Job, Leave(j) PROVE DeadAge'
    BY <1>13 DEF Leave, Without, Mine, process, records
<1>16. ASSUME NEW j \in Job, LeaveUnreleased(j) PROVE DeadAge'
    BY <1>16 DEF LeaveUnreleased, process, records
<1>17. ASSUME NEW j \in Job, AcquireFails(j) PROVE DeadAge'
    BY <1>17 DEF AcquireFails, Settles, process, records
<1>14. ASSUME Tick PROVE DeadAge'
    BY <1>14 DEF Tick, Least, records
<1>15. CASE UNCHANGED vars
  BY <1>15 DEF vars, process, records
<1> QED BY <1>1, <1>2, <1>3, <1>4, <1>5, <1>6, <1>7, <1>8, <1>9, <1>10, <1>11,
       <1>12, <1>13, <1>14, <1>15, <1>16, <1>17 DEF Next, Step

-----------------------------------------------------------------------------
(* All processes have the same host name: liveness of a holder is known.   *)
OneHostName == \A p, q \in Proc : SameHost(p, q)
(* A job that runs has the files of its workflow.                          *)
FilesHeld ==
    \A j \in Job : Holds(j) =>
        \A k \in KeysOf[j] : lock[k] # None /\ lock[k].job = j

(* Only a file of a dead holder is stale, or released by a restart. *)
LEMMA HoldsStep == OneHostName /\ TypeOK /\ ThreadsLive /\ FilesHeld /\ [Next]_vars => FilesHeld'
<1> SUFFICES ASSUME OneHostName, TypeOK, ThreadsLive, FilesHeld, [Next]_vars PROVE FilesHeld'
  OBVIOUS
<1> USE JobAssumption, TimeAssumption, FileAssumption DEF TypeOK, OneHostName,
       ThreadsLive, FilesHeld, Holds, Active
<1>1. ASSUME NEW p \in Proc, Boot(p) PROVE FilesHeld'
    BY <1>1 DEF Boot, records
<1>2. ASSUME NEW p \in Proc, NEW j \in Job, Resolve(p, j) PROVE FilesHeld'
    BY <1>2 DEF Resolve, Orphaned, Without, Mine, SameHost, Alive, records
<1>3. ASSUME NEW p \in Proc, Serve(p) PROVE FilesHeld'
    BY <1>3 DEF Serve, records
<1>4. ASSUME NEW p \in Proc, Die(p) PROVE FilesHeld'
    BY <1>4 DEF Die, Alive, Started, Over, records
<1>5. ASSUME NEW j \in Job, Start(j) PROVE FilesHeld'
    BY <1>5 DEF Start, process, records
<1>6. ASSUME NEW j \in Job, Cancel(j) PROVE FilesHeld'
    BY <1>6 DEF Cancel, Waits, process, records
<1>7. ASSUME NEW j \in Job, CheckCancel(j) PROVE FilesHeld'
    BY <1>7 DEF CheckCancel, Settles, process, records
<1>8. ASSUME NEW j \in Job, Take(j) PROVE FilesHeld'
  <2> SUFFICES ASSUME NEW i \in Job, NEW k \in KeysOf[i], Holds(i)'
               PROVE lock'[k] # None /\ lock'[k].job = i
    BY DEF FilesHeld
  <2>1. CASE i = j
    BY <1>8, <2>1 DEF Take, Rec
  <2>2. CASE i # j
    <3>1. Holds(i) /\ Alive(ProcOf[i]) /\ k \in Key
      BY <1>8, <2>2 DEF Take, Settles
    <3>2. lock[k] # None /\ lock[k].job = i
      BY <3>1
    <3>3. ~IsStale(k, ProcOf[j])
      BY <3>1, <3>2 DEF IsStale, Holder
    <3>4. k \notin KeysOf[j]
      BY <1>8, <3>1, <3>2, <3>3 DEF Take, Blockers, Taken, Stale
    <3> QED BY <1>8, <3>1, <3>2, <3>4 DEF Take
  <2> QED BY <2>1, <2>2
<1>9. ASSUME NEW j \in Job, Blocked(j) PROVE FilesHeld'
    BY <1>9 DEF Blocked, Settles, Stale, Taken, IsStale, SameHost, Alive,
       Holder, Without, process
<1>10. ASSUME NEW j \in Job, Wake(j) PROVE FilesHeld'
    BY <1>10 DEF Wake, process, records
<1>11. ASSUME NEW j \in Job, Publish(j) PROVE FilesHeld'
    BY <1>11 DEF Publish, process
<1>12. ASSUME NEW j \in Job, Heartbeat(j) PROVE FilesHeld'
    BY <1>12 DEF Heartbeat, Mine, Rec, process, records
<1>13. ASSUME NEW j \in Job, Leave(j) PROVE FilesHeld'
    BY <1>13 DEF Leave, Without, Mine, process, records
<1>16. ASSUME NEW j \in Job, LeaveUnreleased(j) PROVE FilesHeld'
    BY <1>16 DEF LeaveUnreleased, process, records
<1>17. ASSUME NEW j \in Job, AcquireFails(j) PROVE FilesHeld'
    BY <1>17 DEF AcquireFails, Settles, process, records
<1>14. ASSUME Tick PROVE FilesHeld'
    BY <1>14 DEF Tick, Least, records
<1>15. CASE UNCHANGED vars
  BY <1>15 DEF vars, process, records
<1> QED BY <1>1, <1>2, <1>3, <1>4, <1>5, <1>6, <1>7, <1>8, <1>9, <1>10, <1>11,
       <1>12, <1>13, <1>14, <1>15, <1>16, <1>17 DEF Next, Step

-----------------------------------------------------------------------------
(* The conjuncts above, with the types, are an inductive invariant: the    *)
(* files of a job are there while it runs, and nobody else may call them   *)
(* stale, because its process is up.                                       *)
IInv ==
    /\ TypeOK
    /\ ThreadsLive /\ DeadAreDead /\ WorkIsNamed
    /\ OwnKeys /\ FilesHaveJobs /\ DeadAge
    /\ OneHostName => FilesHeld

LEMMA IInvInit == Init => IInv
<1> SUFFICES ASSUME Init PROVE IInv
  OBVIOUS
<1>1. TypeOK
  BY TypeInit
<1>2. ThreadsLive /\ DeadAreDead /\ WorkIsNamed /\ FilesHeld
  BY DEF Init, ThreadsLive, DeadAreDead, WorkIsNamed, FilesHeld, Active, Holds
<1>3. OwnKeys /\ FilesHaveJobs /\ DeadAge
  BY DEF Init, OwnKeys, FilesHaveJobs, DeadAge
<1> QED BY <1>1, <1>2, <1>3 DEF IInv

LEMMA IInvStep == IInv /\ [Next]_vars => IInv'
<1> SUFFICES ASSUME IInv, [Next]_vars PROVE IInv'
  OBVIOUS
<1>1. TypeOK' /\ ThreadsLive' /\ DeadAreDead' /\ WorkIsNamed'
  BY TypeStep, ThreadsStep, DeadStep, NamedStep DEF IInv
<1>2. OwnKeys' /\ FilesHaveJobs' /\ DeadAge'
  BY OwnStep, FilesStep, AgeStep DEF IInv
<1>3. OneHostName => FilesHeld'
  BY HoldsStep DEF IInv
<1>4. OneHostName' <=> OneHostName
  BY DEF OneHostName, SameHost
<1> QED BY <1>1, <1>2, <1>3, <1>4 DEF IInv

LEMMA IInvAlways == Spec => []IInv
<1> QED BY IInvInit, IInvStep, PTL DEF Spec

(* On one host, no two jobs of a workflow run at once, in whichever        *)
(* process and after whatever restarts.                                    *)
THEOREM NeverTwoRunners == OneHostName => (Spec => []OneRunner)
<1>1. OneHostName /\ IInv => OneRunner
  BY JobAssumption DEF IInv, FilesHeld, OneRunner, TypeOK
<1> SUFFICES ASSUME OneHostName PROVE Spec => []OneRunner
  OBVIOUS
<1>2. IInv => OneRunner
  BY <1>1
<1> QED BY IInvAlways, <1>2, PTL

(* A lock file belongs to a running job, to one that died or to one whose  *)
(* release failed; a ttl after the process died it is stale for everyone.  *)
THEOREM NoLockWithoutJob == Spec => []NothingLeftLocked
<1>1. ASSUME IInv PROVE \A j \in Job : Mine(j) # {} => Holds(j) \/ pc[j] \in {"dead", "killed", "unreleased"}
  BY <1>1 DEF IInv, FilesHaveJobs, Mine
<1>2. ASSUME IInv, NEW k \in Key, NEW p \in Proc, lock[k] # None, gone[Holder(k)] > Ttl
      PROVE IsStale(k, p)
  <2> USE JobAssumption, TimeAssumption, FileAssumption, <1>2 DEF IInv, TypeOK
  <2>1. Holder(k) \in Proc /\ lock[k].age \in Nat /\ lock[k].age >= gone[Holder(k)]
    BY DEF DeadAge, Holder
  <2>2. up[Holder(k)] = "dead"
    BY <2>1 DEF DeadAge
  <2> QED BY <2>1, <2>2 DEF IsStale, Alive
<1>3. IInv => NothingLeftLocked
  BY <1>1, <1>2 DEF NothingLeftLocked
<1> QED BY IInvAlways, <1>3, PTL

-----------------------------------------------------------------------------
(* What the steps do to the files of a job that runs. *)
Owns(file, j) == file # None /\ file.job = j
KeepsFiles ==
    \A i \in Job : Holds(i) /\ pc'[i] = pc[i] =>
        \A k \in Key : lock'[k] # lock[k] => (Owns(lock[k], i) <=> Owns(lock'[k], i))

(* No step takes a file from a job that runs, or gives it one. *)
LEMMA KeepsStep == OneHostName /\ TypeOK /\ ThreadsLive /\ FilesHeld /\ [Next]_vars => KeepsFiles
<1> SUFFICES ASSUME OneHostName, TypeOK, ThreadsLive, FilesHeld, [Next]_vars PROVE KeepsFiles
  OBVIOUS
<1> USE JobAssumption, TimeAssumption, FileAssumption DEF TypeOK, OneHostName,
       ThreadsLive, KeepsFiles, Holds, Active, Owns
<1>1. ASSUME NEW p \in Proc, Boot(p) PROVE KeepsFiles
    BY <1>1 DEF Boot, records
<1>2. ASSUME NEW p \in Proc, NEW j \in Job, Resolve(p, j) PROVE KeepsFiles
    BY <1>2 DEF Resolve, Orphaned, Without, Mine, SameHost, Alive, records
<1>3. ASSUME NEW p \in Proc, Serve(p) PROVE KeepsFiles
    BY <1>3 DEF Serve, records
<1>4. ASSUME NEW p \in Proc, Die(p) PROVE KeepsFiles
    BY <1>4 DEF Die, Alive, Started, Over, records
<1>5. ASSUME NEW j \in Job, Start(j) PROVE KeepsFiles
    BY <1>5 DEF Start, process, records
<1>6. ASSUME NEW j \in Job, Cancel(j) PROVE KeepsFiles
    BY <1>6 DEF Cancel, Waits, process, records
<1>7. ASSUME NEW j \in Job, CheckCancel(j) PROVE KeepsFiles
    BY <1>7 DEF CheckCancel, Settles, process, records
<1>8. ASSUME NEW j \in Job, Take(j) PROVE KeepsFiles
  <2> SUFFICES ASSUME NEW i \in Job, Holds(i), pc'[i] = pc[i], NEW k \in Key
               PROVE lock'[k] # lock[k] => ~Owns(lock[k], i) /\ ~Owns(lock'[k], i)
    BY DEF KeepsFiles
  <2>1. i # j /\ Alive(ProcOf[i])
    BY <1>8 DEF Take, Settles
  <2>2. CASE k \notin KeysOf[j]
    BY <1>8, <2>2 DEF Take
  <2>3. CASE k \in KeysOf[j]
    <3>1. lock[k] = None \/ IsStale(k, ProcOf[j])
      BY <1>8, <2>3 DEF Take, Blockers, Taken, Stale
    <3>2. ~Owns(lock[k], i)
      BY <2>1, <3>1 DEF IsStale, Holder
    <3> QED BY <1>8, <2>1, <2>3, <3>2 DEF Take, Rec
  <2> QED BY <2>2, <2>3
<1>9. ASSUME NEW j \in Job, Blocked(j) PROVE KeepsFiles
    BY <1>9 DEF Blocked, Settles, Stale, Taken, IsStale, SameHost, Alive,
       Holder, Without, process
<1>10. ASSUME NEW j \in Job, Wake(j) PROVE KeepsFiles
    BY <1>10 DEF Wake, process, records
<1>11. ASSUME NEW j \in Job, Publish(j) PROVE KeepsFiles
    BY <1>11 DEF Publish, process
<1>12. ASSUME NEW j \in Job, Heartbeat(j) PROVE KeepsFiles
    BY <1>12 DEF Heartbeat, Mine, Rec, process, records
<1>13. ASSUME NEW j \in Job, Leave(j) PROVE KeepsFiles
    BY <1>13 DEF Leave, Without, Mine, process, records
<1>16. ASSUME NEW j \in Job, LeaveUnreleased(j) PROVE KeepsFiles
    BY <1>16 DEF LeaveUnreleased, process, records
<1>17. ASSUME NEW j \in Job, AcquireFails(j) PROVE KeepsFiles
    BY <1>17 DEF AcquireFails, Settles, process, records
<1>14. ASSUME Tick PROVE KeepsFiles
    BY <1>14 DEF Tick, Least, records
<1>15. CASE UNCHANGED vars
  BY <1>15 DEF vars, process, records
<1> QED BY <1>1, <1>2, <1>3, <1>4, <1>5, <1>6, <1>7, <1>8, <1>9, <1>10, <1>11,
       <1>12, <1>13, <1>14, <1>15, <1>16, <1>17 DEF Next, Step

(* A restart, a waiting job and the clock leave the lock files of a running *)
(* job alone, on one host.                                                 *)
THEOREM RunningKeepsLocks == OneHostName => (Spec => LiveHolderKeeps)
<1> SUFFICES ASSUME OneHostName PROVE Spec => LiveHolderKeeps
  OBVIOUS
<1>1. KeepsFiles => \A j \in Job : Holds(j) /\ pc'[j] = pc[j] => Mine(j)' = Mine(j)
  BY DEF KeepsFiles, Owns, Mine
<1>2. IInv /\ [Next]_vars => [\A j \in Job : Holds(j) /\ pc'[j] = pc[j] => Mine(j)' = Mine(j)]_vars
  BY <1>1, KeepsStep DEF IInv
<1> QED BY IInvAlways, <1>2, PTL DEF Spec, LiveHolderKeeps

-----------------------------------------------------------------------------
(* Only a restart resolves a record, and it finds the lock of a job that   *)
(* was at its work by the name in the record.                              *)
Released(j) == pc[j] = "killed" /\ resolved'[j] # resolved[j] => Mine(j)' = {}
LEMMA ResolveReleases == IInv /\ Next => \A j \in Job : Released(j)
<1> SUFFICES ASSUME IInv, Next, NEW j \in Job, pc[j] = "killed", resolved'[j] # resolved[j]
             PROVE Mine(j)' = {}
  BY DEF Released
<1>1. PICK p \in Proc, i \in Job : Resolve(p, i)
  BY DEF Next, Step, Boot, Serve, Die, Start, Cancel, Waits, CheckCancel, Take, Blocked, Wake, Publish,
         AcquireFails, Heartbeat, Leave, LeaveUnreleased, Tick, records
<1>2. i = j
  BY <1>1 DEF Resolve, IInv, TypeOK
<1>3. named[j] /\ ~Alive(ProcOf[j])
  BY DEF IInv, WorkIsNamed, DeadAreDead, Alive
<1>4. lock' = Without(Mine(j))
  BY <1>1, <1>2, <1>3 DEF Resolve, Orphaned
<1>5. ASSUME NEW k \in Key PROVE ~(lock'[k] # None /\ lock'[k].job = j)
  BY <1>4 DEF Without, Mine
<1> QED BY <1>5 DEF Mine

(* A resume need not wait for the job that died: its locks are gone.       *)
THEOREM KilledLeavesNothing == Spec => ResumeNeedNotWait
<1>1. IInv /\ [Next]_vars =>
        [\A j \in Job : pc[j] = "killed" /\ resolved'[j] # resolved[j] => Mine(j)' = {}]_vars
  BY ResolveReleases DEF Released
<1> QED BY IInvAlways, <1>1, PTL DEF Spec, ResumeNeedNotWait

-----------------------------------------------------------------------------
(* The file of a holder that is dead for longer than the ttl is stale, so  *)
(* it blocks nobody.                                                       *)
GivesUpRightly(j) ==
    pc[j] = "acquires" /\ pc'[j] = "busy" /\ Wait[j] > Ttl => \E k \in Blockers(j) : LivedMeanwhile(j, k)
LEMMA BlockedRightly == IInv /\ Next => \A j \in Job : GivesUpRightly(j)
<1> SUFFICES ASSUME IInv, Next, NEW j \in Job, pc[j] = "acquires", pc'[j] = "busy", Wait[j] > Ttl
             PROVE \E k \in Blockers(j) : LivedMeanwhile(j, k)
  BY DEF GivesUpRightly
<1> USE JobAssumption, TimeAssumption, FileAssumption DEF IInv, TypeOK
<1>1. PICK i \in Job : Blocked(i)
  <2>1. ASSUME NEW p \in Proc PROVE ~(Boot(p) \/ Serve(p) \/ Die(p) \/ \E i \in Job : Resolve(p, i))
    BY <2>1 DEF Boot, Serve, Resolve, Die
  <2>2. ASSUME NEW i \in Job PROVE ~(Start(i) \/ Cancel(i) \/ Wake(i) \/ Heartbeat(i))
    BY <2>2 DEF Start, Cancel, Wake, Heartbeat
  <2>3. ASSUME NEW i \in Job PROVE ~(CheckCancel(i) \/ Take(i) \/ AcquireFails(i))
    BY <2>3 DEF CheckCancel, Take, AcquireFails, Settles
  <2>4. ASSUME NEW i \in Job PROVE ~(Publish(i) \/ Leave(i) \/ LeaveUnreleased(i))
    BY <2>4 DEF Publish, Leave, LeaveUnreleased
  <2>5. ~Tick
    BY DEF Tick
  <2> QED BY <2>1, <2>2, <2>3, <2>4, <2>5 DEF Next, Step
<1>2. i = j
  BY <1>1 DEF Blocked, Settles
<1>3. PICK k \in Blockers(j) : GivesUp(j, k)
  BY <1>1, <1>2 DEF Blocked, Settles
<1>4. k \in Key /\ lock[k] # None /\ ~IsStale(k, ProcOf[j])
  BY DEF Blockers, Taken, Stale
<1>5. lock[k].age >= gone[Holder(k)] /\ Holder(k) \in Proc
  BY <1>4 DEF DeadAge, Holder
<1>6. CASE Alive(Holder(k))
  BY <1>6 DEF LivedMeanwhile
<1>7. CASE ~Alive(Holder(k))
  <2>1. lock[k].age <= Ttl
    BY <1>4, <1>7 DEF IsStale
  <2>2. Alive(ProcOf[j])
    BY DEF ThreadsLive, Active
  <2>3. waited[j] > Ttl
    BY <1>3, <1>7, <2>2 DEF GivesUp
  <2>4. gone[Holder(k)] < Ttl + 1
    <3>1. lock[k].age \in Nat /\ gone[Holder(k)] \in Nat
      BY <1>4, <1>5
    <3> QED BY <1>5, <2>1, <3>1
  <2>5. Least(waited[j], Ttl + 1) = Ttl + 1
    BY <2>3 DEF Least
  <2> QED BY <2>4, <2>5 DEF LivedMeanwhile
<1> QED BY <1>6, <1>7

(* A job whose wait is longer than the ttl never gives up on a dead one.   *)
THEOREM DeadNeverOutlasts == Spec => NeverGivesUpOnDead
<1>1. IInv /\ [Next]_vars =>
        [\A j \in Job : pc[j] = "acquires" /\ pc'[j] = "busy" /\ Wait[j] > Ttl =>
            \E k \in Blockers(j) : LivedMeanwhile(j, k)]_vars
  BY BlockedRightly DEF GivesUpRightly
<1> QED BY IInvAlways, <1>1, PTL DEF Spec, NeverGivesUpOnDead
=============================================================================
