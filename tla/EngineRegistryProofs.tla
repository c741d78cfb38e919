-------------------------- MODULE EngineRegistryProofs --------------------------
(* Proofs about EngineRegistry: for any keys, requests, payloads, caps and *)
(* crashes.  What a theorem assumes of Faults is in its statement: NoRace  *)
(* that no record is pruned inside a precheck, SavesWork that the durable  *)
(* file can be written.                                                    *)
EXTENDS EngineRegistry, FiniteSetTheorems, TLAPS

(* The registry, its file and the requests keep their types.               *)
LEMMA TypeInit == Init => RegistryType
<1> SUFFICES ASSUME Init PROVE RegistryType
  OBVIOUS
<1>1. ops \in [Key -> {None} \cup [payload : Payload, status : Final \cup {"running"}]]
  BY DEF Init
<1>2. file \in [Key -> {None} \cup [payload : Payload, status : Final]]
  BY DEF Init
<1>3. loaded \in BOOLEAN
  BY DEF Init
<1>4. crashes \in 0..MaxCrash
  BY BoundAssumption DEF Init
<1> QED BY <1>1, <1>2, <1>3, <1>4 DEF Init, RegistryType, Places

LEMMA PayloadIn == \A r \in Request : PayloadOf[r] \in Payload
  BY DEF Payload

(* A step keeps the types. *)
LEMMA TypeStep == RegistryType /\ [Next]_vars => RegistryType'
<1> SUFFICES ASSUME RegistryType, [Next]_vars PROVE RegistryType'
  OBVIOUS
<1> USE PayloadIn, RequestAssumption, KindAssumption, BoundAssumption DEF
       RegistryType, Rec, Final, Status, memory, disk, Places
<1>1. ASSUME NEW r \in Request, Arrive(r) PROVE RegistryType'
  <2>1. loaded' \in BOOLEAN
    BY <1>1 DEF Arrive, Load
  <2>2. ops' \in [Key -> {None} \cup [payload : Payload, status : Final \cup {"running"}]]
    BY <1>1 DEF Arrive, Load
  <2> QED BY <1>1, <2>1, <2>2 DEF Arrive, Goes
<1>2. ASSUME NEW r \in Request, TakeLock(r) PROVE RegistryType'
    BY <1>2 DEF TakeLock, Goes
<1>3. ASSUME NEW r \in Request, LockTimeout(r) PROVE RegistryType'
    BY <1>3 DEF LockTimeout, Goes
<1>4. ASSUME NEW r \in Request, Collision(r) PROVE RegistryType'
    BY <1>4 DEF Collision, Collides, Answer, Leave
<1>5. ASSUME NEW r \in Request, Exists(r) PROVE RegistryType'
    BY <1>5 DEF Exists, Collides, Goes
<1>6. ASSUME NEW r \in Request, Busy(r) PROVE RegistryType'
    BY <1>6 DEF Busy, Answer, Leave
<1>7. ASSUME NEW r \in Request, Refuse(r) PROVE RegistryType'
    BY <1>7 DEF Refuse, Answer, Leave
<1>8. ASSUME NEW r \in Request, Register(r) PROVE RegistryType'
    BY <1>8 DEF Register, Go, Goes
<1>9. ASSUME NEW r \in Request, Get(r) PROVE RegistryType'
    BY <1>9 DEF Get, Go, Answer, Leave
<1>10. ASSUME NEW r \in Request, Execute(r) PROVE RegistryType'
    BY <1>10 DEF Execute, Goes
<1>11. ASSUME NEW r \in Request, Finish(r) PROVE RegistryType'
  <2>1. Outcome(r) \in Final
    BY <1>11 DEF Finish, Outcome, Undone
  <2>2. ops' \in [Key -> {None} \cup [payload : Payload, status : Final \cup {"running"}]]
    BY <1>11, <2>1 DEF Finish, Update, Drop
  <2>3. file' \in [Key -> {None} \cup [payload : Payload, status : Final]]
    <3>1. CASE UNCHANGED file
      BY <3>1
    <3>2. CASE file' = [j \in Key |-> IF j \in Saves(ops') THEN ops'[j] ELSE None]
      BY <2>2, <3>2 DEF Saves, IsFinal
    <3> QED BY <1>11, <3>1, <3>2 DEF Finish, Update, WriteFile
  <2>4. reply' \in [Request -> {None} \cup [payload : Payload, status : Status]]
    BY <1>11, <2>1 DEF Finish, Answer
  <2> QED BY <1>11, <2>2, <2>3, <2>4 DEF Finish, Leave
<1>12. ASSUME Expire PROVE RegistryType'
    BY <1>12 DEF Expire, Pruned, Racing, Loses, Drop, Forgets
<1>13. ASSUME Evict PROVE RegistryType'
    BY <1>13 DEF Evict, Pruned, Racing, Loses, Drop, Forgets
<1>14. ASSUME Crash PROVE RegistryType'
  <2>1. loaded' \in BOOLEAN
    BY <1>14 DEF Crash
  <2>2. ops' \in [Key -> {None} \cup [payload : Payload, status : Final \cup {"running"}]]
    BY <1>14 DEF Crash
  <2>3. effect' \in [Key -> {"none", "remembered", "forgotten", "repeated"}]
    BY <1>14 DEF Crash, Restarts, Saved
  <2>4. crashes' \in 0..MaxCrash
    BY <1>14 DEF Crash
  <2> QED BY <1>14, <2>1, <2>2, <2>3, <2>4 DEF Crash
<1>15. CASE UNCHANGED vars
  BY <1>15 DEF vars
<1> QED BY <1>1, <1>2, <1>3, <1>4, <1>5, <1>6, <1>7, <1>8, <1>9, <1>10, <1>11,
       <1>12, <1>13, <1>14, <1>15 DEF Next, Step

(* The order of the final records is between keys. *)
LEMMA NewerStep ==
    RegistryType /\ newer \subseteq Key \X Key /\ [Next]_vars => newer' \subseteq Key \X Key
<1> SUFFICES ASSUME RegistryType, newer \subseteq Key \X Key, [Next]_vars
             PROVE newer' \subseteq Key \X Key
  OBVIOUS
<1> USE RequestAssumption DEF disk, Still
<1>1. ASSUME NEW r \in Request, Arrive(r) \/ Step(r) PROVE newer' \subseteq Key \X Key
  <2>1. CASE Finish(r)
    <3>1. KeyOf[r] \in Key /\ Dated(ops', file') \subseteq Key
      BY DEF Dated
    <3> QED BY <2>1, <3>1 DEF Finish, Update, Youngest
  <2> QED BY <1>1, <2>1 DEF Arrive, Step, TakeLock, LockTimeout, Collision, Exists, Busy,
         Refuse, Register, Get, Execute
<1>2. CASE Expire \/ Evict \/ Crash
  BY <1>2 DEF Expire, Evict, Crash, Pruned
<1>3. CASE UNCHANGED vars
  BY <1>3 DEF vars
<1> QED BY <1>1, <1>2, <1>3 DEF Next

(* Every variable keeps its type.                                          *)
THEOREM TypesKept == Spec => []TypeOK
<1>1. Init => TypeOK
  BY TypeInit DEF TypeOK, Init
<1>2. TypeOK /\ [Next]_vars => TypeOK'
  BY TypeStep, NewerStep DEF TypeOK
<1> QED BY <1>1, <1>2, PTL DEF Spec

-----------------------------------------------------------------------------
(* The lock of the mutations, and the file of this process.                *)
LockHeld ==
    \A r \in Request :
        /\ pc[r] \in {"runs", "ran"} => lock = r
        /\ pc[r] \in {"checks", "gets"} /\ Kind[KeyOf[r]] # "import" => lock = r
        /\ pc[r] \in {"peeks", "peeked"} => Kind[KeyOf[r]] = "step"
        /\ pc[r] \notin {"new", "done"} /\ Durable(KeyOf[r]) => loaded
OnlyLoaded == \A k \in Key : Durable(k) /\ ops[k] # None => loaded
(* What a precheck has seen is there when it is read.                      *)
SeenStays ==
    \A r \in Request : pc[r] \in {"gets", "peeked"} =>
        ops[KeyOf[r]] # None /\ ops[KeyOf[r]].payload = PayloadOf[r]
(* A running record is of the one request that registered it.              *)
Owner(r) == pc[r] \in {"queued", "runs", "ran"}
Owned ==
    /\ \A r \in Request : Owner(r) => ops[KeyOf[r]] # None /\ ops[KeyOf[r]].status = "running"
    /\ \A q, r \in Request : Owner(q) /\ Owner(r) /\ KeyOf[q] = KeyOf[r] => q = r
    /\ \A r \in Request : ended[r] = "undone" => Kind[KeyOf[r]] = "move"
(* The file has final records of durable operations.                       *)
FileFinal == \A k \in Key : file[k] # None => Durable(k)
(* Who says succeeded has seen the library change.                         *)
SuccessTrue ==
    /\ \A k \in Key : ops[k] # None /\ ops[k].status = "succeeded" => effect[k] # "none"
    /\ \A k \in Key : file[k] # None /\ file[k].status = "succeeded" => effect[k] # "none"
    /\ \A r \in Request : ended[r] = "succeeded" => effect[KeyOf[r]] # "none"
(* An effect that is remembered has a record, or a request about to write  *)
(* it, or it is in the file that this process has yet to load.             *)
Remembered ==
    \A k \in Key : effect[k] = "remembered" =>
        \/ ops[k] # None /\ ops[k].status = "succeeded"
        \/ \E r \in Request : KeyOf[r] = k /\ pc[r] = "ran" /\ ended[r] = "succeeded"
        \/ ~loaded /\ file[k] # None /\ file[k].status = "succeeded"
(* A success that is known is the success of a change that is remembered.  *)
SuccessKnown ==
    /\ \A k \in Key : ops[k] # None /\ ops[k].status = "succeeded" => effect[k] = "remembered"
    /\ \A k \in Key : ~loaded /\ Saved(k) => effect[k] = "remembered"
    /\ \A r \in Request : ended[r] = "succeeded" => effect[KeyOf[r]] = "remembered"
(* A request is answered when it leaves. *)
AnswersLast ==
    \A r \in Request :
        /\ reply[r] # None => pc[r] = "done"
        /\ ended[r] # "no" => pc[r] = "ran"
(* Only the keys that were ever registered have a record. *)
Recorded == {k \in Key : ops[k] # None \/ file[k] # None}
FewRecords == IsFiniteSet(Recorded)
NoRace == "prune-race" \notin Faults
SavesWork == "save-fails" \notin Faults

(* Whoever is past the lock has it. *)
LEMMA LockStep == RegistryType /\ LockHeld /\ [Next]_vars => LockHeld'
<1> SUFFICES ASSUME RegistryType, LockHeld, [Next]_vars PROVE LockHeld'
  OBVIOUS
<1> USE RequestAssumption, KindAssumption, BoundAssumption DEF RegistryType,
       Rec, Final, Status, memory, disk, NoRace, Racing, IsFinal, Durable, Places,
       LockHeld
<1>1. ASSUME NEW r \in Request, Arrive(r) PROVE LockHeld'
    BY <1>1 DEF Arrive, Load, Goes
<1>2. ASSUME NEW r \in Request, TakeLock(r) PROVE LockHeld'
    BY <1>2 DEF TakeLock, Goes
<1>3. ASSUME NEW r \in Request, LockTimeout(r) PROVE LockHeld'
    BY <1>3 DEF LockTimeout, Goes
<1>4. ASSUME NEW r \in Request, Collision(r) PROVE LockHeld'
    BY <1>4 DEF Collision, Collides, Answer, Leave
<1>5. ASSUME NEW r \in Request, Exists(r) PROVE LockHeld'
    BY <1>5 DEF Exists, Collides, Goes
<1>6. ASSUME NEW r \in Request, Busy(r) PROVE LockHeld'
    BY <1>6 DEF Busy, Answer, Leave
<1>7. ASSUME NEW r \in Request, Refuse(r) PROVE LockHeld'
    BY <1>7 DEF Refuse, Answer, Leave
<1>8. ASSUME NEW r \in Request, Register(r) PROVE LockHeld'
    BY <1>8 DEF Register, Go, Goes
<1>9. ASSUME NEW r \in Request, Get(r) PROVE LockHeld'
    BY <1>9 DEF Get, Go, Answer, Leave
<1>10. ASSUME NEW r \in Request, Execute(r) PROVE LockHeld'
    BY <1>10 DEF Execute, Goes
<1>11. ASSUME NEW r \in Request, Finish(r) PROVE LockHeld'
    BY <1>11 DEF Finish, Update, Answer, Leave, Undone, Outcome, WriteFile,
       Saves, Drop
<1>12. ASSUME Expire PROVE LockHeld'
    BY <1>12 DEF Expire, Pruned, Racing, Loses, Drop, Forgets
<1>13. ASSUME Evict PROVE LockHeld'
    BY <1>13 DEF Evict, Pruned, Racing, Loses, Drop, Forgets
<1>14. ASSUME Crash PROVE LockHeld'
    BY <1>14 DEF Crash, Restarts, Saved
<1>15. CASE UNCHANGED vars
  BY <1>15 DEF vars
<1> QED BY <1>1, <1>2, <1>3, <1>4, <1>5, <1>6, <1>7, <1>8, <1>9, <1>10, <1>11,
       <1>12, <1>13, <1>14, <1>15 DEF Next, Step

(* A durable key is registered after the file is loaded. *)
LEMMA LoadedStep == RegistryType /\ LockHeld /\ OnlyLoaded /\ [Next]_vars => OnlyLoaded'
<1> SUFFICES ASSUME RegistryType, LockHeld, OnlyLoaded, [Next]_vars PROVE OnlyLoaded'
  OBVIOUS
<1> USE RequestAssumption, KindAssumption, BoundAssumption DEF RegistryType,
       Rec, Final, Status, memory, disk, NoRace, Racing, IsFinal, Durable, Places,
       LockHeld, OnlyLoaded
<1>1. ASSUME NEW r \in Request, Arrive(r) PROVE OnlyLoaded'
    BY <1>1 DEF Arrive, Load, Goes
<1>2. ASSUME NEW r \in Request, TakeLock(r) PROVE OnlyLoaded'
    BY <1>2 DEF TakeLock, Goes
<1>3. ASSUME NEW r \in Request, LockTimeout(r) PROVE OnlyLoaded'
    BY <1>3 DEF LockTimeout, Goes
<1>4. ASSUME NEW r \in Request, Collision(r) PROVE OnlyLoaded'
    BY <1>4 DEF Collision, Collides, Answer, Leave
<1>5. ASSUME NEW r \in Request, Exists(r) PROVE OnlyLoaded'
    BY <1>5 DEF Exists, Collides, Goes
<1>6. ASSUME NEW r \in Request, Busy(r) PROVE OnlyLoaded'
    BY <1>6 DEF Busy, Answer, Leave
<1>7. ASSUME NEW r \in Request, Refuse(r) PROVE OnlyLoaded'
    BY <1>7 DEF Refuse, Answer, Leave
<1>8. ASSUME NEW r \in Request, Register(r) PROVE OnlyLoaded'
    BY <1>8 DEF Register, Go, Goes
<1>9. ASSUME NEW r \in Request, Get(r) PROVE OnlyLoaded'
    BY <1>9 DEF Get, Go, Answer, Leave
<1>10. ASSUME NEW r \in Request, Execute(r) PROVE OnlyLoaded'
    BY <1>10 DEF Execute, Goes
<1>11. ASSUME NEW r \in Request, Finish(r) PROVE OnlyLoaded'
    BY <1>11 DEF Finish, Update, Answer, Leave, Undone, Outcome, WriteFile,
       Saves, Drop
<1>12. ASSUME Expire PROVE OnlyLoaded'
    BY <1>12 DEF Expire, Pruned, Racing, Loses, Drop, Forgets
<1>13. ASSUME Evict PROVE OnlyLoaded'
    BY <1>13 DEF Evict, Pruned, Racing, Loses, Drop, Forgets
<1>14. ASSUME Crash PROVE OnlyLoaded'
    BY <1>14 DEF Crash, Restarts, Saved
<1>15. CASE UNCHANGED vars
  BY <1>15 DEF vars
<1> QED BY <1>1, <1>2, <1>3, <1>4, <1>5, <1>6, <1>7, <1>8, <1>9, <1>10, <1>11,
       <1>12, <1>13, <1>14, <1>15 DEF Next, Step

(* No record leaves under a precheck. *)
LEMMA SeenStep ==
    NoRace /\ RegistryType /\ LockHeld /\ Owned /\ SeenStays /\ [Next]_vars => SeenStays'
<1> SUFFICES ASSUME NoRace, RegistryType, LockHeld, Owned, SeenStays, [Next]_vars PROVE SeenStays'
  OBVIOUS
<1> USE RequestAssumption, KindAssumption, BoundAssumption DEF RegistryType,
       Rec, Final, Status, memory, disk, NoRace, Racing, IsFinal, Durable, Places,
       LockHeld, SeenStays, Owned, Owner
<1>1. ASSUME NEW r \in Request, Arrive(r) PROVE SeenStays'
    BY <1>1 DEF Arrive, Load, Goes
<1>2. ASSUME NEW r \in Request, TakeLock(r) PROVE SeenStays'
    BY <1>2 DEF TakeLock, Goes
<1>3. ASSUME NEW r \in Request, LockTimeout(r) PROVE SeenStays'
    BY <1>3 DEF LockTimeout, Goes
<1>4. ASSUME NEW r \in Request, Collision(r) PROVE SeenStays'
    BY <1>4 DEF Collision, Collides, Answer, Leave
<1>5. ASSUME NEW r \in Request, Exists(r) PROVE SeenStays'
    BY <1>5 DEF Exists, Collides, Goes
<1>6. ASSUME NEW r \in Request, Busy(r) PROVE SeenStays'
    BY <1>6 DEF Busy, Answer, Leave
<1>7. ASSUME NEW r \in Request, Refuse(r) PROVE SeenStays'
    BY <1>7 DEF Refuse, Answer, Leave
<1>8. ASSUME NEW r \in Request, Register(r) PROVE SeenStays'
    BY <1>8 DEF Register, Go, Goes
<1>9. ASSUME NEW r \in Request, Get(r) PROVE SeenStays'
    BY <1>9 DEF Get, Go, Answer, Leave
<1>10. ASSUME NEW r \in Request, Execute(r) PROVE SeenStays'
    BY <1>10 DEF Execute, Goes
<1>11. ASSUME NEW r \in Request, Finish(r) PROVE SeenStays'
  <2> SUFFICES ASSUME NEW q \in Request, pc'[q] \in {"gets", "peeked"}
               PROVE ops'[KeyOf[q]] # None /\ ops'[KeyOf[q]].payload = PayloadOf[q]
    BY DEF SeenStays
  <2>1. q # r /\ pc[q] \in {"gets", "peeked"} /\ ops[KeyOf[q]] # None
        /\ ops[KeyOf[q]].payload = PayloadOf[q]
    BY <1>11 DEF Finish, Leave
  <2>2. CASE KeyOf[q] = KeyOf[r]
    <3>1. ~Undone(r)
      BY <1>11, <2>1, <2>2 DEF Finish, Update, Undone
    <3>2. ops' = [ops EXCEPT ![KeyOf[r]].status = Outcome(r)]
      BY <1>11, <2>1, <2>2, <3>1 DEF Finish, Update
    <3>3. ops'[KeyOf[q]] = [ops[KeyOf[q]] EXCEPT !.status = Outcome(r)]
      BY <2>2, <3>2
    <3>4. ops[KeyOf[q]] \in [payload : Payload, status : Final \cup {"running"}]
      BY <2>1
    <3>5. ops'[KeyOf[q]] = [payload |-> PayloadOf[q], status |-> Outcome(r)]
      BY <2>1, <3>3, <3>4
    <3>6. Outcome(r) \in Status
      BY <1>11 DEF Finish, Outcome, Undone
    <3> QED BY <3>5, <3>6, PayloadIn
  <2>3. CASE KeyOf[q] # KeyOf[r]
    BY <1>11, <2>1, <2>3 DEF Finish, Update, Drop
  <2> QED BY <2>2, <2>3
<1>12. ASSUME Expire PROVE SeenStays'
    BY <1>12 DEF Expire, Pruned, Racing, Loses, Drop, Forgets
<1>13. ASSUME Evict PROVE SeenStays'
    BY <1>13 DEF Evict, Pruned, Racing, Loses, Drop, Forgets
<1>14. ASSUME Crash PROVE SeenStays'
    BY <1>14 DEF Crash, Restarts, Saved
<1>15. CASE UNCHANGED vars
  BY <1>15 DEF vars
<1> QED BY <1>1, <1>2, <1>3, <1>4, <1>5, <1>6, <1>7, <1>8, <1>9, <1>10, <1>11,
       <1>12, <1>13, <1>14, <1>15 DEF Next, Step

(* A key is registered when it has no record. *)
LEMMA OwnedStep ==
    NoRace /\ RegistryType /\ LockHeld /\ SeenStays /\ Owned /\ [Next]_vars => Owned'
<1> SUFFICES ASSUME NoRace, RegistryType, LockHeld, SeenStays, Owned, [Next]_vars PROVE Owned'
  OBVIOUS
<1> USE RequestAssumption, KindAssumption, BoundAssumption DEF RegistryType,
       Rec, Final, Status, memory, disk, NoRace, Racing, IsFinal, Durable, Places,
       LockHeld, SeenStays, Owned, Owner
<1>1. ASSUME NEW r \in Request, Arrive(r) PROVE Owned'
    BY <1>1 DEF Arrive, Load, Goes
<1>2. ASSUME NEW r \in Request, TakeLock(r) PROVE Owned'
    BY <1>2 DEF TakeLock, Goes
<1>3. ASSUME NEW r \in Request, LockTimeout(r) PROVE Owned'
    BY <1>3 DEF LockTimeout, Goes
<1>4. ASSUME NEW r \in Request, Collision(r) PROVE Owned'
    BY <1>4 DEF Collision, Collides, Answer, Leave
<1>5. ASSUME NEW r \in Request, Exists(r) PROVE Owned'
    BY <1>5 DEF Exists, Collides, Goes
<1>6. ASSUME NEW r \in Request, Busy(r) PROVE Owned'
    BY <1>6 DEF Busy, Answer, Leave
<1>7. ASSUME NEW r \in Request, Refuse(r) PROVE Owned'
    BY <1>7 DEF Refuse, Answer, Leave
<1>8. ASSUME NEW r \in Request, Register(r) PROVE Owned'
  <2>1. ops[KeyOf[r]] = None /\ ops' = [ops EXCEPT ![KeyOf[r]] = Rec(PayloadOf[r], "running")]
    BY <1>8 DEF Register
  <2>2. \A q \in Request : q # r => (Owner(q)' <=> Owner(q))
    BY <1>8 DEF Register, Goes
  <2>3. Rec(PayloadOf[r], "running") # None
    BY PayloadIn
  <2>4. \A q \in Request : q # r /\ Owner(q) => KeyOf[q] # KeyOf[r]
    BY <2>1
  <2>5. \A q \in Request : Owner(q)' => ops'[KeyOf[q]] # None /\ ops'[KeyOf[q]].status = "running"
    BY <2>1, <2>2, <2>3, <2>4
  <2>6. \A q, s \in Request : Owner(q)' /\ Owner(s)' /\ KeyOf[q] = KeyOf[s] => q = s
    BY <2>2, <2>4
  <2> QED BY <1>8, <2>5, <2>6 DEF Register
<1>9. ASSUME NEW r \in Request, Get(r) PROVE Owned'
    BY <1>9 DEF Get, Go, Answer, Leave
<1>10. ASSUME NEW r \in Request, Execute(r) PROVE Owned'
    BY <1>10 DEF Execute, Goes
<1>11. ASSUME NEW r \in Request, Finish(r) PROVE Owned'
    BY <1>11 DEF Finish, Update, Answer, Leave, Undone, Outcome, WriteFile,
       Saves, Drop
<1>12. ASSUME Expire PROVE Owned'
    BY <1>12 DEF Expire, Pruned, Racing, Loses, Drop, Forgets
<1>13. ASSUME Evict PROVE Owned'
    BY <1>13 DEF Evict, Pruned, Racing, Loses, Drop, Forgets
<1>14. ASSUME Crash PROVE Owned'
    BY <1>14 DEF Crash, Restarts, Saved
<1>15. CASE UNCHANGED vars
  BY <1>15 DEF vars
<1> QED BY <1>1, <1>2, <1>3, <1>4, <1>5, <1>6, <1>7, <1>8, <1>9, <1>10, <1>11,
       <1>12, <1>13, <1>14, <1>15 DEF Next, Step

(* The file is written from the final records. *)
LEMMA FileStep == RegistryType /\ FileFinal /\ [Next]_vars => FileFinal'
<1> SUFFICES ASSUME RegistryType, FileFinal, [Next]_vars PROVE FileFinal'
  OBVIOUS
<1> USE RequestAssumption, KindAssumption, BoundAssumption DEF RegistryType,
       Rec, Final, Status, memory, disk, NoRace, Racing, IsFinal, Durable, Places,
       FileFinal
<1>1. ASSUME NEW r \in Request, Arrive(r) PROVE FileFinal'
    BY <1>1 DEF Arrive, Load, Goes
<1>2. ASSUME NEW r \in Request, TakeLock(r) PROVE FileFinal'
    BY <1>2 DEF TakeLock, Goes
<1>3. ASSUME NEW r \in Request, LockTimeout(r) PROVE FileFinal'
    BY <1>3 DEF LockTimeout, Goes
<1>4. ASSUME NEW r \in Request, Collision(r) PROVE FileFinal'
    BY <1>4 DEF Collision, Collides, Answer, Leave
<1>5. ASSUME NEW r \in Request, Exists(r) PROVE FileFinal'
    BY <1>5 DEF Exists, Collides, Goes
<1>6. ASSUME NEW r \in Request, Busy(r) PROVE FileFinal'
    BY <1>6 DEF Busy, Answer, Leave
<1>7. ASSUME NEW r \in Request, Refuse(r) PROVE FileFinal'
    BY <1>7 DEF Refuse, Answer, Leave
<1>8. ASSUME NEW r \in Request, Register(r) PROVE FileFinal'
    BY <1>8 DEF Register, Go, Goes
<1>9. ASSUME NEW r \in Request, Get(r) PROVE FileFinal'
    BY <1>9 DEF Get, Go, Answer, Leave
<1>10. ASSUME NEW r \in Request, Execute(r) PROVE FileFinal'
    BY <1>10 DEF Execute, Goes
<1>11. ASSUME NEW r \in Request, Finish(r) PROVE FileFinal'
    BY <1>11 DEF Finish, Update, Answer, Leave, Undone, Outcome, WriteFile,
       Saves, Drop
<1>12. ASSUME Expire PROVE FileFinal'
    BY <1>12 DEF Expire, Pruned, Racing, Loses, Drop, Forgets
<1>13. ASSUME Evict PROVE FileFinal'
    BY <1>13 DEF Evict, Pruned, Racing, Loses, Drop, Forgets
<1>14. ASSUME Crash PROVE FileFinal'
    BY <1>14 DEF Crash, Restarts, Saved
<1>15. CASE UNCHANGED vars
  BY <1>15 DEF vars
<1> QED BY <1>1, <1>2, <1>3, <1>4, <1>5, <1>6, <1>7, <1>8, <1>9, <1>10, <1>11,
       <1>12, <1>13, <1>14, <1>15 DEF Next, Step

(* A success is written after the change. *)
LEMMA SuccessStep == RegistryType /\ SuccessTrue /\ [Next]_vars => SuccessTrue'
<1> SUFFICES ASSUME RegistryType, SuccessTrue, [Next]_vars PROVE SuccessTrue'
  OBVIOUS
<1> USE RequestAssumption, KindAssumption, BoundAssumption DEF RegistryType,
       Rec, Final, Status, memory, disk, NoRace, Racing, IsFinal, Durable, Places,
       SuccessTrue
<1>1. ASSUME NEW r \in Request, Arrive(r) PROVE SuccessTrue'
    BY <1>1 DEF Arrive, Load, Goes
<1>2. ASSUME NEW r \in Request, TakeLock(r) PROVE SuccessTrue'
    BY <1>2 DEF TakeLock, Goes
<1>3. ASSUME NEW r \in Request, LockTimeout(r) PROVE SuccessTrue'
    BY <1>3 DEF LockTimeout, Goes
<1>4. ASSUME NEW r \in Request, Collision(r) PROVE SuccessTrue'
    BY <1>4 DEF Collision, Collides, Answer, Leave
<1>5. ASSUME NEW r \in Request, Exists(r) PROVE SuccessTrue'
    BY <1>5 DEF Exists, Collides, Goes
<1>6. ASSUME NEW r \in Request, Busy(r) PROVE SuccessTrue'
    BY <1>6 DEF Busy, Answer, Leave
<1>7. ASSUME NEW r \in Request, Refuse(r) PROVE SuccessTrue'
    BY <1>7 DEF Refuse, Answer, Leave
<1>8. ASSUME NEW r \in Request, Register(r) PROVE SuccessTrue'
    BY <1>8 DEF Register, Go, Goes
<1>9. ASSUME NEW r \in Request, Get(r) PROVE SuccessTrue'
    BY <1>9 DEF Get, Go, Answer, Leave
<1>10. ASSUME NEW r \in Request, Execute(r) PROVE SuccessTrue'
    BY <1>10 DEF Execute, Goes
<1>11. ASSUME NEW r \in Request, Finish(r) PROVE SuccessTrue'
  <2> DEFINE k == KeyOf[r]
  <2>1. \A j \in Key : j # k => ops'[j] = ops[j]
    BY <1>11 DEF Finish, Update, Drop
  <2>2. ops'[k] # None /\ ops'[k].status = "succeeded" => effect[k] # "none"
    <3>1. CASE ops[k] = None \/ Undone(r)
      BY <1>11, <3>1 DEF Finish, Update, Drop
    <3>2. CASE ops[k] # None /\ ~Undone(r)
      <4>1. ops' = [ops EXCEPT ![k].status = Outcome(r)]
        BY <1>11, <3>2 DEF Finish, Update
      <4>2. ops'[k].status = Outcome(r)
        BY <3>2, <4>1
      <4> QED BY <1>11, <3>2, <4>2 DEF Finish, Outcome
    <3> QED BY <3>1, <3>2
  <2>3. \A j \in Key : ops'[j] # None /\ ops'[j].status = "succeeded" => effect[j] # "none"
    BY <2>1, <2>2
  <2>4. \A j \in Key : file'[j] # None => file'[j] = file[j] \/ file'[j] = ops'[j]
    BY <1>11 DEF Finish, Update, WriteFile
  <2>5. \A q \in Request : ended'[q] = "succeeded" => ended[q] = "succeeded"
    BY <1>11 DEF Finish
  <2>6. UNCHANGED effect
    BY <1>11 DEF Finish
  <2> QED BY <2>3, <2>4, <2>5, <2>6
<1>12. ASSUME Expire PROVE SuccessTrue'
    BY <1>12 DEF Expire, Pruned, Racing, Loses, Drop, Forgets
<1>13. ASSUME Evict PROVE SuccessTrue'
    BY <1>13 DEF Evict, Pruned, Racing, Loses, Drop, Forgets
<1>14. ASSUME Crash PROVE SuccessTrue'
    BY <1>14 DEF Crash, Restarts, Saved
<1>15. CASE UNCHANGED vars
  BY <1>15 DEF vars
<1> QED BY <1>1, <1>2, <1>3, <1>4, <1>5, <1>6, <1>7, <1>8, <1>9, <1>10, <1>11,
       <1>12, <1>13, <1>14, <1>15 DEF Next, Step

(* A change is remembered until the crash or the prune that forgets it. *)
LEMMA RememberedStep ==
    NoRace /\ RegistryType /\ LockHeld /\ Owned /\ OnlyLoaded /\ FileFinal /\ Remembered /\ [Next]_vars => Remembered'
<1> SUFFICES ASSUME NoRace, RegistryType, LockHeld, Owned, OnlyLoaded, FileFinal, Remembered, [Next]_vars PROVE Remembered'
  OBVIOUS
<1> USE RequestAssumption, KindAssumption, BoundAssumption DEF RegistryType,
       Rec, Final, Status, memory, disk, NoRace, Racing, IsFinal, Durable, Places,
       LockHeld, Owned, Owner, OnlyLoaded, FileFinal, Remembered
<1>1. ASSUME NEW r \in Request, Arrive(r) PROVE Remembered'
  <2> SUFFICES ASSUME NEW k \in Key, effect'[k] = "remembered"
               PROVE \/ ops'[k] # None /\ ops'[k].status = "succeeded"
                     \/ \E q \in Request : KeyOf[q] = k /\ pc'[q] = "ran" /\ ended'[q] = "succeeded"
                     \/ ~loaded' /\ file'[k] # None /\ file'[k].status = "succeeded"
    BY DEF Remembered
  <2>1. UNCHANGED <<file, ended, effect>> /\ \A q \in Request : pc[q] = "ran" => pc'[q] = "ran"
    BY <1>1 DEF Arrive, Goes
  <2>2. CASE UNCHANGED <<ops, loaded>>
    BY <2>1, <2>2
  <2>3. CASE /\ ~loaded /\ loaded' = TRUE
             /\ ops' = [j \in Key |-> IF ops[j] # None THEN ops[j] ELSE file[j]]
    <3>1. CASE ops[k] = None
      BY <2>1, <2>3, <3>1
    <3>2. CASE ops[k] # None /\ ops[k].status = "succeeded"
      BY <2>3, <3>2
    <3>3. CASE ops[k] # None /\ ops[k].status # "succeeded"
      BY <2>1, <2>3, <3>3
    <3> QED BY <3>1, <3>2, <3>3
  <2> QED BY <1>1, <2>2, <2>3 DEF Arrive, Load
<1>2. ASSUME NEW r \in Request, TakeLock(r) PROVE Remembered'
    BY <1>2 DEF TakeLock, Goes
<1>3. ASSUME NEW r \in Request, LockTimeout(r) PROVE Remembered'
    BY <1>3 DEF LockTimeout, Goes
<1>4. ASSUME NEW r \in Request, Collision(r) PROVE Remembered'
    BY <1>4 DEF Collision, Collides, Answer, Leave
<1>5. ASSUME NEW r \in Request, Exists(r) PROVE Remembered'
    BY <1>5 DEF Exists, Collides, Goes
<1>6. ASSUME NEW r \in Request, Busy(r) PROVE Remembered'
    BY <1>6 DEF Busy, Answer, Leave
<1>7. ASSUME NEW r \in Request, Refuse(r) PROVE Remembered'
    BY <1>7 DEF Refuse, Answer, Leave
<1>8. ASSUME NEW r \in Request, Register(r) PROVE Remembered'
    BY <1>8 DEF Register, Go, Goes
<1>9. ASSUME NEW r \in Request, Get(r) PROVE Remembered'
    BY <1>9 DEF Get, Go, Answer, Leave
<1>10. ASSUME NEW r \in Request, Execute(r) PROVE Remembered'
    BY <1>10 DEF Execute, Goes
<1>11. ASSUME NEW r \in Request, Finish(r) PROVE Remembered'
  <2> SUFFICES ASSUME NEW k \in Key, effect'[k] = "remembered"
               PROVE \/ ops'[k] # None /\ ops'[k].status = "succeeded"
                     \/ \E q \in Request : KeyOf[q] = k /\ pc'[q] = "ran" /\ ended'[q] = "succeeded"
                     \/ ~loaded' /\ file'[k] # None /\ file'[k].status = "succeeded"
    BY DEF Remembered
  <2>1. effect[k] = "remembered" /\ UNCHANGED loaded
        /\ \A q \in Request : q # r => pc'[q] = pc[q] /\ ended'[q] = ended[q]
    BY <1>11 DEF Finish, Leave
  <2>2. CASE KeyOf[r] # k
    <3>1. ops'[k] = ops[k]
      BY <1>11, <2>2 DEF Finish, Update, Drop
    <3>2. ~loaded => UNCHANGED file
      BY <1>11 DEF Finish, Update, WriteFile
    <3> QED BY <2>1, <2>2, <3>1, <3>2
  <2>3. CASE KeyOf[r] = k
    <3>1. ops[k] # None /\ ops[k].status = "running" /\ (Durable(k) => loaded)
      BY <1>11, <2>3 DEF Finish
    <3>2. ended[r] = "succeeded"
      BY <1>11, <2>1, <2>3, <3>1 DEF Finish
    <3>3. ops' = [ops EXCEPT ![k].status = "succeeded"]
      BY <1>11, <2>3, <3>1, <3>2 DEF Finish, Update, Undone, Outcome
    <3>4. ops[k] \in [payload : Payload, status : Final \cup {"running"}]
      BY <3>1
    <3>5. ops'[k] = [payload |-> ops[k].payload, status |-> "succeeded"]
      BY <3>3, <3>4
    <3> QED BY <3>4, <3>5
  <2> QED BY <2>2, <2>3
<1>12. ASSUME Expire PROVE Remembered'
    BY <1>12 DEF Expire, Pruned, Racing, Loses, Drop, Forgets
<1>13. ASSUME Evict PROVE Remembered'
    BY <1>13 DEF Evict, Pruned, Racing, Loses, Drop, Forgets
<1>14. ASSUME Crash PROVE Remembered'
    BY <1>14 DEF Crash, Restarts, Saved
<1>15. CASE UNCHANGED vars
  BY <1>15 DEF vars
<1> QED BY <1>1, <1>2, <1>3, <1>4, <1>5, <1>6, <1>7, <1>8, <1>9, <1>10, <1>11,
       <1>12, <1>13, <1>14, <1>15 DEF Next, Step

(* Nobody answers twice. *)
LEMMA AnswersStep == RegistryType /\ AnswersLast /\ [Next]_vars => AnswersLast'
<1> SUFFICES ASSUME RegistryType, AnswersLast, [Next]_vars PROVE AnswersLast'
  OBVIOUS
<1> USE RequestAssumption, KindAssumption, BoundAssumption DEF RegistryType,
       Rec, Final, Status, memory, disk, NoRace, Racing, IsFinal, Durable, Places,
       AnswersLast
<1>1. ASSUME NEW r \in Request, Arrive(r) PROVE AnswersLast'
    BY <1>1 DEF Arrive, Load, Goes
<1>2. ASSUME NEW r \in Request, TakeLock(r) PROVE AnswersLast'
    BY <1>2 DEF TakeLock, Goes
<1>3. ASSUME NEW r \in Request, LockTimeout(r) PROVE AnswersLast'
    BY <1>3 DEF LockTimeout, Goes
<1>4. ASSUME NEW r \in Request, Collision(r) PROVE AnswersLast'
    BY <1>4 DEF Collision, Collides, Answer, Leave
<1>5. ASSUME NEW r \in Request, Exists(r) PROVE AnswersLast'
    BY <1>5 DEF Exists, Collides, Goes
<1>6. ASSUME NEW r \in Request, Busy(r) PROVE AnswersLast'
    BY <1>6 DEF Busy, Answer, Leave
<1>7. ASSUME NEW r \in Request, Refuse(r) PROVE AnswersLast'
    BY <1>7 DEF Refuse, Answer, Leave
<1>8. ASSUME NEW r \in Request, Register(r) PROVE AnswersLast'
    BY <1>8 DEF Register, Go, Goes
<1>9. ASSUME NEW r \in Request, Get(r) PROVE AnswersLast'
    BY <1>9 DEF Get, Go, Answer, Leave
<1>10. ASSUME NEW r \in Request, Execute(r) PROVE AnswersLast'
    BY <1>10 DEF Execute, Goes
<1>11. ASSUME NEW r \in Request, Finish(r) PROVE AnswersLast'
    BY <1>11 DEF Finish, Update, Answer, Leave, Undone, Outcome, WriteFile,
       Saves, Drop
<1>12. ASSUME Expire PROVE AnswersLast'
    BY <1>12 DEF Expire, Pruned, Racing, Loses, Drop, Forgets
<1>13. ASSUME Evict PROVE AnswersLast'
    BY <1>13 DEF Evict, Pruned, Racing, Loses, Drop, Forgets
<1>14. ASSUME Crash PROVE AnswersLast'
    BY <1>14 DEF Crash, Restarts, Saved
<1>15. CASE UNCHANGED vars
  BY <1>15 DEF vars
<1> QED BY <1>1, <1>2, <1>3, <1>4, <1>5, <1>6, <1>7, <1>8, <1>9, <1>10, <1>11,
       <1>12, <1>13, <1>14, <1>15 DEF Next, Step

(* No step makes a record of many keys. *)
LEMMA FewStep == RegistryType /\ FewRecords /\ [Next]_vars => FewRecords'
<1> SUFFICES ASSUME RegistryType, FewRecords, [Next]_vars PROVE FewRecords'
  OBVIOUS
<1> USE RequestAssumption, KindAssumption DEF RegistryType, Rec, memory, disk, IsFinal, Recorded
<1>1. ASSUME NEW r \in Request, Register(r) PROVE FewRecords'
  <2>1. Recorded' \subseteq Recorded \cup {KeyOf[r]}
    BY <1>1 DEF Register
  <2>2. IsFiniteSet(Recorded \cup {KeyOf[r]})
    BY FS_AddElement DEF FewRecords
  <2> HIDE DEF Recorded
  <2> QED BY <2>1, <2>2, FS_Subset DEF FewRecords
<1>2. ASSUME Recorded' \subseteq Recorded PROVE FewRecords'
  BY <1>2, FS_Subset DEF FewRecords
<1>3. ASSUME NEW r \in Request, Finish(r) PROVE Recorded' \subseteq Recorded
  BY <1>3 DEF Finish, Update, WriteFile, Saves, Drop
<1>4. ASSUME NEW r \in Request, Arrive(r) \/ (Step(r) /\ ~Register(r) /\ ~Finish(r))
      PROVE Recorded' \subseteq Recorded
  BY <1>4 DEF Arrive, Load, Step, TakeLock, LockTimeout, Collision, Exists, Busy, Refuse,
     Get, Execute
<1>5. ASSUME Expire \/ Evict \/ Crash PROVE Recorded' \subseteq Recorded
  <2>1. CASE Expire
    BY <2>1 DEF Expire, Pruned, Drop
  <2>2. CASE Evict
    BY <2>2 DEF Evict, Pruned, Drop
  <2>3. CASE Crash
    BY <2>3 DEF Crash
  <2> QED BY <1>5, <2>1, <2>2, <2>3
<1>6. CASE UNCHANGED vars
  BY <1>2, <1>6 DEF vars
<1> QED BY <1>1, <1>2, <1>3, <1>4, <1>5, <1>6 DEF Next, Step

(* A change that a success is told of stays remembered. *)
LEMMA KnownStep ==
    NoRace /\ RegistryType /\ LockHeld /\ Owned /\ OnlyLoaded /\ FileFinal /\ SuccessTrue
      /\ Remembered /\ OncePerKey /\ OncePerKey' /\ AnswersLast /\ SuccessKnown /\ [Next]_vars => SuccessKnown'
<1> SUFFICES ASSUME NoRace, RegistryType, LockHeld, Owned, OnlyLoaded, FileFinal, SuccessTrue,
                    Remembered, OncePerKey, OncePerKey', AnswersLast, SuccessKnown, [Next]_vars
             PROVE SuccessKnown'
  OBVIOUS
<1> USE RequestAssumption, KindAssumption, BoundAssumption DEF RegistryType,
       Rec, Final, Status, memory, disk, NoRace, Racing, IsFinal, Durable, Places,
       LockHeld, Owned, Owner, OnlyLoaded, FileFinal, AnswersLast, SuccessKnown, Saved, OncePerKey
<1>1. ASSUME NEW r \in Request, Arrive(r) PROVE SuccessKnown'
    BY <1>1 DEF Arrive, Load, Goes
<1>2. ASSUME NEW r \in Request, TakeLock(r) PROVE SuccessKnown'
    BY <1>2 DEF TakeLock, Goes
<1>3. ASSUME NEW r \in Request, LockTimeout(r) PROVE SuccessKnown'
    BY <1>3 DEF LockTimeout, Goes
<1>4. ASSUME NEW r \in Request, Collision(r) PROVE SuccessKnown'
    BY <1>4 DEF Collision, Collides, Answer, Leave
<1>5. ASSUME NEW r \in Request, Exists(r) PROVE SuccessKnown'
    BY <1>5 DEF Exists, Collides, Goes
<1>6. ASSUME NEW r \in Request, Busy(r) PROVE SuccessKnown'
    BY <1>6 DEF Busy, Answer, Leave
<1>7. ASSUME NEW r \in Request, Refuse(r) PROVE SuccessKnown'
    BY <1>7 DEF Refuse, Answer, Leave
<1>8. ASSUME NEW r \in Request, Register(r) PROVE SuccessKnown'
    BY <1>8 DEF Register, Go, Goes
<1>9. ASSUME NEW r \in Request, Get(r) PROVE SuccessKnown'
    BY <1>9 DEF Get, Go, Answer, Leave
<1>10. ASSUME NEW r \in Request, Execute(r) PROVE SuccessKnown'
    BY <1>10 DEF Execute, Goes
<1>11. ASSUME NEW r \in Request, Finish(r) PROVE SuccessKnown'
    BY <1>11 DEF Finish, Update, Answer, Leave, Undone, Outcome, WriteFile,
       Saves, Drop
<1>12. ASSUME Expire PROVE SuccessKnown'
  <2> PICK k \in Dated(ops, file) : file' = Drop(file, {k}) /\ Pruned({k})
    BY <1>12 DEF Expire
  <2>1. k \in Key /\ UNCHANGED <<loaded, ended>>
    BY <1>12 DEF Expire, Dated
  <2>2. \A j \in Key : j # k => ops'[j] = ops[j] /\ file'[j] = file[j] /\ effect'[j] = effect[j]
    BY DEF Pruned, Drop, Forgets
  <2>3. file'[k] = None /\ (IsFinal(ops, k) => ops'[k] = None)
    BY <2>1 DEF Pruned, Drop
  <2>4. CASE IsFinal(ops, k)
    <3>1. \A r \in Request : ended[r] = "succeeded" => KeyOf[r] # k
      BY <2>4
    <3>2. \A j \in Key : ops'[j] # None => j # k
      BY <2>3, <2>4
    <3>3. \A j \in Key : Saved(j)' => j # k
      BY <2>3
    <3>4. \A j \in Key : j # k => (Saved(j)' <=> Saved(j))
      BY <2>2
    <3> HIDE DEF Saved
    <3> QED BY <2>1, <2>2, <3>1, <3>2, <3>3, <3>4
  <2>5. CASE ~IsFinal(ops, k) /\ loaded
    BY <2>1, <2>2, <2>5 DEF Pruned, Drop, Forgets, Loses
  <2>6. CASE ~IsFinal(ops, k) /\ ~loaded
    <3>1. Durable(k) /\ ops[k] = None
      BY <2>1, <2>6 DEF Dated
    <3>2. \A r \in Request : ended[r] = "succeeded" => KeyOf[r] # k
      BY <3>1
    <3>3. ops'[k] = None
      BY <2>1, <3>1 DEF Pruned, Drop
    <3>4. \A j \in Key : ops'[j] # None => j # k
      BY <3>3
    <3>5. \A j \in Key : Saved(j)' => j # k
      BY <2>3
    <3>6. \A j \in Key : j # k => (Saved(j)' <=> Saved(j))
      BY <2>2
    <3> HIDE DEF Saved
    <3> QED BY <2>1, <2>2, <3>2, <3>4, <3>5, <3>6
  <2> QED BY <2>4, <2>5, <2>6
<1>13. ASSUME Evict PROVE SuccessKnown'
  <2>1. UNCHANGED <<loaded, ended, file>>
    BY <1>13 DEF Evict
  <2>2. \A j \in Key : j \notin OverCap(ops) => ops'[j] = ops[j] /\ effect'[j] = effect[j]
    BY <1>13 DEF Evict, Pruned, Drop, Forgets
  <2>3. \A j \in OverCap(ops) : j \in Key /\ ops[j] # None /\ ops[j].status \in Final
    BY DEF OverCap
  <2>4. \A j \in OverCap(ops) : ops'[j] = None
    BY <1>13, <2>3 DEF Evict, Pruned, Drop
  <2>5. \A j \in Key : ops'[j] # None => ops'[j] = ops[j] /\ effect'[j] = effect[j]
    BY <2>2, <2>4
  <2>6. \A j \in Key : ~loaded /\ Saved(j) => effect'[j] = effect[j]
    BY <2>2, <2>3
  <2>7. \A r \in Request : ended[r] = "succeeded" => effect'[KeyOf[r]] = effect[KeyOf[r]]
    BY <2>2, <2>3
  <2>8. \A j \in Key : Saved(j)' <=> Saved(j)
    BY <2>1
  <2> HIDE DEF Saved
  <2> QED BY <2>1, <2>8, <2>5, <2>6, <2>7
<1>14. ASSUME Crash PROVE SuccessKnown'
    BY <1>14 DEF Crash, Restarts, SuccessTrue
<1>15. CASE UNCHANGED vars
  BY <1>15 DEF vars
<1> QED BY <1>1, <1>2, <1>3, <1>4, <1>5, <1>6, <1>7, <1>8, <1>9, <1>10, <1>11,
       <1>12, <1>13, <1>14, <1>15 DEF Next, Step

-----------------------------------------------------------------------------
(* The properties themselves.                                              *)

(* A second change needs a request that runs, and its key has no remembered one. *)
LEMMA OnceStep ==
    NoRace /\ RegistryType /\ LockHeld /\ OnlyLoaded /\ Owned /\ FileFinal /\ Remembered /\ OncePerKey /\ [Next]_vars => OncePerKey'
<1> SUFFICES ASSUME NoRace, RegistryType, LockHeld, OnlyLoaded, Owned, FileFinal, Remembered, OncePerKey, [Next]_vars PROVE OncePerKey'
  OBVIOUS
<1> USE RequestAssumption, KindAssumption, BoundAssumption DEF RegistryType,
       Rec, Final, Status, memory, disk, NoRace, Racing, IsFinal, Durable, Places,
       LockHeld, Owned, Owner, FileFinal, OncePerKey
<1>1. ASSUME NEW r \in Request, Arrive(r) PROVE OncePerKey'
    BY <1>1 DEF Arrive, Load, Goes
<1>2. ASSUME NEW r \in Request, TakeLock(r) PROVE OncePerKey'
    BY <1>2 DEF TakeLock, Goes
<1>3. ASSUME NEW r \in Request, LockTimeout(r) PROVE OncePerKey'
    BY <1>3 DEF LockTimeout, Goes
<1>4. ASSUME NEW r \in Request, Collision(r) PROVE OncePerKey'
    BY <1>4 DEF Collision, Collides, Answer, Leave
<1>5. ASSUME NEW r \in Request, Exists(r) PROVE OncePerKey'
    BY <1>5 DEF Exists, Collides, Goes
<1>6. ASSUME NEW r \in Request, Busy(r) PROVE OncePerKey'
    BY <1>6 DEF Busy, Answer, Leave
<1>7. ASSUME NEW r \in Request, Refuse(r) PROVE OncePerKey'
    BY <1>7 DEF Refuse, Answer, Leave
<1>8. ASSUME NEW r \in Request, Register(r) PROVE OncePerKey'
    BY <1>8 DEF Register, Go, Goes
<1>9. ASSUME NEW r \in Request, Get(r) PROVE OncePerKey'
    BY <1>9 DEF Get, Go, Answer, Leave
<1>10. ASSUME NEW r \in Request, Execute(r) PROVE OncePerKey'
  <2>1. effect[KeyOf[r]] # "remembered"
    BY <1>10 DEF Execute, Goes, Remembered
  <2> QED BY <1>10, <2>1 DEF Execute
<1>11. ASSUME NEW r \in Request, Finish(r) PROVE OncePerKey'
    BY <1>11 DEF Finish, Update, Answer, Leave, Undone, Outcome, WriteFile,
       Saves, Drop
<1>12. ASSUME Expire PROVE OncePerKey'
    BY <1>12 DEF Expire, Pruned, Racing, Loses, Drop, Forgets
<1>13. ASSUME Evict PROVE OncePerKey'
    BY <1>13 DEF Evict, Pruned, Racing, Loses, Drop, Forgets
<1>14. ASSUME Crash PROVE OncePerKey'
    BY <1>14 DEF Crash, Restarts, Saved
<1>15. CASE UNCHANGED vars
  BY <1>15 DEF vars
<1> QED BY <1>1, <1>2, <1>3, <1>4, <1>5, <1>6, <1>7, <1>8, <1>9, <1>10, <1>11,
       <1>12, <1>13, <1>14, <1>15 DEF Next, Step

(* The file is written with every final outcome. *)
LEMMA SavedStep ==
    RegistryType /\ LockHeld /\ OnlyLoaded /\ OutcomeSaved /\ [Next]_vars => OutcomeSaved'
<1> SUFFICES ASSUME RegistryType, LockHeld, OnlyLoaded, OutcomeSaved, [Next]_vars PROVE OutcomeSaved'
  OBVIOUS
<1> USE RequestAssumption, KindAssumption, BoundAssumption DEF RegistryType,
       Rec, Final, Status, memory, disk, NoRace, Racing, IsFinal, Durable, Places,
       LockHeld, OnlyLoaded, OutcomeSaved
<1>1. ASSUME NEW r \in Request, Arrive(r) PROVE OutcomeSaved'
    BY <1>1 DEF Arrive, Load, Goes
<1>2. ASSUME NEW r \in Request, TakeLock(r) PROVE OutcomeSaved'
    BY <1>2 DEF TakeLock, Goes
<1>3. ASSUME NEW r \in Request, LockTimeout(r) PROVE OutcomeSaved'
    BY <1>3 DEF LockTimeout, Goes
<1>4. ASSUME NEW r \in Request, Collision(r) PROVE OutcomeSaved'
    BY <1>4 DEF Collision, Collides, Answer, Leave
<1>5. ASSUME NEW r \in Request, Exists(r) PROVE OutcomeSaved'
    BY <1>5 DEF Exists, Collides, Goes
<1>6. ASSUME NEW r \in Request, Busy(r) PROVE OutcomeSaved'
    BY <1>6 DEF Busy, Answer, Leave
<1>7. ASSUME NEW r \in Request, Refuse(r) PROVE OutcomeSaved'
    BY <1>7 DEF Refuse, Answer, Leave
<1>8. ASSUME NEW r \in Request, Register(r) PROVE OutcomeSaved'
    BY <1>8 DEF Register, Go, Goes
<1>9. ASSUME NEW r \in Request, Get(r) PROVE OutcomeSaved'
    BY <1>9 DEF Get, Go, Answer, Leave
<1>10. ASSUME NEW r \in Request, Execute(r) PROVE OutcomeSaved'
    BY <1>10 DEF Execute, Goes
<1>11. ASSUME NEW r \in Request, Finish(r) PROVE OutcomeSaved'
    BY <1>11 DEF Finish, Update, Answer, Leave, Undone, Outcome, WriteFile,
       Saves, Drop
<1>12. ASSUME Expire PROVE OutcomeSaved'
    BY <1>12 DEF Expire, Pruned, Racing, Loses, Drop, Forgets
<1>13. ASSUME Evict PROVE OutcomeSaved'
    BY <1>13 DEF Evict, Pruned, Racing, Loses, Drop, Forgets
<1>14. ASSUME Crash PROVE OutcomeSaved'
    BY <1>14 DEF Crash, Restarts, Saved
<1>15. CASE UNCHANGED vars
  BY <1>15 DEF vars
<1> QED BY <1>1, <1>2, <1>3, <1>4, <1>5, <1>6, <1>7, <1>8, <1>9, <1>10, <1>11,
       <1>12, <1>13, <1>14, <1>15 DEF Next, Step

-----------------------------------------------------------------------------
(* The conjuncts above are an inductive invariant.  OncePerKey needs them  *)
(* all: that a request which runs is the only owner of its record, and     *)
(* that a change is remembered by a record, by the request that is about   *)
(* to write it, or by the file.                                            *)
IInv ==
    /\ RegistryType /\ LockHeld /\ OnlyLoaded /\ FileFinal
    /\ SuccessTrue /\ OutcomeSaved /\ AnswersLast /\ FewRecords
    /\ NoRace => SeenStays /\ Owned /\ Remembered /\ OncePerKey /\ SuccessKnown

LEMMA IInvInit == Init => IInv
<1> SUFFICES ASSUME Init PROVE IInv
  OBVIOUS
<1>1. RegistryType
  BY TypeInit
<1>2. LockHeld /\ OnlyLoaded /\ SeenStays
  BY DEF Init, LockHeld, OnlyLoaded, SeenStays
<1>3. FileFinal /\ SuccessTrue /\ OutcomeSaved
  BY DEF Init, FileFinal, SuccessTrue, OutcomeSaved, IsFinal
<1>4. Owned /\ Remembered
  BY DEF Init, Owned, Owner, Remembered
<1>5. OncePerKey
  BY DEF Init, OncePerKey
<1>6. AnswersLast /\ FewRecords
  <2>1. Recorded = {}
    BY DEF Init, Recorded
  <2> QED BY <2>1, FS_EmptySet DEF Init, AnswersLast, FewRecords
<1>7. SuccessKnown
  BY DEF Init, SuccessKnown, Saved
<1> QED BY <1>1, <1>2, <1>3, <1>4, <1>5, <1>6, <1>7 DEF IInv

LEMMA IInvStep == IInv /\ [Next]_vars => IInv'
<1> SUFFICES ASSUME IInv, [Next]_vars PROVE IInv'
  OBVIOUS
<1>1. RegistryType' /\ LockHeld' /\ OnlyLoaded'
  BY TypeStep, LockStep, LoadedStep DEF IInv
<1>2. FileFinal' /\ SuccessTrue' /\ OutcomeSaved'
  BY FileStep, SuccessStep, SavedStep DEF IInv
<1>3. AnswersLast' /\ FewRecords'
  BY AnswersStep, FewStep DEF IInv
<1>4. ASSUME NoRace PROVE SeenStays' /\ Owned' /\ Remembered' /\ OncePerKey'
  BY <1>4, SeenStep, OwnedStep, RememberedStep, OnceStep DEF IInv
<1>5. ASSUME NoRace PROVE SuccessKnown'
  BY <1>4, <1>5, KnownStep DEF IInv
<1>6. NoRace' <=> NoRace
  BY DEF NoRace
<1> QED BY <1>1, <1>2, <1>3, <1>4, <1>5, <1>6 DEF IInv

LEMMA IInvAlways == Spec => []IInv
<1> QED BY IInvInit, IInvStep, PTL DEF Spec

(* A key changes the library a second time only when its outcome was lost  *)
(* in a crash or pruned.                                                   *)
THEOREM KeyRunsOnce == NoRace => (Spec => []OncePerKey)
<1> SUFFICES ASSUME NoRace PROVE Spec => []OncePerKey
  OBVIOUS
<1>1. IInv => OncePerKey
  BY DEF IInv
<1> QED BY IInvAlways, <1>1, PTL

(* A final outcome of a durable operation is in the file before its answer *)
(* is given.                                                               *)
THEOREM OutcomesAreSaved == Spec => []OutcomeSaved
<1>1. IInv => OutcomeSaved
  BY DEF IInv
<1> QED BY IInvAlways, <1>1, PTL
-----------------------------------------------------------------------------
(* A burst of operations, and the contract of a replayed key.              *)

(* Only the cap of its own kind takes a durable record from memory alone.  *)
LEMMA BurstStep ==
    ASSUME NoRace, SavesWork, IInv, Next, NEW k \in DurableFinal,
           k \notin DurableFinal', loaded', file' = file
    PROVE  Cardinality(DurableFinal) > MaxCompleted
<1> USE DEF IInv, NoRace, SavesWork
<1>1. k \in Key /\ Durable(k) /\ IsFinal(ops, k) /\ ops[k] # None /\ ops[k].status \in Final
  BY DEF DurableFinal, IsFinal
<1>2. ~IsFinal(ops', k)
  BY <1>1 DEF DurableFinal, Durable, IsFinal
<1>3. ASSUME NEW r \in Request, Arrive(r) \/ Step(r) PROVE FALSE
  <2>1. KeyOf[r] \in Key
    BY RequestAssumption
  <2>2. CASE Finish(r)
    <3>1. ops[KeyOf[r]] # None /\ ops[KeyOf[r]].status = "running"
      BY <2>2 DEF Finish, Owned, Owner
    <3>2. KeyOf[r] # k
      BY <1>1, <3>1 DEF Final
    <3>3. ops'[k] = ops[k]
      BY <1>1, <2>1, <2>2, <3>2 DEF Finish, Update, Drop, RegistryType
    <3> QED BY <1>1, <1>2, <3>3 DEF IsFinal
  <2>3. CASE Arrive(r)
    BY <1>1, <1>2, <2>3 DEF Arrive, Load, IsFinal
  <2>4. CASE Register(r)
    BY <1>1, <1>2, <2>1, <2>4 DEF Register, IsFinal, RegistryType
  <2> QED BY <1>1, <1>2, <1>3, <2>2, <2>3, <2>4 DEF Step, TakeLock, LockTimeout, Collision,
         Exists, Busy, Refuse, Get, Execute, memory
<1>4. ~Expire
  <2> SUFFICES ASSUME NEW j \in Dated(ops, file), file' = Drop(file, {j}), Pruned({j}) PROVE FALSE
    BY DEF Expire
  <2>1. j \in Key
    BY DEF Dated
  <2>2. CASE j = k
    <3>1. file[k] = ops[k]
      BY <1>1 DEF OutcomeSaved
    <3>2. file'[k] = None
      BY <2>1, <2>2 DEF Drop, RegistryType
    <3> QED BY <1>1, <3>1, <3>2
  <2>3. CASE j # k
    BY <1>1, <1>2, <2>3 DEF Pruned, Drop, IsFinal, RegistryType
  <2> QED BY <2>2, <2>3
<1>5. ~Crash
  BY DEF Crash
<1>6. Evict
  BY <1>3, <1>4, <1>5 DEF Next
<1>7. k \in OverCap(ops)
  BY <1>1, <1>2, <1>6 DEF Evict, Pruned, Drop, IsFinal, RegistryType
<1> DEFINE Over == {j \in Key : IsFinal(ops, j) /\ SameKind(j, k) /\ (j = k \/ <<j, k>> \in newer)}
<1>8. MaxCompleted < Cardinality(Over)
  BY <1>7 DEF OverCap
<1>9. Over \subseteq DurableFinal
  BY <1>1 DEF DurableFinal, SameKind
<1>10. IsFiniteSet(DurableFinal)
  <2>1. DurableFinal \subseteq Recorded
    BY DEF DurableFinal, Recorded, IsFinal
  <2> QED BY <2>1, FS_Subset DEF FewRecords
<1>11. Cardinality(Over) <= Cardinality(DurableFinal) /\ Cardinality(Over) \in Nat
       /\ Cardinality(DurableFinal) \in Nat
  BY <1>9, <1>10, FS_Subset, FS_CardinalityType
<1> QED BY <1>8, <1>11, BoundAssumption

(* A durable record is in memory until it expires, Beets stops, or its own *)
(* kind is over the cap.                                                   *)
THEOREM BurstsKeepDurable == NoRace /\ SavesWork => (Spec => BurstKeepsDurable)
<1> SUFFICES ASSUME NoRace, SavesWork PROVE Spec => BurstKeepsDurable
  OBVIOUS
<1>1. IInv /\ [Next]_vars =>
        [\A k \in DurableFinal :
           k \notin DurableFinal' /\ loaded' /\ file' = file
               => Cardinality(DurableFinal) > MaxCompleted]_vars
  BY BurstStep
<1> QED BY IInvAlways, <1>1, PTL DEF Spec, BurstKeepsDurable
(* What a client knows of a key, case by case, before and after a step.    *)
Told == [k \in Key |-> Known(k)]
Found == {k \in Key : Saved(k) /\ Loses(k)}
LEMMA KnownCases ==
    \A k \in Key :
        /\ effect[k] # "remembered" => Told[k] = effect[k]
        /\ effect[k] = "remembered" => Told[k] = IF k \in Found THEN "kept" ELSE "done"
        /\ effect'[k] # "remembered" => Told'[k] = effect'[k]
        /\ effect'[k] = "remembered" => Told'[k] = IF k \in Found' THEN "kept" ELSE "done"
  BY DEF Told, Known, Found

(* A step that changes neither an effect nor where it would be found again *)
(* is a stutter for the clients.                                           *)
LEMMA SameTold ==
    ASSUME effect' = effect,
           \A k \in Key : effect[k] = "remembered" => (k \in Found' <=> k \in Found)
    PROVE  Told' = Told
<1>1. \A k \in Key : Told'[k] = Told[k]
  BY KnownCases
<1>2. Told = [k \in Key |-> Told[k]] /\ Told' = [k \in Key |-> Told'[k]]
  BY DEF Told
<1> QED BY <1>1, <1>2

ContractStep == [Contract!Next]_<<Told, reply, crashes>>

(* One step of a request that is neither the change nor the end of it.     *)
LEMMA AskStep ==
    ASSUME NoRace, SavesWork, IInv, NEW r \in Request,
           Arrive(r) \/ TakeLock(r) \/ LockTimeout(r) \/ Exists(r) \/ Register(r)
    PROVE  ContractStep
<1>1. KeyOf[r] \in Key
  BY RequestAssumption
<1>2. UNCHANGED <<effect, reply, crashes, file>>
  BY DEF Arrive, TakeLock, LockTimeout, Exists, Register, disk, memory
<1>3. ASSUME NEW k \in Key PROVE k \in Found' <=> k \in Found
  <2>1. CASE Arrive(r)
    <3>1. CASE UNCHANGED <<ops, loaded>>
      BY <1>2, <3>1 DEF Found, Saved, Loses, IsFinal
    <3>2. CASE ~loaded /\ loaded' /\ ops' = [j \in Key |-> IF ops[j] # None THEN ops[j] ELSE file[j]]
      <4>1. Saved(k) => Durable(k) /\ ops[k] = None
        BY <3>2 DEF IInv, FileFinal, OnlyLoaded, Saved
      <4>2. Saved(k) => IsFinal(ops', k)
        BY <3>2, <4>1 DEF Saved, IsFinal, Final
      <4> QED BY <1>2, <3>2, <4>2 DEF Found, Saved, Loses
    <3> QED BY <2>1, <3>1, <3>2 DEF Arrive, Load
  <2>2. CASE Register(r)
    <3>1. IsFinal(ops', k) <=> IsFinal(ops, k)
      BY <1>1, <2>2 DEF Register, IsFinal, Final, Rec, IInv, RegistryType
    <3> QED BY <1>2, <2>2, <3>1 DEF Register, Found, Saved, Loses
  <2>3. CASE TakeLock(r) \/ LockTimeout(r) \/ Exists(r)
    BY <1>2, <2>3 DEF TakeLock, LockTimeout, Exists, memory, Found, Saved, Loses, IsFinal
  <2> QED BY <2>1, <2>2, <2>3
<1>4. Told' = Told
  BY <1>2, <1>3, SameTold
<1> QED BY <1>2, <1>4 DEF ContractStep

(* An answer from the record, or without one.                              *)
LEMMA AnswerStep ==
    ASSUME NoRace, SavesWork, IInv, NEW r \in Request,
           Collision(r) \/ Busy(r) \/ Refuse(r) \/ Get(r)
    PROVE  ContractStep
<1> DEFINE k == KeyOf[r]
<1>1. k \in Key /\ pc[r] # "done"
  BY RequestAssumption DEF Collision, Busy, Refuse, Get
<1>2. reply[r] = None
  BY <1>1 DEF IInv, AnswersLast
<1>3. UNCHANGED <<ops, loaded, file, effect, crashes>>
  BY DEF Collision, Busy, Refuse, Get, disk
<1>4. Told' = Told
  BY <1>3, SameTold DEF Found, Saved, Loses, IsFinal
<1>5. CASE Collision(r) \/ Busy(r) \/ Refuse(r)
  <2>1. Contract!Answer(r)
    BY <1>2, <1>3, <1>4, <1>5 DEF Collision, Busy, Refuse, Answer, Rec, Contract!Answer, Told
  <2> QED BY <2>1 DEF ContractStep, Contract!Next
<1>6. CASE Get(r)
  <2>1. ops[k] # None /\ ops[k].payload = PayloadOf[r]
    BY <1>6 DEF Get, IInv, SeenStays
  <2>2. reply' = [reply EXCEPT ![r] = [payload |-> PayloadOf[r], status |-> ops[k].status]]
    BY <1>6, <2>1 DEF Get, Answer, Rec
  <2>3. ops[k].status \in Final \cup {"running"}
    BY <1>1, <2>1 DEF IInv, RegistryType
  <2>4. CASE ops[k].status # "succeeded"
    <3>1. Contract!Answer(r)
      BY <1>2, <1>3, <1>4, <2>2, <2>3, <2>4 DEF Final, Contract!Answer, Told
    <3> QED BY <3>1 DEF ContractStep, Contract!Next
  <2>5. CASE ops[k].status = "succeeded"
    <3>1. effect[k] = "remembered" /\ IsFinal(ops, k)
      BY <1>1, <2>1, <2>5 DEF IInv, SuccessKnown, IsFinal, Final
    <3>2. Durable(k) => k \in Found
      BY <1>1, <2>1, <2>5, <3>1 DEF IInv, OutcomeSaved, SavesWork, Found, Saved, Loses
    <3>3. ~Durable(k) => k \notin Found
      BY <1>1 DEF IInv, FileFinal, Found, Saved
    <3>4. Told[k] = IF Durable(k) THEN "kept" ELSE "done"
      BY <1>1, <3>1, <3>2, <3>3, KnownCases
    <3>5. Told' = [Told EXCEPT ![k] = IF k \in {j \in Key : Durable(j)} THEN "kept" ELSE "done"]
      BY <1>1, <1>4, <3>4 DEF Told
    <3>6. Contract!AnswerSuccess(r)
      BY <1>2, <1>3, <2>2, <2>5, <3>4, <3>5 DEF Contract!AnswerSuccess, Told
    <3> QED BY <3>6 DEF ContractStep, Contract!Next
  <2> QED BY <2>4, <2>5
<1> QED BY <1>5, <1>6

(* The change of a request, of a key no change of which is remembered.     *)
LEMMA ChangeStep ==
    ASSUME NoRace, SavesWork, IInv, IInv', NEW r \in Request, Execute(r)
    PROVE  ContractStep
<1> DEFINE k == KeyOf[r]
<1>1. k \in Key /\ pc[r] = "runs" /\ UNCHANGED <<ops, loaded, file, reply, crashes>>
  BY RequestAssumption DEF Execute, Goes, memory, disk
<1>2. CASE UNCHANGED effect
  <2>1. Told' = Told
    BY <1>1, <1>2, SameTold DEF Found, Saved, Loses, IsFinal
  <2> QED BY <1>1, <2>1 DEF ContractStep
<1>3. CASE effect' = [effect EXCEPT ![k] = IF @ = "remembered" THEN "repeated" ELSE "remembered"]
  <2>1. effect'[k] = "remembered" /\ effect[k] \in {"none", "forgotten"}
    BY <1>1, <1>3 DEF IInv, RegistryType, OncePerKey, NoRace
  <2>2. k \notin Found
    <3>1. ops[k] # None /\ ops[k].status = "running"
      BY <1>1 DEF IInv, Owned, Owner
    <3>2. Saved(k) => loaded
      BY <1>1 DEF IInv, FileFinal, LockHeld, Saved
    <3> QED BY <3>1, <3>2 DEF Found, Loses, IsFinal, Final
  <2>3. \A j \in Key : j \in Found' <=> j \in Found
    BY <1>1 DEF Found, Saved, Loses, IsFinal
  <2>4. Told[k] \in {"none", "forgotten"} /\ Told'[k] = "done"
    BY <1>1, <2>1, <2>2, <2>3, KnownCases
  <2>5. \A j \in Key : j # k => Told'[j] = Told[j]
    <3>1. \A j \in Key : j # k => effect'[j] = effect[j]
      BY <1>3 DEF IInv, RegistryType
    <3> QED BY <2>3, <3>1, KnownCases
  <2>6. Told' = [Told EXCEPT ![k] = "done"]
    <3> HIDE DEF k
    <3>1. DOMAIN Told = Key /\ DOMAIN Told' = Key /\ Told = [j \in Key |-> Told[j]] /\ Told' = [j \in Key |-> Told'[j]]
      BY DEF Told
    <3> QED BY <2>4, <2>5, <3>1
  <2>7. Contract!Change(k)
    BY <1>1, <2>4, <2>6 DEF Contract!Change, Told
  <2> QED BY <1>1, <2>7 DEF ContractStep, Contract!Next
<1> QED BY <1>2, <1>3 DEF Execute
(* The end of a request: what it saw is saved, then told.                  *)
LEMMA FinishStep ==
    ASSUME NoRace, SavesWork, IInv, NEW r \in Request, Finish(r)
    PROVE  ContractStep
<1> DEFINE k == KeyOf[r]
<1>1. k \in Key /\ pc[r] = "ran" /\ reply[r] = None /\ UNCHANGED <<loaded, effect, crashes>>
  BY RequestAssumption DEF Finish, IInv, AnswersLast
<1>2. ops[k] # None /\ ops[k].status = "running" /\ ops[k] \in [payload : Payload, status : Final \cup {"running"}]
  BY <1>1 DEF IInv, Owned, Owner, RegistryType
<1>3. Durable(k) => loaded
  BY <1>1 DEF IInv, LockHeld
<1>4. k \notin Found
  BY <1>2, <1>3 DEF Found, Saved, Loses, IsFinal, Final, IInv, FileFinal
<1>5. \A j \in Key : j # k => (j \in Found' <=> j \in Found)
  <2> SUFFICES ASSUME NEW j \in Key, j # k PROVE j \in Found' <=> j \in Found
    OBVIOUS
  <2>1. ops'[j] = ops[j]
    BY <1>1 DEF Finish, Update, Drop, IInv, RegistryType
  <2>2. Loses(j)' <=> Loses(j)
    BY <1>1, <2>1 DEF Loses, IsFinal
  <2>3. CASE UNCHANGED file
    BY <2>2, <2>3 DEF Found, Saved
  <2>4. CASE Durable(k) /\ file' = [i \in Key |-> IF i \in Saves(ops') THEN ops'[i] ELSE None]
    <3>1. CASE IsFinal(ops, j) /\ Durable(j)
      BY <2>1, <2>2, <2>4, <3>1 DEF Found, Saved, Saves, IsFinal, IInv, OutcomeSaved, SavesWork
    <3>2. CASE ~(IsFinal(ops, j) /\ Durable(j))
      BY <1>3, <2>1, <2>2, <2>4, <3>2 DEF Found, Saved, Loses, Saves, IsFinal, IInv, FileFinal
    <3> QED BY <3>1, <3>2
  <2> QED BY <2>3, <2>4 DEF Finish, Update, WriteFile, SavesWork, disk
<1>6. CASE ended[r] # "succeeded"
  <2>1. Outcome(r) = "failed"
    BY <1>1, <1>6 DEF Outcome, Undone, IInv, RegistryType, Final
  <2>2. effect[k] # "remembered"
    BY <1>1, <1>2, <1>3, <1>6 DEF IInv, Remembered, Owned, Owner, FileFinal, NoRace
  <2>3. Told' = Told
    BY <1>1, <1>5, <2>2, SameTold
  <2>4. Contract!Answer(r)
    BY <1>1, <2>1, <2>3 DEF Finish, Answer, Rec, Contract!Answer, Told
  <2> QED BY <2>4 DEF ContractStep, Contract!Next
<1>7. CASE ended[r] = "succeeded"
  <2>1. effect[k] = "remembered" /\ Outcome(r) = "succeeded" /\ ~Undone(r)
    BY <1>7 DEF IInv, SuccessKnown, NoRace, Outcome, Undone
  <2>2. Update(k, "succeeded")
    BY <1>2, <2>1 DEF Finish
  <2>3. ops'[k] = [payload |-> ops[k].payload, status |-> "succeeded"]
    BY <1>1, <1>2, <2>2 DEF Update, IInv, RegistryType
  <2>4. ops'[k] # None /\ IsFinal(ops', k)
    <3>1. ops'[k] \in [payload : Payload, status : Status]
      BY <1>2, <2>3 DEF Status
    <3> QED BY <2>3, <3>1, RequestAssumption DEF IsFinal, Final
  <2>5. k \in Found' <=> Durable(k)
    <3>1. CASE Durable(k)
      <4>1. file'[k] = ops'[k]
        BY <1>1, <2>2, <2>4, <3>1 DEF Update, WriteFile, Saves, SavesWork
      <4> QED BY <1>1, <2>3, <2>4, <3>1, <4>1 DEF Found, Saved, Loses
    <3>2. CASE ~Durable(k)
      BY <1>1, <2>2, <3>2 DEF Update, WriteFile, Found, Saved, IInv, FileFinal
    <3> QED BY <3>1, <3>2
  <2>6. Told[k] = "done" /\ Told'[k] = IF k \in {j \in Key : Durable(j)} THEN "kept" ELSE "done"
    BY <1>1, <1>4, <2>1, <2>5, KnownCases
  <2>7. \A j \in Key : j # k => Told'[j] = Told[j]
    BY <1>1, <1>5, KnownCases
  <2>8. Told' = [Told EXCEPT ![k] = IF k \in {j \in Key : Durable(j)} THEN "kept" ELSE "done"]
    <3> HIDE DEF k
    <3>1. DOMAIN Told = Key /\ Told = [j \in Key |-> Told[j]] /\ Told' = [j \in Key |-> Told'[j]]
      BY DEF Told
    <3> QED BY <2>6, <2>7, <3>1
  <2>9. Contract!AnswerSuccess(r)
    BY <1>1, <2>1, <2>6, <2>8 DEF Finish, Answer, Rec, Contract!AnswerSuccess, Told
  <2> QED BY <2>9 DEF ContractStep, Contract!Next
<1> QED BY <1>6, <1>7

(* Retention and caps: the clients are told of what is forgotten.          *)
LEMMA ForgetStep ==
    ASSUME NoRace, SavesWork, IInv, NEW K \in SUBSET Key, Forgets(K),
           UNCHANGED <<reply, crashes>>,
           \A k \in Key : effect'[k] = "remembered" => (k \in Found' <=> k \in Found)
    PROVE  ContractStep
<1> DEFINE F == {k \in K : effect[k] = "remembered"}
<1>1. \A k \in Key : effect'[k] = IF k \in F THEN "forgotten" ELSE effect[k]
  BY DEF Forgets
<1>2. \A k \in Key : Told'[k] = IF k \in F THEN "forgotten" ELSE Told[k]
  BY <1>1, KnownCases
<1>3. Told = [k \in Key |-> Told[k]] /\ Told' = [k \in Key |-> Told'[k]]
  BY DEF Told
<1>4. CASE F = {}
  BY <1>2, <1>3, <1>4 DEF ContractStep
<1>5. CASE F # {}
  <2>1. Told' = [k \in Key |-> IF k \in F THEN "forgotten" ELSE Told[k]]
    BY <1>2, <1>3
  <2>2. \A k \in F : Told[k] # "none"
    BY KnownCases
  <2>3. F \in (SUBSET Key) \ {{}}
    <3>1. F \subseteq Key /\ F # {}
      BY <1>5
    <3> HIDE DEF F
    <3> QED BY <3>1
  <2>4. Contract!Forget
    BY <2>1, <2>2, <2>3 DEF Contract!Forget, Told
  <2> QED BY <2>4 DEF ContractStep, Contract!Next
<1> QED BY <1>4, <1>5

LEMMA ExpireStep == ASSUME NoRace, SavesWork, IInv, Expire PROVE ContractStep
<1> PICK k \in Dated(ops, file) : file' = Drop(file, {k}) /\ Pruned({k})
  BY DEF Expire
<1>1. k \in Key /\ UNCHANGED <<loaded, reply, crashes>>
  BY DEF Expire, Dated
<1>2. \A j \in Key : j # k => (j \in Found' <=> j \in Found)
  BY <1>1 DEF Pruned, Drop, Found, Saved, Loses, IsFinal, IInv, RegistryType
<1>3. k \notin Found'
  BY <1>1 DEF Drop, Found, Saved, IInv, RegistryType
<1>4. effect'[k] = "remembered" => k \notin Found
  BY <1>1 DEF Pruned, Forgets, Found
<1>5. {j \in {k} : Loses(j)} \in SUBSET Key /\ Forgets({j \in {k} : Loses(j)})
  BY <1>1 DEF Pruned
<1> QED BY <1>1, <1>2, <1>3, <1>4, <1>5, ForgetStep

LEMMA EvictStep == ASSUME NoRace, SavesWork, IInv, Evict PROVE ContractStep
<1> DEFINE F == {j \in OverCap(ops) : Loses(j)}
<1>1. UNCHANGED <<loaded, reply, crashes, file>> /\ Pruned(OverCap(ops))
  BY DEF Evict
<1>2. \A j \in OverCap(ops) : j \in Key /\ Loses(j)
  BY DEF OverCap, Loses
<1>3. ASSUME NEW j \in Key, effect'[j] = "remembered" PROVE j \in Found' <=> j \in Found
  <2>1. j \notin OverCap(ops)
    BY <1>1, <1>2, <1>3 DEF Pruned, Forgets
  <2>2. ops'[j] = ops[j]
    BY <1>1, <2>1 DEF Pruned, Drop, IInv, RegistryType
  <2> QED BY <1>1, <2>2 DEF Found, Saved, Loses, IsFinal
<1>4. F \in SUBSET Key /\ Forgets(F)
  BY <1>1, <1>2 DEF Pruned
<1> HIDE DEF F
<1> QED BY <1>1, <1>3, <1>4, ForgetStep

(* A restart finds the outcomes in the file.                               *)
LEMMA RestartStep == ASSUME NoRace, SavesWork, IInv, Crash PROVE ContractStep
<1>1. UNCHANGED <<file, reply>> /\ crashes' = crashes + 1 /\ ~loaded'
  BY DEF Crash
<1>2. \A k \in Key : k \in Found' <=> Saved(k)
  BY <1>1 DEF Found, Saved, Loses
<1>3. ASSUME NEW k \in Key
      PROVE Told'[k] \in {"none", "kept", "forgotten"} /\ Told'[k] \in Contract!Survives(Told[k])
  <2>1. effect[k] \in {"none", "remembered", "forgotten"}
    BY DEF IInv, RegistryType, OncePerKey
  <2>2. CASE effect[k] = "none"
    BY <2>2, KnownCases DEF Crash, Restarts, Contract!Survives
  <2>3. CASE effect[k] = "remembered" /\ Saved(k)
    BY <1>2, <2>3, KnownCases DEF Crash, Restarts, Contract!Survives
  <2>4. CASE effect[k] = "remembered" /\ ~Saved(k)
    <3>1. Told[k] = "done"
      BY <2>4, KnownCases DEF Found
    <3> QED BY <2>4, <3>1, KnownCases DEF Crash, Restarts, Contract!Survives
  <2>5. CASE effect[k] = "forgotten"
    <3>1. Told[k] = "forgotten"
      BY <2>5, KnownCases
    <3>2. CASE Saved(k)
      BY <1>2, <2>5, <3>1, <3>2, KnownCases DEF Crash, Restarts, Contract!Survives
    <3>3. CASE ~Saved(k)
      BY <2>5, <3>1, <3>3, KnownCases DEF Crash, Restarts, Contract!Survives
    <3> QED BY <3>2, <3>3
  <2> QED BY <2>1, <2>2, <2>3, <2>4, <2>5
<1>4. Told' \in [Key -> {"none", "kept", "forgotten"}]
  <2>1. Told' = [k \in Key |-> Told'[k]]
    BY DEF Told
  <2> QED BY <1>3, <2>1
<1>5. Contract!Restart
  BY <1>1, <1>3, <1>4 DEF Contract!Restart, Told
<1> QED BY <1>5 DEF ContractStep, Contract!Next

(* The registry, its file and the requests implement what the clients of a *)
(* key can rely on.                                                        *)
THEOREM RegistryKeepsContract == NoRace /\ SavesWork => (Spec => ReplaySpec)
<1> SUFFICES ASSUME NoRace, SavesWork PROVE Spec => ReplaySpec
  OBVIOUS
<1>1. Init => Contract!Init
  BY DEF Init, Contract!Init, Known
<1>2. IInv /\ IInv' /\ [Next]_vars => [Contract!Next]_<<[k \in Key |-> Known(k)], reply, crashes>>
  <2> SUFFICES ASSUME IInv, IInv', [Next]_vars PROVE ContractStep
    BY DEF ContractStep, Told
  <2>1. CASE UNCHANGED vars
    <3>1. Told' = Told
      BY <2>1, SameTold DEF vars, memory, disk, Found, Saved, Loses, IsFinal
    <3> QED BY <2>1, <3>1 DEF vars, ContractStep
  <2> QED BY <2>1, AskStep, AnswerStep, ChangeStep, FinishStep, ExpireStep, EvictStep, RestartStep
          DEF Next, Step
<1> QED BY IInvAlways, <1>1, <1>2, PTL DEF Spec, ReplaySpec, Contract!Spec
=============================================================================
