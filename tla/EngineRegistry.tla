--------------------------- MODULE EngineRegistry ---------------------------
(***************************************************************************)
(* The operation registry of the Beets plugin                              *)
(* (beetsplug/webmanager/operations.py) and the requests that change the   *)
(* library under an idempotency key: folder steps (folder_ops.py), album   *)
(* relocations (relocation_ops.py) and imports.  A client that gets no     *)
(* answer sends the same key again.  The registry is memory; the final     *)
(* outcomes of durable operations are also in a file, which the first      *)
(* request after a restart loads.  Any prune may happen at any time, since *)
(* every call prunes; Faults names what else may go wrong:                 *)
(*   "prune-race"   a record is pruned between register_operation and      *)
(*                  get_operation of one precheck                          *)
(*   "save-fails"   the file cannot be written (only logged)               *)
(***************************************************************************)
EXTENDS Naturals, FiniteSets

CONSTANTS
    Key,            \* idempotency keys
    Request,        \* requests; a retry is another request
    KeyOf,          \* [Request -> Key]
    PayloadOf,      \* [Request -> payload]: the fingerprint
    Kind,           \* [Key -> {"step", "move", "import"}]
    MaxCompleted,   \* MAX_COMPLETED_OPERATIONS
    MaxCrash,       \* bound on crashes
    Faults,
    None            \* no record, no lock holder, no reply

Durable(k) == Kind[k] # "import"                        \* _DURABLE_TYPES
Payload == {PayloadOf[r] : r \in Request}
Status == {"succeeded", "failed", "running", "busy", "refused", "collision"}
ASSUME RequestAssumption ==
    KeyOf \in [Request -> Key] /\ None \notin Request \cup [payload : Payload, status : Status]
ASSUME KindAssumption == Kind \in [Key -> {"step", "move", "import"}]
ASSUME BoundAssumption ==
    MaxCompleted \in Nat /\ MaxCrash \in Nat /\ Faults \subseteq {"prune-race", "save-fails"}

VARIABLES
    ops,        \* _operations: key -> its record
    file,       \* the durable file: key -> the record it has
    newer,      \* <<j, k>>: the final record of j was updated after that of k
    loaded,     \* bind_durable_registry has run in this process
    lock,       \* mutation_lock
    pc,         \* where a request is
    ended,      \* how its execution ended
    reply,      \* what it was answered
    effect,     \* what the library has seen of a key
    crashes

memory == <<ops, loaded, lock>>
disk == <<file, newer>>
vars == <<memory, disk, pc, ended, reply, effect, crashes>>

Final == {"succeeded", "failed"}
Rec(p, s) == [payload |-> p, status |-> s]
IsFinal(o, k) == o[k] # None /\ o[k].status \in Final
Drop(o, K) == [k \in DOMAIN o |-> IF k \in K THEN None ELSE o[k]]

(* updated_at, as the order it gives to the final records that exist.      *)
Dated(o, f) == {k \in Key : IsFinal(o, k) \/ f[k] # None}
Still(o, f) == {p \in newer : {p[1], p[2]} \subseteq Dated(o, f)}
Youngest(k, o, f) ==
    {p \in Still(o, f) : k \notin {p[1], p[2]}} \cup {<<k, j>> : j \in Dated(o, f) \ {k}}

(* _prune_operations_locked: the cap on final records, for each kind.      *)
SameKind(j, k) == Durable(j) = Durable(k)
MutantOneCap(o) ==
    {k \in Key : IsFinal(o, k) /\ MaxCompleted <
        Cardinality({j \in Key : IsFinal(o, j) /\ (j = k \/ <<j, k>> \in newer)})}
OverCap(o) ==
    {k \in Key : IsFinal(o, k) /\ MaxCompleted <
        Cardinality({j \in Key : IsFinal(o, j) /\ SameKind(j, k) /\ (j = k \/ <<j, k>> \in newer)})}

(* A change is remembered by the record in memory or, before the file is   *)
(* loaded, by the one in the file; a restart forgets what the file has not *)
(* and finds again what was pruned from memory only.                       *)
Saved(k) == file[k] # None /\ file[k].status = "succeeded"
Forgets(K) ==
    effect' = [k \in Key |-> IF k \in K /\ effect[k] = "remembered" THEN "forgotten" ELSE effect[k]]
Restarts ==
    effect' = [k \in Key |->
        CASE effect[k] = "remembered" /\ ~Saved(k) -> "forgotten"
          [] effect[k] = "forgotten" /\ Saved(k) -> "remembered"
          [] OTHER -> effect[k]]

Init ==
    /\ ops = [k \in Key |-> None] /\ file = [k \in Key |-> None] /\ newer = {}
    /\ loaded = FALSE /\ lock = None
    /\ pc = [r \in Request |-> "new"] /\ ended = [r \in Request |-> "no"]
    /\ reply = [r \in Request |-> None]
    /\ effect = [k \in Key |-> "none"] /\ crashes = 0

-----------------------------------------------------------------------------
Goes(r, from, to) == pc[r] = from /\ pc' = [pc EXCEPT ![r] = to]
Answer(r, p, s) == reply' = [reply EXCEPT ![r] = Rec(p, s)]

(* A request arrives; the first one of a process loads the file            *)
(* (bind_durable_registry).                                                *)
Load ==
    IF loaded THEN UNCHANGED <<ops, loaded>>
    ELSE /\ loaded' = TRUE
         /\ ops' = [k \in Key |-> IF ops[k] # None THEN ops[k] ELSE file[k]]
Arrive(r) ==
    /\ Goes(r, "new", IF Kind[KeyOf[r]] = "import" THEN "checks" ELSE "locks")
    /\ Load
    /\ UNCHANGED <<lock, disk, ended, reply, effect, crashes>>

(* mutation_lock: a folder step waits LOCK_WAIT_SECONDS, others wait. *)
TakeLock(r) ==
    /\ lock = None /\ lock' = r
    /\ Goes(r, "locks", "checks") \/ Goes(r, "queued", "runs")
    /\ UNCHANGED <<ops, loaded, disk, ended, reply, effect, crashes>>
LockTimeout(r) ==
    /\ Kind[KeyOf[r]] = "step" /\ lock # None
    /\ Goes(r, "locks", "peeks")
    /\ UNCHANGED <<memory, disk, ended, reply, effect, crashes>>

(* A request answers and leaves; it gives back the lock it may hold. *)
Leave(r) ==
    /\ pc' = [pc EXCEPT ![r] = "done"]
    /\ lock' = IF lock = r THEN None ELSE lock

(* _idempotency_precheck: register_operation ... *)
Go(r) == IF Kind[KeyOf[r]] = "import" THEN "queued" ELSE "runs"
Collides(r) == ops[KeyOf[r]] # None /\ ops[KeyOf[r]].payload # PayloadOf[r]
Collision(r) ==
    /\ pc[r] \in {"checks", "peeks"} /\ Collides(r)
    /\ Answer(r, PayloadOf[r], "collision") /\ Leave(r)
    /\ UNCHANGED <<ops, loaded, disk, ended, effect, crashes>>
Exists(r) ==
    /\ ops[KeyOf[r]] # None /\ ~Collides(r)
    /\ Goes(r, "checks", "gets") \/ Goes(r, "peeks", "peeked")
    /\ UNCHANGED <<memory, disk, ended, reply, effect, crashes>>
Busy(r) ==
    /\ pc[r] = "peeks" /\ ops[KeyOf[r]] = None
    /\ Answer(r, PayloadOf[r], "busy") /\ Leave(r)
    /\ UNCHANGED <<ops, loaded, disk, ended, effect, crashes>>
Refuse(r) ==                  \* a relocation's own check: nothing registered
    /\ pc[r] = "checks" /\ Kind[KeyOf[r]] = "move" /\ ops[KeyOf[r]] = None
    /\ Answer(r, PayloadOf[r], "refused") /\ Leave(r)
    /\ UNCHANGED <<ops, loaded, disk, ended, effect, crashes>>
MutantRegisterLater(r) ==
    /\ ops[KeyOf[r]] = None /\ Goes(r, "checks", Go(r))
    /\ UNCHANGED <<memory, disk, ended, reply, effect, crashes>>
Register(r) ==
    /\ ops[KeyOf[r]] = None /\ Goes(r, "checks", Go(r))
    /\ ops' = [ops EXCEPT ![KeyOf[r]] = Rec(PayloadOf[r], "running")]
    /\ UNCHANGED <<loaded, lock, disk, ended, reply, effect, crashes>>

(* ... then get_operation: the record's outcome is the answer.  A record   *)
(* that is gone by now counts as new: a relocation registers it with its   *)
(* second precheck, the others run without a record.                       *)
Get(r) ==
    /\ pc[r] \in {"gets", "peeked"}
    /\ IF ops[KeyOf[r]] # None
       THEN Answer(r, ops[KeyOf[r]].payload, ops[KeyOf[r]].status) /\ Leave(r)
       ELSE IF pc[r] = "gets"
            THEN /\ pc' = [pc EXCEPT ![r] = IF Kind[KeyOf[r]] = "move" THEN "checks" ELSE Go(r)]
                 /\ UNCHANGED <<lock, reply>>
            ELSE Answer(r, PayloadOf[r], "busy") /\ Leave(r)
    /\ UNCHANGED <<ops, loaded, disk, ended, effect, crashes>>

(* Under the lock: it changes the library, fails without a change, or puts *)
(* back what it moved.                                                     *)
Execute(r) ==
    /\ Goes(r, "runs", "ran")
    /\ \E how \in {"succeeded", "failed"} \cup (IF Kind[KeyOf[r]] = "move" THEN {"undone"} ELSE {}) :
         /\ ended' = [ended EXCEPT ![r] = how]
         /\ effect' = IF how # "succeeded" THEN effect
                      ELSE [effect EXCEPT ![KeyOf[r]] = IF @ = "remembered" THEN "repeated" ELSE "remembered"]
    /\ UNCHANGED <<memory, disk, reply, crashes>>

(* update_operation: the record that has this key now, if there is one;    *)
(* an undone relocation forgets its key.                                   *)
MutantSavesBefore(o) == {k \in Key : Durable(k) /\ IsFinal(ops, k)}
Saves(o) == {k \in Key : Durable(k) /\ IsFinal(o, k)}
WriteFile(k, o) ==
    \/ Durable(k) /\ file' = [j \in Key |-> IF j \in Saves(o) THEN o[j] ELSE None]
    \/ (~Durable(k) \/ "save-fails" \in Faults) /\ UNCHANGED file
Undone(r) == ended[r] = "undone"
Outcome(r) == IF Undone(r) THEN "failed" ELSE ended[r]
Update(k, s) ==
    /\ ops' = [ops EXCEPT ![k].status = s]
    /\ WriteFile(k, ops') /\ newer' = Youngest(k, ops', file')
Finish(r) ==
    /\ pc[r] = "ran" /\ Leave(r) /\ ended' = [ended EXCEPT ![r] = "no"]
    /\ LET k == KeyOf[r]
       IN /\ Answer(r, PayloadOf[r], Outcome(r))
          /\ \/ ops[k] = None /\ UNCHANGED <<ops, disk>>
             \/ ops[k] # None /\ Undone(r) /\ ops' = Drop(ops, {k})
                /\ newer' = Still(ops', file) /\ UNCHANGED file
             \/ ops[k] # None /\ ~Undone(r) /\ Update(k, Outcome(r))
    /\ UNCHANGED <<loaded, effect, crashes>>

-----------------------------------------------------------------------------
(* A final record is older than its retention, or one too many of its kind *)
(* is final.                                                               *)
Racing(k) == \E r \in Request : KeyOf[r] = k /\ pc[r] \in {"gets", "peeked"}
Loses(k) == IsFinal(ops, k) \/ ~loaded
Pruned(K) ==
    /\ K # {} /\ ("prune-race" \in Faults \/ \A k \in K : ~Racing(k))
    /\ ops' = Drop(ops, {k \in K : IsFinal(ops, k)}) /\ Forgets({k \in K : Loses(k)})
    /\ newer' = Still(ops', file')
Expire ==                \* a saved record that is as old is pruned when it is loaded
    /\ \E k \in Dated(ops, file) : file' = Drop(file, {k}) /\ Pruned({k})
    /\ UNCHANGED <<loaded, lock, pc, ended, reply, crashes>>
Evict ==
    /\ UNCHANGED file /\ Pruned(OverCap(ops))
    /\ UNCHANGED <<loaded, lock, pc, ended, reply, crashes>>

(* Beets stops and starts: the outcomes that are not in the file are lost. *)
Crash ==
    /\ crashes < MaxCrash /\ crashes' = crashes + 1
    /\ ops' = [k \in Key |-> None] /\ loaded' = FALSE /\ lock' = None
    /\ newer' = Still(ops', file)
    /\ pc' = [r \in Request |-> IF pc[r] = "new" THEN "new" ELSE "done"]
    /\ ended' = [r \in Request |-> "no"]
    /\ Restarts
    /\ UNCHANGED <<file, reply>>

Step(r) == \/ TakeLock(r) \/ LockTimeout(r) \/ Collision(r) \/ Exists(r) \/ Busy(r) \/ Refuse(r)
           \/ Register(r) \/ Get(r) \/ Execute(r) \/ Finish(r)
Next == (\E r \in Request : Arrive(r) \/ Step(r)) \/ Expire \/ Evict \/ Crash

Spec == Init /\ [][Next]_vars

-----------------------------------------------------------------------------
(* Every variable has its type.  (The registry, its file and the requests.)*)
Places == {"new", "locks", "queued", "checks", "peeks", "gets", "peeked", "runs", "ran", "done"}
RegistryType ==
    /\ ops \in [Key -> {None} \cup [payload : Payload, status : Final \cup {"running"}]]
    /\ file \in [Key -> {None} \cup [payload : Payload, status : Final]]
    /\ loaded \in BOOLEAN /\ lock \in Request \cup {None}
    /\ pc \in [Request -> Places]
    /\ ended \in [Request -> Final \cup {"no", "undone"}]
    /\ \A r \in Request : pc[r] = "ran" => ended[r] # "no"
    /\ reply \in [Request -> {None} \cup [payload : Payload, status : Status]]
    /\ effect \in [Key -> {"none", "remembered", "forgotten", "repeated"}]
    /\ crashes \in 0..MaxCrash
TypeOK == RegistryType /\ newer \subseteq Key \X Key

(* A key replayed after a lost reply reports "the original outcome": it    *)
(* changes the library a second time only when Beets died before the       *)
(* outcome was saved, or after the record was pruned.                      *)
OncePerKey == \A k \in Key : effect[k] # "repeated"

(* "so a replayed idempotency key still reads its result after a Beets     *)
(* restart": what the file does not have, a restart cannot answer.         *)
OutcomeSaved ==
    \A k \in Key : Durable(k) /\ IsFinal(ops, k) /\ "save-fails" \notin Faults => file[k] = ops[k]

(* "a burst of ordinary operations can never evict a folder-op or          *)
(* relocation record": only too many of their own kind can.                *)
DurableFinal == {k \in Key : Durable(k) /\ IsFinal(ops, k)}
BurstKeepsDurable ==
    [][\A k \in DurableFinal :
         k \notin DurableFinal' /\ loaded' /\ file' = file
             => Cardinality(DurableFinal) > MaxCompleted]_vars

(* What the clients of a key can rely on (ReplayContract).                 *)
Known(k) ==
    CASE effect[k] # "remembered" -> effect[k]
      [] effect[k] = "remembered" /\ Saved(k) /\ Loses(k) -> "kept"
      [] OTHER -> "done"
Contract == INSTANCE ReplayContract WITH
                outcome <- [k \in Key |-> Known(k)], Kept <- {k \in Key : Durable(k)}
ReplaySpec == Contract!Spec
=============================================================================
