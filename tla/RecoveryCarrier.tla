-------------------------- MODULE RecoveryCarrier --------------------------
(***************************************************************************)
(* The carrier of one missing-track recovery: a durable row with a state,  *)
(* a checkpoint and a revision (backend/recovery_carrier.py), written by   *)
(*   - the guarded download workflow of the recovery, one at a time        *)
(*     (acquisition_service.py), which starts an import or leaves the file *)
(*     staged; its writes name no revision;                                *)
(*   - the imports that merge the staged file into the album, started by a *)
(*     download or from Review (import_service.py): each claims the row    *)
(*     with a compare-and-swap first;                                      *)
(*   - the scheduled advancer (recovery_service.py) and the preflights of  *)
(*     a folder scan (matching_service.py), which must not disturb either. *)
(* A revision only matters as "has anybody written since I read": fresh is *)
(* the set of those who read the row as it is now.                         *)
(* Imports run one at a time in the import slot.  A Review import is the   *)
(* child of a job that holds the slot, and goes on without it when the     *)
(* parent stops waiting for it.                                            *)
(***************************************************************************)
EXTENDS Naturals

CONSTANTS
    Import,         \* import jobs
    FromReview,     \* those started from Review or by the advancer
    MaxDownload,    \* bound on runs of the download workflow
    MaxScan,        \* bound on preflights
    MaxFault,       \* bound on crashes and on carrier writes that fail (only logged)
    None            \* no carrier yet, nobody

ASSUME ImportAssumption ==
    FromReview \subseteq Import /\ Import \cap {"left", "sweep", "scan"} = {}
ASSUME NoneAssumption == None \notin Import \cup {"left", "importing", "imported"}
ASSUME BoundAssumption ==
    MaxDownload \in Nat /\ MaxScan \in Nat /\ MaxFault \in Nat

VARIABLES
    state,      \* the row's state, None before create_carrier
    point,      \* its checkpoint
    fresh,      \* who read the row at its present revision
    onAlbum,    \* the wanted track is on the album
    pc,         \* where each import is
    slot,       \* the import slot
    download,   \* where the download workflow is
    sweep,      \* where the advancer is
    scan,       \* where a preflight is
    claim,      \* history: the import whose claim the state is, or "left"
    overwrote,  \* history: a write without a revision replaced a live claim
    count       \* downloads, preflights and faults so far

row == <<state, point, fresh, claim, overwrote>>
jobs == <<pc, slot>>
others == <<download, sweep, scan>>
vars == <<row, onAlbum, jobs, others, count>>

MutantOnlyReview == {"review_required", "failed"}
ADVANCER_STATES ==
    {"review_required", "failed", "downloaded", "verifying", "created", "downloading"}
NO_DOWNGRADE == {"importing", "imported", "failed"}
Claimed == {"claimed", "checked", "moves", "keeps", "applied", "held"}

Init ==
    /\ state = None /\ point = "CREATED" /\ fresh = {} /\ claim = None /\ overwrote = FALSE
    /\ onAlbum = FALSE
    /\ pc = [i \in Import |-> "idle"] /\ slot = None
    /\ download = "idle" /\ sweep = "idle" /\ scan = "idle"
    /\ count = [what \in {"download", "scan", "fault"} |-> 0]

-----------------------------------------------------------------------------
(* The store.  Every write makes a new revision; advance_state keeps the   *)
(* checkpoint when it is given none ("").                                  *)
Write(s, c) ==
    /\ state' = s /\ fresh' = {}
    /\ point' = IF c = "" THEN point ELSE c
Live == claim \in Import
Counts(what, max) == count[what] < max /\ count' = [count EXCEPT ![what] = @ + 1]

(* A write with no expected revision; one that fails is only logged.       *)
Blind(s, c) ==
    \/ Write(s, c) /\ UNCHANGED count
    \/ Counts("fault", MaxFault) /\ UNCHANGED <<state, point, fresh>>
Ends(i) ==                       \* the claimer's last write: lost, it leaves the claim
    IF state' = "importing" THEN claim' = IF claim = i THEN "left" ELSE claim
    ELSE claim' = None

(* A write that keeps state and checkpoint; it may fail or be refused.     *)
Touch ==
    /\ fresh' = {} \/ UNCHANGED fresh
    /\ UNCHANGED <<state, point, claim, overwrote>>

(* A compare-and-swap: refused when somebody has written since the read.   *)
MutantSwaps(who, s, c) == Write(s, c)
Swap(who, s, c) == IF who \in fresh THEN Write(s, c) ELSE UNCHANGED <<state, point, fresh>>

-----------------------------------------------------------------------------
(* The download workflow.  Each run first looks at what is done already:   *)
(* it resumes an IMPORTED recovery, refuses while an import job is on the  *)
(* staged files, and ends when the album has the track.  The import job is *)
(* looked for once, before a download that may take an hour.               *)
Quiet == \A i \in Import : pc[i] \in {"idle", "done"}
Begin ==
    /\ download = "idle" /\ Counts("download", MaxDownload)
    /\ ~(state # None /\ point \in {"IMPORTED", "PLEX_SYNCED"}) /\ Quiet /\ ~onAlbum
    /\ download' = "downloads"
    /\ IF state = None THEN Write("downloading", "CREATED") ELSE UNCHANGED <<state, point, fresh>>
    /\ UNCHANGED <<claim, overwrote, onAlbum, jobs, sweep, scan>>

Resume ==                        \* the Plex refresh of an imported recovery, again
    /\ download = "idle" /\ state = "imported" /\ point = "IMPORTED"
    /\ Blind("imported", "PLEX_SYNCED")
    /\ UNCHANGED <<claim, overwrote, onAlbum, jobs, others>>

(* _recovery_advance: the files landed (bound to the carrier), then staged *)
Advance(s, c) ==
    /\ Blind(s, c)
    /\ overwrote' = (overwrote \/ (Live /\ state' # "importing"))
    /\ claim' = IF state' = "importing" THEN claim ELSE None
Land ==
    /\ download = "downloads" /\ download' = "landed"
    /\ Advance("downloaded", "DOWNLOADED")
    /\ UNCHANGED <<onAlbum, jobs, sweep, scan>>
Stage ==
    /\ download = "landed" /\ download' = "staged"
    /\ Advance("downloaded", "STAGED")
    /\ UNCHANGED <<onAlbum, jobs, sweep, scan>>
Fail == download \in {"downloads", "landed"} /\ download' = "idle"
        /\ UNCHANGED <<row, onAlbum, jobs, sweep, scan, count>>

(* With automatic import off: the folder goes to Review, or cannot.        *)
FinishWithoutImport ==
    /\ download = "downloads" /\ download' = "idle"
    /\ Advance("review_required", "") \/ Advance("failed", "")
    /\ UNCHANGED <<onAlbum, jobs, sweep, scan>>
LeaveStaged ==                   \* for the advancer: no file was proven
    /\ download = "staged" /\ download' = "idle"
    /\ UNCHANGED <<row, onAlbum, jobs, sweep, scan, count>>
StartImport(i) ==
    /\ download = "staged" /\ download' = "starts"
    /\ pc[i] = "idle" /\ i \notin FromReview /\ pc' = [pc EXCEPT ![i] = "queued"]
    /\ UNCHANGED <<row, onAlbum, slot, sweep, scan, count>>
NoteImport ==                    \* its job on the carrier, which keeps the state
    /\ download = "starts" /\ download' = "waits" /\ Touch
    /\ UNCHANGED <<onAlbum, jobs, sweep, scan, count>>
StopWaiting ==                   \* the import ended, or outlasted the wait
    /\ download = "waits" /\ download' = "idle"
    /\ UNCHANGED <<row, onAlbum, jobs, sweep, scan, count>>

-----------------------------------------------------------------------------
(* An import, from Review or handed over by the advancer. *)
Confirm(i) ==
    /\ i \in FromReview /\ pc[i] = "idle" /\ state # None /\ point # "CREATED"
    /\ pc' = [pc EXCEPT ![i] = "queued"] /\ UNCHANGED slot

Goes(i, from, to) == pc[i] = from /\ pc' = [pc EXCEPT ![i] = to]
Rebind == Touch                  \* when only the still-missing files are restaged
TakeSlot(i) ==
    /\ slot = None /\ slot' = i /\ Goes(i, "queued", "runs") /\ Rebind
    /\ UNCHANGED <<onAlbum, others, count>>
GiveUp(i) ==                     \* the parent's wait ends; the child goes on
    /\ slot = i /\ i \in FromReview /\ slot' = None
    /\ UNCHANGED <<row, onAlbum, pc, others, count>>
Leave(i) == slot' = IF slot = i THEN None ELSE slot

(* It may end before it looks at the carrier: cancelled, without a release *)
(* to import, refused by its preflight or by Beets.  The row is as it was, *)
(* and the advancer hands it off again, to another job.                    *)
EndsEarly(i) ==
    /\ pc[i] \in {"queued", "runs"} /\ Leave(i)
    /\ pc' = [pc EXCEPT ![i] = IF i \in FromReview THEN "idle" ELSE "done"]
    /\ UNCHANGED <<row, onAlbum, others, count>>

(* _recovery_claim_importing: refuse a claimed row without touching it, or *)
(* swap it to importing.                                                   *)
Load(i) ==
    /\ pc[i] = "runs"
    /\ IF state \in {"importing", "imported"}
       THEN pc' = [pc EXCEPT ![i] = "done"] /\ Leave(i) /\ UNCHANGED fresh
       ELSE pc' = [pc EXCEPT ![i] = "loaded"] /\ fresh' = fresh \cup {i} /\ UNCHANGED slot
    /\ UNCHANGED <<state, point, claim, overwrote, onAlbum, others, count>>
MutantClaims(i) == TRUE
Claims(i) == i \in fresh
Claim(i) ==
    /\ pc[i] = "loaded"
    /\ IF Claims(i)
       THEN /\ Write("importing", "") /\ claim' = i
            /\ pc' = [pc EXCEPT ![i] = "claimed"] /\ UNCHANGED slot
       ELSE /\ pc' = [pc EXCEPT ![i] = "done"] /\ Leave(i)
            /\ UNCHANGED <<state, point, fresh, claim>>
    /\ UNCHANGED <<overwrote, onAlbum, others, count>>

(* _recovery_precheck: the album is there and lacks the track, or Review.    *)
(* Beets may be unavailable there, or the album gone right after: either   *)
(* ends the import and leaves the claim.                                   *)
Precheck(i) ==
    /\ pc[i] = "claimed" /\ ~onAlbum
    /\ pc' = [pc EXCEPT ![i] = "checked"]
    /\ UNCHANGED <<row, onAlbum, slot, others, count>>
ToReview(i) ==                   \* the track is on it, or the album is gone
    /\ Goes(i, "claimed", "done") /\ Leave(i)
    /\ Blind("review_required", "") /\ Ends(i)
    /\ UNCHANGED <<overwrote, onAlbum, others>>
Unavailable(i) ==
    /\ Goes(i, "claimed", "done") \/ Goes(i, "checked", "done")
    /\ Leave(i)
    /\ claim' = IF claim = i THEN "left" ELSE claim
    /\ UNCHANGED <<state, point, fresh, overwrote, onAlbum, others, count>>

(* The reconciliation: a plan from the rows as they are, then its apply.   *)
Plan(i) ==
    /\ Goes(i, "checked", IF onAlbum THEN "keeps" ELSE "moves") \/ Goes(i, "checked", "held")
    /\ UNCHANGED <<row, onAlbum, slot, others, count>>
Apply(i) ==                      \* refused when the slot is taken by now
    /\ Goes(i, "moves", "applied") /\ ~onAlbum /\ onAlbum' = TRUE
    /\ UNCHANGED <<row, slot, others, count>>
MutantEndsSilently(i) ==
    /\ pc[i] \in {"checked", "moves", "keeps"} /\ pc' = [pc EXCEPT ![i] = "done"] /\ Leave(i)
    /\ UNCHANGED <<row, onAlbum, others, count>>
MarkFailed(i) ==                 \* Beets, the plan or the apply raised
    /\ pc[i] \in {"checked", "moves", "keeps"} /\ pc' = [pc EXCEPT ![i] = "done"] /\ Leave(i)
    /\ Blind("failed", "") /\ Ends(i)
    /\ UNCHANGED <<overwrote, onAlbum, others>>

(* _recovery_mark_outcome: imported when the track is on the album by the  *)
(* plan; what was held for review goes to Review.                          *)
MutantDelivered(i) == pc[i] \in {"applied", "keeps", "held"}
Delivered(i) == pc[i] \in {"applied", "keeps"}
MarkOutcome(i) ==
    /\ pc[i] \in {"applied", "keeps", "held"} /\ pc' = [pc EXCEPT ![i] = "tail"]
    /\ IF Delivered(i) THEN Blind("imported", "IMPORTED") ELSE Blind("review_required", "")
    /\ Ends(i)
    /\ UNCHANGED <<overwrote, onAlbum, slot, others>>

(* _recovery_plex_sync_leg: of an imported row, and best effort.           *)
PlexLeg(i) ==
    /\ Goes(i, "tail", IF state = "imported" /\ point # "PLEX_SYNCED" THEN "plex" ELSE "done")
    /\ IF pc'[i] = "done" THEN Leave(i) ELSE UNCHANGED slot
    /\ UNCHANGED <<row, onAlbum, others, count>>
PlexRecord(i) ==
    /\ Goes(i, "plex", "done") /\ Leave(i)
    /\ Blind("imported", "PLEX_SYNCED") \/ Blind("imported", "")
    /\ overwrote' = (overwrote \/ (Live /\ state' # "importing"))
    /\ claim' = IF state' = "importing" THEN claim ELSE None
    /\ UNCHANGED <<onAlbum, others>>

-----------------------------------------------------------------------------
(* advance_stuck_carriers: of a carrier still advanceable, evaluate the    *)
(* staged folder (slow), which records what it proved like any preflight,  *)
(* and attach the decision; hand the carrier to an import, or read it      *)
(* again and keep it in Review.                                            *)
Evidence(who) ==
    /\ Swap(who, "verifying", "VERIFIED") \/ Swap(who, "review_required", "")
    /\ claim' = IF state' = "importing" THEN claim ELSE None
SweepFinds ==
    /\ sweep = "idle" /\ state \in ADVANCER_STATES /\ sweep' = "evaluates"
    /\ UNCHANGED <<row, onAlbum, jobs, download, scan, count>>
SweepEvaluates ==                \* no folder, no audio or a claim: nothing to record
    /\ sweep = "evaluates"
    /\ \/ sweep' = "proves" /\ state \notin NO_DOWNGRADE /\ fresh' = fresh \cup {"sweep"}
       \/ sweep' = "evaluated" /\ UNCHANGED fresh
    /\ UNCHANGED <<state, point, claim, overwrote, onAlbum, jobs, download, scan, count>>
SweepProves ==
    /\ sweep = "proves" /\ sweep' = "evaluated" /\ Evidence("sweep")
    /\ UNCHANGED <<overwrote, onAlbum, jobs, download, scan, count>>
SweepAttaches ==
    /\ sweep = "evaluated" /\ sweep' = "decided" /\ Touch
    /\ UNCHANGED <<onAlbum, jobs, download, scan, count>>
HandOff(i) ==
    /\ sweep = "decided" /\ sweep' = "idle" /\ Confirm(i)
    /\ UNCHANGED <<row, onAlbum, download, scan, count>>
SweepReads ==
    /\ sweep = "decided"
    /\ IF state \in ADVANCER_STATES \ {"review_required"}
       THEN sweep' = "keeps" /\ fresh' = fresh \cup {"sweep"}
       ELSE sweep' = "idle" /\ UNCHANGED fresh
    /\ UNCHANGED <<state, point, claim, overwrote, onAlbum, jobs, download, scan, count>>
SweepKeeps ==
    /\ sweep = "keeps" /\ sweep' = "idle"
    /\ Swap("sweep", "review_required", "")
    /\ claim' = IF state' = "importing" THEN claim ELSE None
    /\ UNCHANGED <<overwrote, onAlbum, jobs, download, scan, count>>

(* _record_carrier_preflight_evidence: what a scan of the folder proved.   *)
ScanReads ==
    /\ scan = "idle" /\ state # None /\ state \notin NO_DOWNGRADE /\ Counts("scan", MaxScan)
    /\ scan' = "records" /\ fresh' = fresh \cup {"scan"}
    /\ UNCHANGED <<state, point, claim, overwrote, onAlbum, jobs, download, sweep>>
ScanRecords ==
    /\ scan = "records" /\ scan' = "idle"
    /\ Evidence("scan")
    /\ UNCHANGED <<overwrote, onAlbum, jobs, download, sweep, count>>

(* The Web Manager stops and starts: the row stays. *)
Crash ==
    /\ Counts("fault", MaxFault)
    /\ pc' = [i \in Import |-> IF pc[i] = "idle" THEN "idle" ELSE "done"] /\ slot' = None
    /\ download' = "idle" /\ sweep' = "idle" /\ scan' = "idle"
    /\ claim' = IF Live THEN "left" ELSE claim
    /\ UNCHANGED <<state, point, fresh, overwrote, onAlbum>>

Downloads == Begin \/ Resume \/ Land \/ Stage \/ Fail \/ FinishWithoutImport \/ LeaveStaged
             \/ (\E i \in Import : StartImport(i)) \/ NoteImport \/ StopWaiting
Review == \E i \in Import : Confirm(i) /\ UNCHANGED <<row, onAlbum, others, count>>
Merge(i) == \/ TakeSlot(i) \/ EndsEarly(i) \/ Load(i) \/ Claim(i)
            \/ Precheck(i) \/ ToReview(i) \/ Unavailable(i)
            \/ Plan(i) \/ Apply(i) \/ MarkFailed(i) \/ MarkOutcome(i) \/ PlexLeg(i) \/ PlexRecord(i)
Evaluate == SweepEvaluates \/ SweepProves \/ SweepAttaches \/ SweepReads \/ SweepKeeps
Sweep == SweepFinds \/ Evaluate
Scan == ScanReads \/ ScanRecords
Next == \/ Downloads \/ Review \/ (\E i \in Import : Merge(i) \/ GiveUp(i) \/ HandOff(i))
        \/ Sweep \/ Scan \/ Crash

Spec == Init /\ [][Next]_vars

(* Import threads run and the slot goes round; the advancer is scheduled   *)
(* again and again, and finds work that is there.                          *)
Fairness ==
    /\ \A i \in Import : WF_vars(Merge(i)) /\ SF_vars(TakeSlot(i))
    /\ WF_vars(Evaluate) /\ SF_vars(SweepFinds)
FairSpec == Spec /\ Fairness

-----------------------------------------------------------------------------
(* Every variable has its type.  (The row, the album, the jobs.)           *)
TypeOK ==
    /\ state \in {None, "downloading", "downloaded", "verifying",
                   "importing", "imported", "review_required", "failed"}
    /\ point \in {"CREATED", "DOWNLOADED", "STAGED", "VERIFIED", "IMPORTED", "PLEX_SYNCED"}
    /\ fresh \subseteq Import \cup {"sweep", "scan"}
    /\ onAlbum \in BOOLEAN
    /\ pc \in [Import -> {"idle", "queued", "runs", "loaded", "tail", "plex", "done"} \cup Claimed]
    /\ slot \in Import \cup {None}
    /\ download \in {"idle", "downloads", "landed", "staged", "starts", "waits"}
    /\ sweep \in {"idle", "evaluates", "proves", "evaluated", "decided", "keeps"}
    /\ scan \in {"idle", "records"}
    /\ claim \in Import \cup {None, "left"}
    /\ overwrote \in BOOLEAN
    /\ count \in [{"download", "scan", "fault"} -> Nat]

(* "two jobs never import the same track": past the claim there is one     *)
(* import at a time, also when the slot has been given up.  The one way    *)
(* round it is a write without a revision over a live claim.               *)
OneClaim ==
    overwrote \/ \A i, j \in Import : pc[i] \in Claimed /\ pc[j] \in Claimed => i = j

(* A carrier says importing only while the import that claimed it is on    *)
(* it.  What leaves a claim behind is a crash, Beets unavailable at the    *)
(* precheck, the album gone after it, or a last write that is lost.        *)
ClaimHasOwner ==
    /\ state = "importing" => claim # None
    /\ Live => state = "importing" /\ pc[claim] \in Claimed

(* "an undelivered track is never falsely reported 'imported'", by state   *)
(* or by checkpoint, which is what a retry resumes from.                   *)
ImportedIsDelivered ==
    state = "imported" \/ point \in {"IMPORTED", "PLEX_SYNCED"} => onAlbum

(* "a claimed ('importing') or completed/terminal carrier is owned by its  *)
(* recovery job": the advancer and a late scan never move it.              *)
BackgroundKeepsOff ==
    [][(Sweep \/ Scan) /\ state \in {"importing", "imported"} => state' = state]_vars

(* What a download left behind is not stranded: the advancer takes it to   *)
(* Review, or an import takes it.  The one exception is an import that     *)
(* ends early each time the advancer starts one, for ever.                 *)
AlwaysEndsEarly == []<><<\E i \in Import : EndsEarly(i)>>_vars
StuckAdvances ==
    LET Stuck == {"downloading", "downloaded", "verifying"} IN
    AlwaysEndsEarly \/ (state \in Stuck ~> state \notin Stuck)
=============================================================================
