-------------------------- MODULE MutationContract --------------------------
(***************************************************************************)
(* What an audited mutation of the library promises its operator           *)
(* (backend/transaction_engine.py STATUSES, backend/rollback_guard.py):    *)
(* the library changes only while the transaction is Running, and the      *)
(* status it leaves Running with says what happened to the library, unless *)
(* an engine restore failed, which Failed does not tell.  The contract     *)
(* binds until the boot sweep writes a status beside a request.            *)
(***************************************************************************)
VARIABLES
    status,     \* the status the operator sees
    library,    \* "original", "changed" or anything between ("partial")
    unrestored, \* a restore of the engine has failed
    overtook    \* the sweep has written beside a request

Libraries == {"original", "partial", "changed"}

Init == status = "Preview" /\ library = "original" /\ ~unrestored /\ ~overtook

Move(from, to) ==
    status \in from /\ status' = to /\ UNCHANGED <<library, unrestored, overtook>>

Approve == Move({"Preview"}, "Approved")
Cancel == Move({"Preview", "Approved"}, "Cancelled")
Claim == Move({"Approved"}, "Running")
ClaimRollback == Move({"Completed", "Recovery Required"}, "Running")
Mutate ==
    /\ status = "Running" /\ library' \in Libraries
    /\ UNCHANGED <<status, unrestored, overtook>>
RestoreFails ==
    /\ status = "Running" /\ library' = "partial" /\ unrestored'
    /\ UNCHANGED <<status, overtook>>
Complete == library = "changed" /\ Move({"Running"}, "Completed")
Fail == (library = "original" \/ unrestored) /\ Move({"Running"}, "Failed")
RollBack == library = "original" /\ Move({"Running"}, "Rolled Back")
GiveUp == Move({"Running"}, "Recovery Required")

Bound == \/ Approve \/ Cancel \/ Claim \/ ClaimRollback \/ Mutate \/ RestoreFails
         \/ Complete \/ Fail \/ RollBack \/ GiveUp
Next == IF overtook THEN overtook' ELSE Bound \/ overtook'

Spec == Init /\ [][Next]_<<status, library, unrestored, overtook>>
=============================================================================
