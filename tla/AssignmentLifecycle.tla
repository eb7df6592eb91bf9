------------------------ MODULE AssignmentLifecycle ------------------------
(***************************************************************************)
(* What the exchange promises about one tester's assignment: the diagram   *)
(* of docs/backend-guide.md (Testing workflow), with the withdrawal and    *)
(* the escalation its text adds, and the reward that is appended once.     *)
(***************************************************************************)
VARIABLES
    status,     \* the assignment's status
    paid        \* the reward has been posted

lifecycle == <<status, paid>>

LifecycleInit == status = "none" /\ paid = FALSE

Moves(from, to) ==
    /\ status \in from
    /\ status' \in to
    /\ UNCHANGED paid

\* The tester is paid in the step that approves the work, never before and never again.
Approve ==
    /\ status \in {"submitted", "rejected"}
    /\ status' = "approved"
    /\ ~paid
    /\ paid' = TRUE

LifecycleNext ==
    \/ Moves({"none"}, {"applied"})
    \/ Moves({"applied"}, {"accepted", "cancelled"})
    \/ Moves({"accepted"}, {"in_progress", "cancelled"})
    \/ Moves({"in_progress", "changes_requested"}, {"submitted", "cancelled"})
    \/ Moves({"submitted"}, {"changes_requested", "rejected"})
    \/ Approve

Spec == LifecycleInit /\ [][LifecycleNext]_lifecycle
=============================================================================
