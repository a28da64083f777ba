------------------------- MODULE MCIncidentApproval -------------------------
(* Small instances of the incident session and its approvals for TLC. *)
EXTENDS IncidentApproval, TLC

CONSTANTS p1, p2

TwoReviewers == {p1, p2}

\* Concurrent calls are interchangeable (safety runs only).
Symmetry == Permutations(Reviewers)

AllFaults == FaultKinds
NoFaults == {}

AnyList == ListNames
PendingList == {"pending"}

=============================================================================
