------------------------------ MODULE MCAiops ------------------------------
(***************************************************************************)
(* Small instances of what operations work with, for one run of TLC: an    *)
(* incident's session with its approvals, used in an orderly way (one      *)
(* reviewer at a time, who decides from the pending list what its turn has *)
(* already stored, and no failures), and the ingestion and analysis of     *)
(* changes under all of them.  They share no variable, so a behaviour runs *)
(* one of them, the one in focus, and the other rests.                     *)
(***************************************************************************)
EXTENDS IncidentApproval, ChangeAnalysis, TLC

VARIABLE focus

CONSTANTS p1, d1, d2, c1, i1, i2

OneReviewer == {p1}
PendingList == {"pending"}
NoFaults == {}

TwoDeliveries == {d1, d2}
OneChange == {c1}
TwoInstances == {i1, i2}
AllFaults == CaFaultKinds

-----------------------------------------------------------------------------
allVars == <<vars, caVars, focus>>

Changing == focus = "changes" /\ UNCHANGED <<vars, focus>>
Meeting == focus = "session" /\ UNCHANGED <<caVars, focus>>

\* The analysis, out of focus, rests in one initial state.
AiopsInit ==
  /\ focus \in {"changes", "session"}
  /\ Init /\ CaInit
  /\ focus # "changes" => at = [d \in Deliveries |-> i1]

AiopsNext ==
  \/ Changing /\ CaNext
  \/ Meeting /\ Next

\* The fairness of the components, for the one in focus.
AiopsFairness ==
  /\ \A d \in Deliveries :
       /\ WF_allVars(Changing /\ Ingest(d))
       /\ WF_allVars(Changing /\ Analyze(d))
       /\ WF_allVars(Changing /\ Dispatch(d))
       /\ WF_allVars(Changing /\ FollowUp(d))
  /\ \A t \in Turns : WF_allVars(Meeting /\ Run(t))
  /\ \A p \in Reviewers : WF_allVars(Meeting /\ Call(p))

AiopsSpec == AiopsInit /\ [][AiopsNext]_allVars /\ AiopsFairness

=============================================================================
