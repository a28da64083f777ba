---------------------------- MODULE MCOperations ----------------------------
(***************************************************************************)
(* Small instances of what operators work with, for one run of TLC: an     *)
(* incident session with its approvals, the belief graph of a diagnosis    *)
(* and the documents they upload.  They share no variable, so a behaviour  *)
(* runs one of them, the one in focus, and the others rest.                *)
(***************************************************************************)
EXTENDS MCIncidentApproval, GosEngine, KnowledgeBase

VARIABLE focus

CONSTANTS v1, v2, w2, r1

Proposal(label, score, actionable) ==
  [label |-> label, score |-> score, actionable |-> actionable]
Evidence(source, relation) == [src |-> source, rel |-> relation]
Finding(status, found, refines, promote, broke) ==
  [status |-> status, found |-> found, refines |-> refines,
   promote |-> promote, broke |-> broke]

\* Two contending alerts, or one cause at once actionable.
TheRoots == {{Proposal("cpu", 2, FALSE), Proposal("net", 1, FALSE)},
             {Proposal("cpu", 1, TRUE)}}
TheFindings ==
  { Finding("failed", {}, {}, FALSE, TRUE),
    Finding("degraded", {Evidence("s1", "support")}, {}, FALSE, FALSE),
    Finding("succeeded", {Evidence("s1", "support")}, {}, TRUE, FALSE),
    Finding("succeeded", {Evidence("s1", "neutral"), Evidence("s2", "support")},
            {Proposal("leak", 2, FALSE)}, FALSE, FALSE),
    Finding("succeeded", {Evidence("s2", "refute")},
            {Proposal("disk", 1, TRUE)}, FALSE, FALSE) }
TheRules ==
  [ cpu |-> {Proposal("throttle", 2, FALSE), Proposal("load", 1, TRUE)},
    net |-> {Proposal("dns", 1, TRUE)},
    throttle |-> {Proposal("quota", 2, TRUE)} ]

\* Two versions of one source and a document of another.
ThreeUploads == {v1, v2, w2}
OneUserCall == {r1}
TheSources == [u \in ThreeUploads |-> IF u = w2 THEN w2 ELSE v1]
TheContents == [u \in ThreeUploads |-> u]
AllKbFaults == KbFaultKinds

-----------------------------------------------------------------------------
allVars == <<vars, gosVars, kbVars, focus>>

Deciding == focus = "incident" /\ UNCHANGED <<gosVars, kbVars, focus>>
Diagnosing == focus = "engine" /\ UNCHANGED <<vars, kbVars, focus>>
Documenting == focus = "documents" /\ UNCHANGED <<vars, gosVars, focus>>

\* A component out of focus rests in one initial state.
OperationsInit ==
  /\ focus \in {"incident", "engine", "documents"}
  /\ Init /\ GosInit /\ KbInit
  /\ focus # "engine" => ~legacy

OperationsNext ==
  \/ Deciding /\ Next
  \/ Diagnosing /\ GosNext
  \/ Documenting /\ KbNext

OperationsSpec == OperationsInit /\ [][OperationsNext]_allVars

=============================================================================
