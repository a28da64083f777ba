---------------------------- MODULE MCKnowledge ----------------------------
(***************************************************************************)
(* Small instances of what the system learns and keeps, for one run of     *)
(* TLC: the extraction of memories from answered turns and the long-term   *)
(* memory.  They share no variable, so a behaviour runs one of them, the   *)
(* one in focus, and the other rests.                                      *)
(***************************************************************************)
EXTENDS MemoryExtraction, LongTermMemory, TLC

VARIABLE focus

CONSTANTS u1, u2, e1, i1, i2,
          c1, c2, fact, preference, g, s1, s2, wide, j1, j2

\* Two turns with the same question and summary, on two instances.
TwoTurns == {u1, u2}
OneEvent == {e1}
SameHash == [t \in TwoTurns |-> e1]
TwoInstances == {i1, i2}
AllFaults == FaultKinds

\* Contents of two types that contradict each other, stated again and again by
\* the workers of two sessions.
TwoContents == {c1, c2}
TwoTypes == {fact, preference}
OneGroup == {g}
TwoSessions == {s1, s2}
OneWidePlace == {wide}
TwoWorkers == {j1, j2}

\* Whatever of the long-term memory has no role of its own is interchangeable.
Symmetry == Permutations(Contents) \cup Permutations(Types)
            \cup Permutations(LtmSessions) \cup Permutations(LtmWorkers)

-----------------------------------------------------------------------------
allVars == <<vars, ltmVars, focus>>

Extracting == focus = "extraction" /\ UNCHANGED <<ltmVars, focus>>
Remembering == focus = "memory" /\ UNCHANGED <<vars, focus>>

\* A component out of focus rests in one initial state.
KnowledgeInit ==
  /\ focus \in {"extraction", "memory"}
  /\ Init /\ LtmInit
  /\ focus # "extraction" => home = [t \in Turns |-> i1]

\* The bound of the long-term memory: a behaviour either has two workers, two
\* types and two sessions, or failures and restarts, not both.
StatedIn(m) == {m[id] : id \in Ids} \ {NoEntry}
Plans == {decided[w] : w \in LtmWorkers} \ {NoEntry}
Single(set) == Cardinality(set) <= 1

Simple ==
  /\ Cardinality({w \in LtmWorkers : decided[w] # NoEntry}) <= 1
  /\ Single({e.type : e \in StatedIn(mem) \cup StatedIn(disk)})
  /\ Single({e.session : e \in StatedIn(mem) \cup StatedIn(disk)}
            \cup {d.session : d \in Plans})

LtmBound == ltmFaults = 0 \/ Simple

KnowledgeNext ==
  \/ Extracting /\ Next
  \/ Remembering /\ LtmNext /\ LtmBound'

KnowledgeSpec == KnowledgeInit /\ [][KnowledgeNext]_allVars

=============================================================================
