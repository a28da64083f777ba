-------------------------- MODULE MCKnowledgeBase --------------------------
(* Two versions of one document, for TLC. *)
EXTENDS KnowledgeBase, TLC

CONSTANTS v1, v2, r1

TwoVersions == {v1, v2}
OneUserCall == {r1}
OneSource == [u \in TwoVersions |-> v1]
OwnContent == [u \in TwoVersions |-> u]
NoFaults == {}
StoreFaults == {"milvus"}

=============================================================================
