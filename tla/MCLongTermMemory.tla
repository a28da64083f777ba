-------------------------- MODULE MCLongTermMemory --------------------------
(* Two contents of one group, stated by one worker for one session, for TLC. *)
EXTENDS LongTermMemory, TLC

CONSTANTS c1, c2, fact, g, s1, wide, w1

TwoContents == {c1, c2}
OneType == {fact}
OneGroup == {g}
OneSession == {s1}
OneWidePlace == {wide}
OneWorker == {w1}

=============================================================================
