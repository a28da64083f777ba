--------------------------- MODULE MCSessionMemory ---------------------------
(* A small instance of the memory of chat sessions for TLC: the turns of one  *)
(* session, which the load balancer spreads over two pods.                    *)
EXTENDS SessionMemory

CONSTANTS u1, u2, u3, s1, j1, j2, qa

ThreeTurns == {u1, u2, u3}
OneSession == {s1}
NoOpsTurn == {}
SessionOfTurn == [t \in ThreeTurns |-> s1]
OneQuestion == [t \in ThreeTurns |-> qa]
TwoPods == {j1, j2}
NoSessFaults == {}

=============================================================================
