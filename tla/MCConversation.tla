--------------------------- MODULE MCConversation ---------------------------
(***************************************************************************)
(* Small instances of what stands between a user and an answer, for one    *)
(* run of TLC: the chat tasks, the memory of chat sessions and the limit   *)
(* on requests.  They share no variable, so a behaviour runs one of them,  *)
(* the one in focus, and the others rest.                                  *)
(***************************************************************************)
EXTENDS ChatTask, SessionMemory, RateLimiter, TLC

VARIABLE focus

CONSTANTS t1, i1, i2, u1, u2, u3, u4, s1, s2, j1, j2, qa, p1, p2, x1, x2

OneTask == {t1}
TwoInstances == {i1, i2}
NoReruns == {"crash", "conn", "publish", "ambiguous", "unconfirmed", "slow"}

\* Three chat turns of one session, and an AIOps turn of another.
FourTurns == {u1, u2, u3, u4}
OneOpsTurn == {u4}
TwoSessions == {s1, s2}
SessionOfTurn == (u1 :> s1) @@ (u2 :> s1) @@ (u3 :> s1) @@ (u4 :> s2)
OneQuestion == [t \in FourTurns |-> qa]
TwoPods == {j1, j2}
AllSessFaults == SessFaultKinds

TwoProcesses == {p1, p2}
TwoSuffixes == {x1, x2}

\* The chat turns ask the same question in the same session.
Symmetry == Permutations({u1, u2, u3}) \cup Permutations({x1, x2})

-----------------------------------------------------------------------------
allVars == <<vars, sessVars, rlVars, focus>>

Tasking == focus = "tasks" /\ UNCHANGED <<sessVars, rlVars, focus>>
Chatting == focus = "sessions" /\ UNCHANGED <<vars, rlVars, focus>>
Limiting == focus = "limit" /\ UNCHANGED <<vars, sessVars, focus>>

\* A component out of focus rests in one initial state.
ConversationInit ==
  /\ focus \in {"tasks", "sessions", "limit"}
  /\ Init /\ SessInit /\ RlInit
  /\ focus # "limit" => skew = [p \in Processes |-> 0]

ConversationNext ==
  \/ Tasking /\ Next
  \/ Chatting /\ SessNext
  \/ Limiting /\ RlNext

ConversationSpec == ConversationInit /\ [][ConversationNext]_allVars

=============================================================================
