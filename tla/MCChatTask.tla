---------------------------- MODULE MCChatTask ----------------------------
(* Small instances of the chat task pipeline for TLC. *)
EXTENDS ChatTask

CONSTANTS t1, t2, i1, i2

OneTask == {t1}
TwoTasks == {t1, t2}
TwoInstances == {i1, i2}

Calm == {"conn", "expire"}
CrashOnly == {"crash"}

\* Tasks are alike: the first to be submitted is called t1.  (A symmetry set is not
\* sound where liveness is checked.)
InOrder == submit'[t2] # "new" => submit'[t1] # "new"

CalmSpec == Init /\ [][Next /\ InOrder]_vars /\ Fairness

=============================================================================
