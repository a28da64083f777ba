----------------------------- MODULE TaskPromise -----------------------------
(***************************************************************************)
(* What the chat task pipeline promises to a client, whatever the queues,  *)
(* claims and processes behind it do: a task is accepted or refused; an    *)
(* accepted one is in the end answered or given up to the dead letters,    *)
(* and an answer is final.  ChatTask implements it.                        *)
(***************************************************************************)
CONSTANTS
  Tasks,
  Reopens    \* whether an answered task may be worked on again

VARIABLE promise  \* of each task: new, open, answered, dead or refused

Becomes(t, p) == promise' = [promise EXCEPT ![t] = p]

Accept(t) == promise[t] = "new" /\ Becomes(t, "open")

\* The worker may be faster than the reply to the client; and a task in the
\* dead letters may have had a second copy.
Answer(t) == promise[t] \in {"new", "open", "dead"} /\ Becomes(t, "answered")

GiveUp(t) == promise[t] \in {"new", "open"} /\ Becomes(t, "dead")

\* The client is told so, and must not count on anything done in the meantime.
Refuse(t) == promise[t] # "refused" /\ Becomes(t, "refused")

Reopen(t) == /\ Reopens
             /\ promise[t] = "answered"
             /\ \E p \in {"new", "open", "dead"} : Becomes(t, p)

Init == promise = [t \in Tasks |-> "new"]

Next == \E t \in Tasks :
          Accept(t) \/ Answer(t) \/ GiveUp(t) \/ Refuse(t) \/ Reopen(t)

Spec == Init /\ [][Next]_promise

Settles == \A t \in Tasks : promise[t] = "open" ~> promise[t] # "open"

LiveSpec == Spec /\ Settles

=============================================================================
