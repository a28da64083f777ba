-------------------------- MODULE IncidentApproval --------------------------
(***************************************************************************)
(* An AIOps incident session and the approval queue behind it.  A session  *)
(* is a list of turns kept in one JSON file; each turn runs an AIOps query *)
(* in a goroutine of its own.  A high-risk query is not run: the approval  *)
(* gate queues a request in Redis, and a reviewer's HTTP call approves it, *)
(* runs it and writes what it did back into the turn, or rejects it.       *)
(*                                                                         *)
(*   internal/ai/service/ai_ops_incident.go        turns, guards, records  *)
(*   internal/ai/service/ai_ops_incident_exec.go   executeIncidentTurn     *)
(*   internal/ai/service/ai_ops_incident_store.go  the file store          *)
(*   internal/ai/service/ai_ops_service.go         RunAIOpsMultiAgent      *)
(*   internal/ai/service/approval_gate.go          Check                   *)
(*   internal/ai/service/approval_queue.go         the Redis queue         *)
(*   internal/ai/service/ai_ops_approval.go        approve and reject      *)
(*                                                                         *)
(* A turn's request is named by the turn (its id is a fresh uuid and one   *)
(* run queues at most one).  The store holds a mutex over read, update and *)
(* write, so a store operation is one action; every Redis command is one.  *)
(***************************************************************************)
EXTENDS Naturals

CONSTANTS
  MaxTurns,      \* bound: turns of the session
  Reviewers,     \* concurrent HTTP calls that decide requests
  Faults,        \* the kinds of failure that may happen
  Picks,         \* the status lists reviewers pick requests from
  Hasty,         \* may a request be decided before its turn stored its id
  MaxDecisions   \* bound: decisions reviewers make

FaultKinds == { "redis",    \* a Redis command returns an error
                "expire",   \* a request reaches its TTL
                "disk",     \* os.WriteFile fails
                "crash" }   \* the process dies and is restarted

ListNames == {"pending", "approved", "rejected", "executed"}

ASSUME MaxTurnsAssumption == MaxTurns \in Nat
ASSUME MaxDecisionsAssumption == MaxDecisions \in Nat
ASSUME FaultsAssumption == Faults \subseteq FaultKinds
ASSUME PicksAssumption == Picks \subseteq ListNames
ASSUME HastyAssumption == Hasty \in BOOLEAN

VARIABLES
  file,       \* the incident's file: absent, readable, or cut short
  incident,   \* IncidentSession.Status
  turn,       \* status of each turn, "none" before it is appended
  linked,     \* the turn has its ApprovalRequestID
  risky,      \* requiresApproval holds of the turn's query
  runner,     \* where the goroutine of each turn stands
  result,     \* the status the goroutine is about to store
  request,    \* Redis: status in the request's record, "none" if absent
  index,      \* Redis: the set of request ids under each status
  pc,         \* where each reviewer's call stands
  op,         \* which save the call is in
  target,     \* the request the call is about
  outcome,    \* the status of the approved run it is about to record
  decisions,  \* decisions so far
  granted,    \* approvals a call saved, per call and request (history)
  ran         \* runs a call dispatched, per call and request (history)

storeVars == <<file, incident, turn, linked>>
runVars == <<risky, runner, result>>
queueVars == <<request, index>>
callVars == <<pc, op, target, outcome, decisions, granted, ran>>
vars == <<storeVars, runVars, queueVars, callVars>>

Turns == 1..MaxTurns

Settled == {"completed", "degraded", "failed"}

TurnStatuses == {"none", "running", "waiting_approval", "active"} \cup Settled

RunnerSteps == {"none", "begin", "gate", "add", "run", "finish", "done", "dead"}

Active(t) == runner[t] \in {"begin", "gate", "add", "run", "finish"}

CallSteps == {"idle", "set", "rem", "add", "run", "running", "mark", "note"}

----------------------------------------------------------------------------
(* The file store and Redis *)

\* writeIncidentJSON truncates the file and writes it again: a failure leaves
\* the old contents or a file that no longer parses.
WriteFails == /\ "disk" \in Faults
              /\ file' \in {file, "torn"}
              /\ UNCHANGED <<incident, turn, linked>>

\* One Redis command: ok is its result, done whether Redis carried it out.
Command(ok, done) == IF ok THEN done ELSE "redis" \in Faults

HasRunningTurn == \E t \in Turns : turn[t] = "running"

----------------------------------------------------------------------------
(* Turns *)

\* CreateAIOpsIncident for the first turn, AppendAIOpsIncidentTurn after it:
\* refused while a turn runs, and the goroutine starts only once it is saved.
StartTurn(t) ==
  /\ turn[t] = "none"
  /\ IF t = 1 THEN file = "none" ELSE file = "good" /\ turn[t - 1] # "none"
  /\ ~HasRunningTurn
  /\ \/ /\ file' = "good"
        /\ turn' = [turn EXCEPT ![t] = "running"]
        /\ incident' = "running"
        /\ runner' = [runner EXCEPT ![t] = "begin"]
        /\ \E high \in BOOLEAN : risky' = [risky EXCEPT ![t] = high]
        /\ UNCHANGED linked
     \/ WriteFails /\ UNCHANGED <<risky, runner>>
  /\ UNCHANGED <<result, queueVars, callVars>>

\* executeIncidentTurn reads the incident; it gives up if it cannot.
Begin(t) ==
  /\ runner[t] = "begin"
  /\ runner' = [runner EXCEPT ![t] = IF file = "good" THEN "gate" ELSE "done"]
  /\ UNCHANGED <<storeVars, risky, result, queueVars, callVars>>

Answer(t, status) ==
  /\ runner' = [runner EXCEPT ![t] = "finish"]
  /\ result' = [result EXCEPT ![t] = status]

\* AIOps switched off, engine unavailable, kill switch: a degraded answer.
AnswerDegraded(t) ==
  /\ runner[t] = "gate"
  /\ Answer(t, "degraded")
  /\ UNCHANGED <<storeVars, risky, queueVars, callVars>>

NeedsApproval(t) == risky[t]

\* The gate lets the query through; getOrCreateAIOpsRuntime may fail.
PassGate(t) ==
  /\ runner[t] = "gate"
  /\ ~NeedsApproval(t)
  /\ \/ runner' = [runner EXCEPT ![t] = "run"] /\ UNCHANGED result
     \/ Answer(t, "failed")
  /\ UNCHANGED <<storeVars, risky, queueVars, callVars>>

\* ApprovalQueue.Enqueue's SETEX.  A disabled queue or an error refuses the
\* query with ResultStatusSucceeded, which the turn stores as completed.
EnqueueSet(t) ==
  /\ runner[t] = "gate"
  /\ NeedsApproval(t)
  /\ \E ok, done \in BOOLEAN :
       /\ Command(ok, done)
       /\ request' = IF done THEN [request EXCEPT ![t] = "pending"] ELSE request
       /\ IF ok THEN /\ runner' = [runner EXCEPT ![t] = "add"]
                     /\ UNCHANGED result
                ELSE Answer(t, "completed")
  /\ UNCHANGED <<storeVars, risky, index, callVars>>

EnqueueDisabled(t) ==
  /\ runner[t] = "gate"
  /\ NeedsApproval(t)
  /\ Answer(t, "completed")
  /\ UNCHANGED <<storeVars, risky, queueVars, callVars>>

QueuedAnswerM(ok) == "waiting_approval"

QueuedAnswer(ok) == IF ok THEN "waiting_approval" ELSE "completed"

\* Its SADD: only then is the caller told that approval is required.
EnqueueAdd(t) ==
  /\ runner[t] = "add"
  /\ \E ok, done \in BOOLEAN :
       /\ Command(ok, done)
       /\ index' = IF done THEN [index EXCEPT !["pending"] = @ \cup {t}]
                           ELSE index
       /\ Answer(t, QueuedAnswer(ok))
  /\ UNCHANGED <<storeVars, risky, request, callVars>>

\* Dispatch ends, within the turn's timeout.
EndRun(t) ==
  /\ runner[t] = "run"
  /\ \E status \in Settled : Answer(t, status)
  /\ UNCHANGED <<storeVars, risky, queueVars, callVars>>

FinishTurnM(t) == IF result[t] = "failed" THEN turn
                                          ELSE [turn EXCEPT ![t] = result[t]]

FinishTurn(t) == [turn EXCEPT ![t] = result[t]]

\* The closing store.Update: its error is dropped, and the goroutine is gone.
Finish(t) ==
  /\ runner[t] = "finish"
  /\ runner' = [runner EXCEPT ![t] = "done"]
  /\ \/ /\ file = "good"
        /\ file' = "good"
        /\ turn' = FinishTurn(t)
        /\ incident' = result[t]
        /\ linked' = [linked EXCEPT ![t] = result[t] = "waiting_approval"]
     \/ WriteFails
     \/ file = "torn" /\ UNCHANGED storeVars
  /\ UNCHANGED <<risky, result, queueVars, callVars>>

----------------------------------------------------------------------------
(* Decisions *)

Quiet(p) == UNCHANGED <<op, target, outcome, decisions, granted, ran>>

Goto(p, step) == pc' = [pc EXCEPT ![p] = step]

\* A reviewer decides a request seen in one of the lists.  Approve and Reject
\* read its record (a missing one is an error) and look at no status.
Decide(p, r, kind) ==
  /\ pc[p] = "idle"
  /\ decisions < MaxDecisions
  /\ \E s \in Picks : r \in index[s]
  /\ Hasty \/ linked[r]
  /\ request[r] # "none"
  /\ decisions' = decisions + 1
  /\ Goto(p, "set")
  /\ op' = [op EXCEPT ![p] = kind]
  /\ target' = [target EXCEPT ![p] = r]
  /\ UNCHANGED <<storeVars, runVars, queueVars, outcome, granted, ran>>

\* The status a save writes, and the index it takes the id out of.
NewStatus(kind) == CASE kind = "approve" -> "approved"
                     [] kind = "reject" -> "rejected"
                     [] kind = "mark" -> "executed"

PreviousM(kind) == IF kind = "approve" THEN "pending" ELSE "approved"

Previous(kind) == IF kind = "mark" THEN "approved" ELSE "pending"

\* After a failed save Approve and Reject return the error; a failed
\* MarkExecuted is passed over.
AfterErrorM(kind) == CASE kind = "mark" -> "note"
                       [] kind = "approve" -> "run"
                       [] kind = "reject" -> "idle"

AfterError(kind) == IF kind = "mark" THEN "note" ELSE "idle"

AfterRemove(kind) == "add"

\* After a completed save an approved query is run, anything else recorded.
AfterSaveM(kind) == IF kind = "mark" THEN "note" ELSE "run"

AfterSave(kind) == IF kind = "approve" THEN "run" ELSE "note"

SaveSet(p) ==
  /\ pc[p] = "set"
  /\ \E ok, done \in BOOLEAN :
       /\ Command(ok, done)
       /\ request' = IF done
                     THEN [request EXCEPT ![target[p]] = NewStatus(op[p])]
                     ELSE request
       /\ Goto(p, IF ok THEN "rem" ELSE AfterError(op[p]))
  /\ Quiet(p)
  /\ UNCHANGED <<storeVars, runVars, index>>

SaveRemove(p) ==
  /\ pc[p] = "rem"
  /\ \E ok, done \in BOOLEAN :
       /\ Command(ok, done)
       /\ index' = IF done
                   THEN [index EXCEPT ![Previous(op[p])] = @ \ {target[p]}]
                   ELSE index
       /\ Goto(p, IF ok THEN AfterRemove(op[p]) ELSE AfterError(op[p]))
  /\ Quiet(p)
  /\ UNCHANGED <<storeVars, runVars, request>>

SaveAdd(p) ==
  /\ pc[p] = "add"
  /\ \E ok, done \in BOOLEAN :
       /\ Command(ok, done)
       /\ index' = IF done
                   THEN [index EXCEPT ![NewStatus(op[p])] = @ \cup {target[p]}]
                   ELSE index
       /\ Goto(p, IF ok THEN AfterSave(op[p]) ELSE AfterError(op[p]))
       /\ granted' = IF ok /\ op[p] = "approve"
                     THEN [granted EXCEPT ![p][target[p]] = @ + 1] ELSE granted
  /\ UNCHANGED <<storeVars, runVars, request, op, target, outcome, decisions,
                 ran>>

\* RunAIOpsMultiAgent with the approval bypass: it dispatches the query, ...
BeginApproved(p) ==
  /\ pc[p] = "run"
  /\ Goto(p, "running")
  /\ ran' = [ran EXCEPT ![p][target[p]] = @ + 1]
  /\ UNCHANGED <<storeVars, runVars, queueVars, op, target, outcome, decisions,
                 granted>>

\* ... or answers degraded, without a trace id and so without MarkExecuted, ...
AnswerApproved(p) ==
  /\ pc[p] = "run"
  /\ Goto(p, "note")
  /\ outcome' = [outcome EXCEPT ![p] = "degraded"]
  /\ UNCHANGED <<storeVars, runVars, queueVars, op, target, decisions, granted,
                 ran>>

\* ... or fails with an error: the call returns and the request stays approved.
FailApproved(p) ==
  /\ pc[p] \in {"run", "running"}
  /\ Goto(p, "idle")
  /\ Quiet(p)
  /\ UNCHANGED <<storeVars, runVars, queueVars>>

EndApproved(p) ==
  /\ pc[p] = "running"
  /\ Goto(p, "mark")
  /\ \E status \in Settled : outcome' = [outcome EXCEPT ![p] = status]
  /\ UNCHANGED <<storeVars, runVars, queueVars, op, target, decisions, granted,
                 ran>>

\* MarkExecuted reads the record again; a missing one is an error.
Mark(p) ==
  /\ pc[p] = "mark"
  /\ \E ok \in BOOLEAN :
       /\ Command(ok, ok)
       /\ IF ok /\ request[target[p]] # "none"
          THEN Goto(p, "set") /\ op' = [op EXCEPT ![p] = "mark"]
          ELSE Goto(p, "note") /\ UNCHANGED op
  /\ UNCHANGED <<storeVars, runVars, queueVars, target, outcome, decisions,
                 granted, ran>>

NotedStatus(p) == IF op[p] = "reject" THEN "active" ELSE outcome[p]

\* The turn an update lands on: the one that stored the request's id, if any.
NotedTurnsM(r) == {t \in Turns : turn[t] # "none"
                                 /\ \A u \in Turns : u > t => turn[u] = "none"}

NotedTurns(r) == {t \in Turns : t = r /\ linked[t]}

\* RecordIncidentApprovalExecution or RecordIncidentApprovalRejection.  An
\* absent or unreadable turn is passed over without an error.
Note(p) ==
  /\ pc[p] = "note"
  /\ Goto(p, "idle")
  /\ IF file = "good" /\ NotedTurns(target[p]) # {}
     THEN \/ /\ \E t \in NotedTurns(target[p]) :
                  turn' = [turn EXCEPT ![t] = NotedStatus(p)]
             /\ incident' = NotedStatus(p)
             /\ UNCHANGED <<file, linked>>
          \/ WriteFails
     ELSE UNCHANGED storeVars
  /\ Quiet(p)
  /\ UNCHANGED <<runVars, queueVars>>

----------------------------------------------------------------------------
(* Failures that are nobody's step *)

Expire(r) ==
  /\ "expire" \in Faults
  /\ request[r] # "none"
  /\ request' = [request EXCEPT ![r] = "none"]
  /\ UNCHANGED <<storeVars, runVars, index, callVars>>

\* The process dies: goroutines and calls are gone, and nothing resumes them.
Crash ==
  /\ "crash" \in Faults
  /\ \/ \E t \in Turns : Active(t)
     \/ \E p \in Reviewers : pc[p] # "idle"
  /\ runner' = [t \in Turns |-> IF Active(t) THEN "dead" ELSE runner[t]]
  /\ pc' = [p \in Reviewers |-> "idle"]
  /\ UNCHANGED <<storeVars, risky, result, queueVars, op, target, outcome,
                 decisions, granted, ran>>

----------------------------------------------------------------------------
Init ==
  /\ file = "none"
  /\ incident = "none"
  /\ turn = [t \in Turns |-> "none"]
  /\ linked = [t \in Turns |-> FALSE]
  /\ risky = [t \in Turns |-> FALSE]
  /\ runner = [t \in Turns |-> "none"]
  /\ result = [t \in Turns |-> "none"]
  /\ request = [t \in Turns |-> "none"]
  /\ index = [s \in ListNames |-> {}]
  /\ pc = [p \in Reviewers |-> "idle"]
  /\ op = [p \in Reviewers |-> "none"]
  /\ target = [p \in Reviewers |-> 0]
  /\ outcome = [p \in Reviewers |-> "none"]
  /\ decisions = 0
  /\ granted = [p \in Reviewers |-> [t \in Turns |-> 0]]
  /\ ran = [p \in Reviewers |-> [t \in Turns |-> 0]]

Run(t) ==
  \/ Begin(t) \/ AnswerDegraded(t) \/ PassGate(t) \/ EnqueueSet(t)
  \/ EnqueueDisabled(t) \/ EnqueueAdd(t) \/ EndRun(t) \/ Finish(t)

Call(p) ==
  \/ SaveSet(p) \/ SaveRemove(p) \/ SaveAdd(p)
  \/ BeginApproved(p) \/ AnswerApproved(p) \/ FailApproved(p) \/ EndApproved(p)
  \/ Mark(p) \/ Note(p)

Next ==
  \/ \E t \in Turns : StartTurn(t) \/ Run(t) \/ Expire(t)
  \/ \E p \in Reviewers :
       \/ Call(p)
       \/ \E r \in Turns, kind \in {"approve", "reject"} : Decide(p, r, kind)
  \/ Crash

Spec == Init /\ [][Next]_vars

\* A goroutine and an HTTP call that can go on do go on; the turn timeout and
\* the request's context end every dispatch.
LiveSpec == Spec /\ \A t \in Turns : WF_vars(Run(t))
                 /\ \A p \in Reviewers : WF_vars(Call(p))

----------------------------------------------------------------------------
(* Properties *)

TypeOK ==
  /\ file \in {"none", "good", "torn"}
  /\ incident \in TurnStatuses
  /\ turn \in [Turns -> TurnStatuses]
  /\ linked \in [Turns -> BOOLEAN]
  /\ risky \in [Turns -> BOOLEAN]
  /\ runner \in [Turns -> RunnerSteps]
  /\ result \in [Turns -> {"none", "waiting_approval"} \cup Settled]
  /\ request \in [Turns -> {"none"} \cup ListNames]
  /\ index \in [ListNames -> SUBSET Turns]
  /\ pc \in [Reviewers -> CallSteps]
  /\ op \in [Reviewers -> {"none", "approve", "reject", "mark"}]
  /\ target \in [Reviewers -> Turns \cup {0}]
  /\ outcome \in [Reviewers -> {"none"} \cup Settled]
  /\ decisions \in 0..MaxDecisions
  /\ granted \in [Reviewers -> [Turns -> Nat]]
  /\ ran \in [Reviewers -> [Turns -> Nat]]

\* At most one turn of a session is being worked on, and nobody but its own
\* goroutine ends a turn: a late approval or rejection of an earlier turn
\* never lands on it (ErrIncidentTurnRunning, updateIncidentApproval).
OneTurnAtATime ==
  \A t \in Turns : Active(t) =>
    /\ turn[t] = "running" \/ file = "torn"
    /\ \A u \in Turns : Active(u) => u = t

\* A high-risk query is dispatched only by a call whose own approval was
\* saved to the end, once per approval: never by the turn itself, nor after
\* a save that failed half way (StaticApprovalGate, ApproveQueuedAIOpsRequest).
ApprovalBuysOneRun ==
  /\ \A t \in Turns : risky[t] => runner[t] # "run"
  /\ \A p \in Reviewers, t \in Turns : ran[p][t] <= granted[p][t]

\* A turn that tells its user to wait for an approval has a request that the
\* list of pending requests shows, until somebody decides it or it expires
\* (Enqueue, List): whatever fails, no user waits for an invisible request.
WaitingIsListed ==
  \A t \in Turns :
    linked[t] /\ request[t] = "pending" => t \in index["pending"]

Idle(r) == \A p \in Reviewers : target[p] = r => pc[p] = "idle"

\* A decided request has left the list of pending ones once its calls are
\* over (save's SREM): reviewers are not offered it again.
DecidedIsUnlisted ==
  \A r \in Turns :
    Idle(r) /\ request[r] \notin {"none", "pending"} => r \notin index["pending"]

\* A status of the record only moves on from pending to approved to executed,
\* or from pending to rejected (ApprovalQueue).
StatusOrder ==
  [][\A r \in Turns :
       request'[r] # request[r] =>
         <<request[r], request'[r]>> \in
           {<<"none", "pending">>, <<"pending", "approved">>,
            <<"approved", "executed">>, <<"pending", "rejected">>}]_vars

\* A request that was executed or rejected has told its turn: the session no
\* longer waits for an approval that is over (RecordIncidentApproval...).
DecisionReachesTurn ==
  \A t \in Turns :
    ~Active(t) /\ Idle(t) /\ request[t] \in {"executed", "rejected"} =>
      turn[t] # "waiting_approval"

\* Every turn ends, so that the session can be continued (executeIncidentTurn,
\* incidentTurnTimeout).
TurnsEnd == \A t \in Turns : turn[t] = "running" ~> turn[t] # "running"

=============================================================================
