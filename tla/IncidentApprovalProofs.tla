----------------------- MODULE IncidentApprovalProofs -----------------------
(***************************************************************************)
(* Proofs about the incident session and its approvals, for every number   *)
(* of turns and of concurrent calls.  Where a theorem needs some failures  *)
(* excluded it says so.                                                    *)
(***************************************************************************)
EXTENDS IncidentApproval, TLAPS

----------------------------------------------------------------------------
(* The inductive invariants *)

\* A call knows its request and what it does; one that records a run has its
\* outcome; a goroutine about to store a result has one.
CallInv ==
  /\ \A p \in Reviewers :
       /\ pc[p] # "idle" => target[p] \in Turns /\ op[p] # "none"
       /\ pc[p] \in {"run", "running"} => op[p] = "approve"
       /\ pc[p] = "mark" => op[p] = "approve"
       /\ pc[p] = "mark" => outcome[p] \in Settled
       /\ pc[p] # "idle" /\ op[p] = "mark" => outcome[p] \in Settled
       /\ pc[p] = "note" /\ op[p] # "reject" => outcome[p] \in Settled
  /\ \A t \in Turns : runner[t] = "finish" => result[t] # "none"

TypeInv == TypeOK /\ CallInv

\* A turn that has a request id is over; one that was never appended has not
\* been started.
TurnInv ==
  \A t \in Turns : /\ linked[t] => runner[t] = "done"
                   /\ linked[t] => turn[t] # "none"
                   /\ turn[t] = "none" => runner[t] = "none"

\* An approval not yet spent is held by the call that saved it.
GrantInv ==
  /\ \A t \in Turns : risky[t] => runner[t] # "run"
  /\ \A p \in Reviewers, t \in Turns :
       ran[p][t] + (IF pc[p] = "run" /\ target[p] = t THEN 1 ELSE 0)
         <= granted[p][t]

Early == {"none", "begin", "gate"}

\* What has been listed, or is being decided, was queued before; the calls
\* that unlist a request have written its new status first; and a turn that
\* will store the id of a request has seen it listed.
ListInv ==
  /\ \A s \in ListNames, t \in Turns : t \in index[s] => runner[t] \notin Early
  /\ \A p \in Reviewers : pc[p] # "idle" => runner[target[p]] \notin Early
  /\ \A p \in Reviewers :
       pc[p] = "rem" /\ op[p] # "mark" => request[target[p]] # "pending"
  /\ \A t \in Turns :
       /\ linked[t] \/ (runner[t] = "finish" /\ result[t] = "waiting_approval")
       /\ request[t] = "pending"
       => t \in index["pending"]

Unlisting(p) == op[p] # "mark" /\ pc[p] \in {"set", "rem"}

\* Without Redis errors and crashes: a decided request that is still listed
\* as pending is about to be taken off the list.
UnlistInv ==
  /\ \A s \in ListNames, t \in Turns : t \in index[s] => runner[t] # "add"
  /\ \A p \in Reviewers :
       pc[p] # "idle" => runner[target[p]] # "add"
  /\ \A t \in Turns : request[t] \notin {"none", "pending"} =>
                        runner[t] \notin Early \cup {"add"}
  /\ \A p \in Reviewers :
       pc[p] # "idle" /\ ~Unlisting(p) => target[p] \notin index["pending"]
  /\ \A t \in Turns :
       request[t] \notin {"none", "pending"} /\ t \in index["pending"] =>
         \E p \in Reviewers :
           target[p] = t /\ pc[p] = "rem" /\ op[p] # "mark"

\* Without Redis errors, crashes and expiry, and with one call at a time that
\* picks from the pending list: what a call finds in the record of its request.
OrderInv ==
  /\ \A t \in Turns : runner[t] \in Early => request[t] = "none"
  /\ \A p \in Reviewers :
       /\ pc[p] = "set" => request[target[p]] = Previous(op[p])
       /\ op[p] = "approve" /\ pc[p] \in {"rem", "add", "run", "running", "mark"}
          => request[target[p]] = "approved"

\* The call has decided its request, or run it, and will tell the turn.
WillNote(p) == pc[p] \in {"rem", "add", "note"} /\ op[p] \in {"mark", "reject"}

\* With reviewers who wait for the turn to store its request, and no failure
\* but expiry: a turn still waits for a request that is over only while the
\* call that ended it is on its way to say so.
ReachInv ==
  /\ file # "torn"
  /\ \A t \in Turns : linked[t] => file = "good"
  /\ \A p \in Reviewers : pc[p] # "idle" => linked[target[p]]
  /\ \A t \in Turns : request[t] \in {"executed", "rejected"} => linked[t]
  /\ \A t \in Turns :
       request[t] \in {"executed", "rejected"} /\ turn[t] = "waiting_approval" =>
         \E p \in Reviewers : target[p] = t /\ WillNote(p)

----------------------------------------------------------------------------
(* Types *)

LEMMA TypeInit == Init => TypeInv
BY MaxDecisionsAssumption
DEF Init, TypeInv, TypeOK, CallInv, TurnStatuses, RunnerSteps, CallSteps,
    ListNames, Settled

\* What a goroutine's steps keep of the types.
LEMMA RunType ==
  ASSUME TypeInv, NEW t \in Turns, StartTurn(t) \/ Run(t) \/ Expire(t)
  PROVE  TypeInv'
<1> USE DEF TypeInv, TypeOK, CallInv, TurnStatuses, RunnerSteps, Settled,
            callVars
<1>1. CASE StartTurn(t)
  <2>1. CASE WriteFails /\ UNCHANGED <<risky, runner>>
    BY <1>1, <2>1 DEF StartTurn, WriteFails, queueVars
  <2>2. CASE ~(WriteFails /\ UNCHANGED <<risky, runner>>)
    <3>1. /\ file' = "good" /\ incident' = "running" /\ UNCHANGED linked
          /\ turn' = [turn EXCEPT ![t] = "running"]
          /\ runner' = [runner EXCEPT ![t] = "begin"]
      BY <1>1, <2>2 DEF StartTurn
    <3>2. risky' \in [Turns -> BOOLEAN]
      BY <1>1, <2>2 DEF StartTurn
    <3>3. UNCHANGED <<result, queueVars, callVars>>
      BY <1>1 DEF StartTurn
    <3>4. TypeOK'
      BY <3>1, <3>2, <3>3 DEF queueVars
    <3> QED
      BY <3>1, <3>3, <3>4
  <2> QED
    BY <2>1, <2>2
<1>2. CASE Begin(t)
  BY <1>2 DEF Begin, storeVars, queueVars
<1>3. CASE AnswerDegraded(t)
  BY <1>3 DEF AnswerDegraded, Answer, storeVars, queueVars
<1>4. CASE PassGate(t)
  <2>1. CASE Answer(t, "failed")
    BY <1>4, <2>1 DEF PassGate, Answer, storeVars, queueVars
  <2>2. CASE runner' = [runner EXCEPT ![t] = "run"] /\ UNCHANGED result
    BY <1>4, <2>2 DEF PassGate, storeVars, queueVars
  <2> QED
    BY <1>4, <2>1, <2>2 DEF PassGate
<1>5. CASE EnqueueSet(t)
  <2>1. PICK ok, done \in BOOLEAN :
           /\ request' = IF done THEN [request EXCEPT ![t] = "pending"]
                                 ELSE request
           /\ IF ok THEN /\ runner' = [runner EXCEPT ![t] = "add"]
                         /\ UNCHANGED result
                    ELSE Answer(t, "completed")
    BY <1>5 DEF EnqueueSet
  <2>2. request' \in [Turns -> {"none"} \cup ListNames]
    BY <2>1 DEF ListNames
  <2> QED
    <3>1. CASE ok
      BY <1>5, <2>1, <2>2, <3>1 DEF EnqueueSet, storeVars
    <3>2. CASE ~ok
      BY <1>5, <2>1, <2>2, <3>2 DEF EnqueueSet, Answer, storeVars
    <3> QED
      BY <3>1, <3>2
<1>6. CASE EnqueueDisabled(t)
  BY <1>6 DEF EnqueueDisabled, Answer, storeVars, queueVars
<1>7. CASE EnqueueAdd(t)
  <2>1. PICK ok, done \in BOOLEAN :
           /\ index' = IF done THEN [index EXCEPT !["pending"] = @ \cup {t}]
                               ELSE index
           /\ Answer(t, QueuedAnswer(ok))
    BY <1>7 DEF EnqueueAdd
  <2>2. index' \in [ListNames -> SUBSET Turns]
    BY <2>1
  <2> QED
    BY <1>7, <2>1, <2>2 DEF EnqueueAdd, Answer, QueuedAnswer, storeVars
<1>8. CASE EndRun(t)
  BY <1>8 DEF EndRun, Answer, storeVars, queueVars
<1>9. CASE Finish(t)
  <2>1. result[t] \in TurnStatuses /\ runner' = [runner EXCEPT ![t] = "done"]
    BY <1>9 DEF Finish
  <2>2. /\ file' \in {"none", "good", "torn"}
        /\ incident' \in TurnStatuses
        /\ turn' \in [Turns -> TurnStatuses]
        /\ linked' \in [Turns -> BOOLEAN]
    BY <1>9, <2>1 DEF Finish, FinishTurn, WriteFails, storeVars
  <2> QED
    <3>1. UNCHANGED <<risky, result, queueVars, callVars>>
      BY <1>9 DEF Finish
    <3>2. TypeOK'
      BY <2>1, <2>2, <3>1 DEF queueVars
    <3> QED
      BY <2>1, <3>1, <3>2
<1>10. CASE Expire(t)
  BY <1>10 DEF Expire, storeVars, runVars
<1> QED
  BY <1>1, <1>2, <1>3, <1>4, <1>5, <1>6, <1>7, <1>8, <1>9, <1>10 DEF Run

\* What a call's steps keep of the types.
LEMMA CallType ==
  ASSUME TypeInv, NEW p \in Reviewers,
         Call(p) \/ \E r \in Turns, kind \in {"approve", "reject"} :
                      Decide(p, r, kind)
  PROVE  TypeInv'
<1> USE DEF TypeInv, TypeOK, CallInv, CallSteps, Settled, runVars
<1>1. ASSUME NEW r \in Turns, NEW kind \in {"approve", "reject"},
             Decide(p, r, kind)
      PROVE  TypeInv'
  BY <1>1, MaxDecisionsAssumption
  DEF Decide, Goto, storeVars, queueVars
<1>2. CASE SaveSet(p)
  <2>1. PICK ok, done \in BOOLEAN :
           /\ request' = IF done
                         THEN [request EXCEPT ![target[p]] = NewStatus(op[p])]
                         ELSE request
           /\ Goto(p, IF ok THEN "rem" ELSE AfterError(op[p]))
    BY <1>2 DEF SaveSet
  <2>2. op[p] \in {"approve", "reject", "mark"}
    BY <1>2 DEF SaveSet
  <2>3. NewStatus(op[p]) \in ListNames
    BY <2>2 DEF NewStatus, ListNames
  <2>4. request' \in [Turns -> {"none"} \cup ListNames]
    BY <2>1, <2>3
  <2>5. AfterError(op[p]) \in {"note", "idle"}
        /\ (AfterError(op[p]) = "note" => op[p] = "mark")
    BY DEF AfterError
  <2> QED
    BY <1>2, <2>1, <2>4, <2>5 DEF SaveSet, Goto, Quiet, storeVars
<1>3. CASE SaveRemove(p)
  <2>1. PICK ok, done \in BOOLEAN :
           /\ index' = IF done
                       THEN [index EXCEPT ![Previous(op[p])] = @ \ {target[p]}]
                       ELSE index
           /\ Goto(p, IF ok THEN AfterRemove(op[p]) ELSE AfterError(op[p]))
    BY <1>3 DEF SaveRemove
  <2>2. index' \in [ListNames -> SUBSET Turns]
    BY <2>1
  <2>3. AfterError(op[p]) \in {"note", "idle"}
        /\ (AfterError(op[p]) = "note" => op[p] = "mark")
    BY DEF AfterError
  <2> QED
    BY <1>3, <2>1, <2>2, <2>3
    DEF SaveRemove, AfterRemove, Goto, Quiet, storeVars
<1>4. CASE SaveAdd(p)
  <2>1. PICK ok, done \in BOOLEAN :
           /\ index' = IF done
                       THEN [index EXCEPT ![NewStatus(op[p])] =
                                            @ \cup {target[p]}]
                       ELSE index
           /\ Goto(p, IF ok THEN AfterSave(op[p]) ELSE AfterError(op[p]))
           /\ granted' = IF ok /\ op[p] = "approve"
                         THEN [granted EXCEPT ![p][target[p]] = @ + 1]
                         ELSE granted
    BY <1>4 DEF SaveAdd
  <2>2. target[p] \in Turns /\ op[p] \in {"approve", "reject", "mark"}
    BY <1>4 DEF SaveAdd
  <2>3. index' \in [ListNames -> SUBSET Turns]
    BY <2>1, <2>2
  <2>4. granted' \in [Reviewers -> [Turns -> Nat]]
    BY <2>1, <2>2
  <2>5. AfterError(op[p]) \in {"note", "idle"}
        /\ (AfterError(op[p]) = "note" => op[p] = "mark")
    BY DEF AfterError
  <2>6. AfterSave(op[p]) \in {"run", "note"}
        /\ (AfterSave(op[p]) = "run" <=> op[p] = "approve")
    BY DEF AfterSave
  <2> QED
    BY <1>4, <2>1, <2>2, <2>3, <2>4, <2>5, <2>6 DEF SaveAdd, Goto, storeVars
<1>5. CASE BeginApproved(p)
  BY <1>5 DEF BeginApproved, Goto, storeVars, queueVars
<1>6. CASE AnswerApproved(p)
  BY <1>6 DEF AnswerApproved, Goto, storeVars, queueVars
<1>7. CASE FailApproved(p)
  BY <1>7 DEF FailApproved, Goto, Quiet, storeVars, queueVars
<1>8. CASE EndApproved(p)
  BY <1>8 DEF EndApproved, Goto, storeVars, queueVars
<1>9. CASE Mark(p)
  <2>1. CASE Goto(p, "set") /\ op' = [op EXCEPT ![p] = "mark"]
    BY <1>9, <2>1 DEF Mark, Goto, storeVars, queueVars
  <2>2. CASE Goto(p, "note") /\ UNCHANGED op
    BY <1>9, <2>2 DEF Mark, Goto, storeVars, queueVars
  <2> QED
    BY <1>9, <2>1, <2>2 DEF Mark
<1>10. CASE Note(p)
  <2>1. NotedStatus(p) \in TurnStatuses
    BY <1>10 DEF Note, NotedStatus, TurnStatuses
  <2>2. TypeOK'
    BY <1>10, <2>1 DEF Note, Goto, Quiet, WriteFails, storeVars, queueVars
  <2> QED
    BY <1>10, <2>2 DEF Note, Goto, Quiet, queueVars
<1> QED
  BY <1>1, <1>2, <1>3, <1>4, <1>5, <1>6, <1>7, <1>8, <1>9, <1>10 DEF Call

LEMMA CrashType == ASSUME TypeInv, Crash PROVE TypeInv'
BY DEF Crash, TypeInv, TypeOK, CallInv, RunnerSteps, CallSteps, Active,
       storeVars, queueVars

\* A step is one of the turns', one of the calls', or a crash.
LEMMA TypeStep == TypeInv /\ [Next]_vars => TypeInv'
<1> SUFFICES ASSUME TypeInv, [Next]_vars PROVE TypeInv'
  OBVIOUS
<1>1. CASE UNCHANGED vars
  BY <1>1 DEF vars, storeVars, runVars, queueVars, callVars, TypeInv, TypeOK,
              CallInv
<1>2. CASE Next
  BY <1>2, RunType, CallType, CrashType DEF Next
<1> QED
  BY <1>1, <1>2

\* The types and what calls know hold throughout.
LEMMA TypeInvariance == Spec => []TypeInv
BY TypeInit, TypeStep, PTL DEF Spec

\* Every variable keeps its type (TypeOK), in any session, with any failures.
THEOREM TypeCorrect == Spec => []TypeOK
<1>1. TypeInv => TypeOK
  BY DEF TypeInv
<1> QED
  BY <1>1, TypeInvariance, PTL

----------------------------------------------------------------------------
(* One turn at a time *)

OwnInv == TurnInv /\ OneTurnAtATime

\* Steps other than the start and the end of a turn and a recorded decision
\* leave the file alone, and goroutines only move on.
LEMMA OtherSteps ==
  ASSUME TypeInv, [Next]_vars,
         ~ \E t \in Turns : StartTurn(t) \/ Finish(t),
         ~ \E p \in Reviewers : Note(p)
  PROVE  /\ UNCHANGED storeVars
         /\ \A u \in Turns : \/ runner'[u] = runner[u]
                             \/ Active(u) /\ runner'[u] \notin {"none", "begin"}
<1> DEFINE Kept == UNCHANGED <<storeVars, runner>>
           OnlyRunner == \A u \in Turns :
                           \/ runner'[u] = runner[u]
                           \/ Active(u) /\ runner'[u] \notin {"none", "begin"}
<1> USE DEF TypeInv, TypeOK
<1>1. ASSUME NEW t \in Turns, Run(t), ~Finish(t)
      PROVE  UNCHANGED storeVars /\ OnlyRunner
  <2>1. CASE Begin(t)
    BY <2>1 DEF Begin, Active
  <2>2. CASE AnswerDegraded(t)
    BY <2>2 DEF AnswerDegraded, Answer, Active
  <2>3. CASE PassGate(t)
    BY <2>3 DEF PassGate, Answer, Active
  <2>4. CASE EnqueueSet(t)
    BY <2>4 DEF EnqueueSet, Answer, Active
  <2>5. CASE EnqueueDisabled(t)
    BY <2>5 DEF EnqueueDisabled, Answer, Active
  <2>6. CASE EnqueueAdd(t)
    BY <2>6 DEF EnqueueAdd, Answer, Active
  <2>7. CASE EndRun(t)
    BY <2>7 DEF EndRun, Answer, Active
  <2> QED
    BY <1>1, <2>1, <2>2, <2>3, <2>4, <2>5, <2>6, <2>7 DEF Run
<1>2. ASSUME NEW t \in Turns, Expire(t) PROVE Kept
  BY <1>2 DEF Expire, runVars
<1>3. ASSUME NEW p \in Reviewers, Call(p), ~Note(p) PROVE Kept
  BY <1>3 DEF Call, SaveSet, SaveRemove, SaveAdd, BeginApproved,
              AnswerApproved, FailApproved, EndApproved, Mark, runVars
<1>4. ASSUME NEW p \in Reviewers, NEW r \in Turns,
             NEW kind \in {"approve", "reject"}, Decide(p, r, kind)
      PROVE  Kept
  BY <1>4 DEF Decide, runVars
<1>5. CASE Crash
  BY <1>5 DEF Crash, Active
<1>6. CASE UNCHANGED vars
  BY <1>6 DEF vars, runVars
<1> QED
  BY <1>1, <1>2, <1>3, <1>4, <1>5, <1>6 DEF Next

LEMMA OwnStep == TypeInv /\ OwnInv /\ [Next]_vars => OwnInv'
<1> SUFFICES ASSUME TypeInv, OwnInv, [Next]_vars PROVE OwnInv'
  OBVIOUS
<1> USE DEF TypeInv, TypeOK, OwnInv, TurnInv, OneTurnAtATime
<1>1. ASSUME NEW t \in Turns, StartTurn(t) PROVE OwnInv'
  <2>1. CASE WriteFails /\ UNCHANGED <<risky, runner>>
    BY <2>1 DEF WriteFails, Active
  <2>2. CASE ~(WriteFails /\ UNCHANGED <<risky, runner>>)
    <3>1. /\ file \in {"none", "good"} /\ UNCHANGED linked
          /\ turn' = [turn EXCEPT ![t] = "running"]
          /\ runner' = [runner EXCEPT ![t] = "begin"]
          /\ turn[t] = "none" /\ ~HasRunningTurn
      BY <1>1, <2>2 DEF StartTurn
    <3>2. \A u \in Turns : ~Active(u)
      BY <3>1 DEF HasRunningTurn
    <3> QED
      BY <3>1, <3>2 DEF Active
  <2> QED
    BY <2>1, <2>2
<1>2. ASSUME NEW t \in Turns, Finish(t) PROVE OwnInv'
  <2>1. /\ runner[t] = "finish" /\ result[t] # "none"
        /\ runner' = [runner EXCEPT ![t] = "done"]
    BY <1>2 DEF Finish, CallInv
  <2>2. \/ /\ file' = "good"
           /\ turn' = [turn EXCEPT ![t] = result[t]]
           /\ linked' = [linked EXCEPT ![t] = result[t] = "waiting_approval"]
        \/ file' \in {file, "torn"} /\ UNCHANGED <<turn, linked>>
    BY <1>2 DEF Finish, FinishTurn, WriteFails, storeVars
  <2> QED
    BY <2>1, <2>2 DEF Active
<1>3. ASSUME NEW p \in Reviewers, Note(p) PROVE OwnInv'
  <2>1. UNCHANGED <<linked, runner>>
    BY <1>3 DEF Note, WriteFails, storeVars, runVars
  <2>2. NotedStatus(p) # "none"
    BY <1>3 DEF Note, NotedStatus, CallInv, Settled
  <2>3. \/ \E t \in Turns :
             /\ linked[t] /\ UNCHANGED file
             /\ turn' = [turn EXCEPT ![t] = NotedStatus(p)]
        \/ file' \in {file, "torn"} /\ UNCHANGED turn
    BY <1>3 DEF Note, NotedTurns, WriteFails, storeVars
  <2> QED
    BY <2>1, <2>2, <2>3 DEF Active
<1>4. ASSUME ~ \E t \in Turns : StartTurn(t) \/ Finish(t),
             ~ \E p \in Reviewers : Note(p)
      PROVE  OwnInv'
  BY <1>4, OtherSteps DEF storeVars, Active
<1> QED
  BY <1>1, <1>2, <1>3, <1>4

\* At most one turn of a session is worked on, and only its own goroutine
\* ends it (OneTurnAtATime), whatever fails.
THEOREM OneTurn == Spec => []OneTurnAtATime
<1>1. Init => OwnInv
  BY DEF Init, OwnInv, TurnInv, OneTurnAtATime, Active
<1> QED
  BY <1>1, OwnStep, TypeInvariance, PTL DEF Spec, OwnInv

----------------------------------------------------------------------------
(* An approval buys one run *)

LEMMA GrantStep == TypeInv /\ OwnInv /\ GrantInv /\ [Next]_vars => GrantInv'
<1> SUFFICES ASSUME TypeInv, OwnInv, GrantInv, [Next]_vars PROVE GrantInv'
  OBVIOUS
<1> DEFINE Blocked == \A t \in Turns : risky[t] => runner[t] # "run"
<1> USE DEF TypeInv, TypeOK
<1>1. ASSUME NEW t \in Turns, StartTurn(t) \/ Run(t) \/ Expire(t)
      PROVE  GrantInv'
  <2>1. UNCHANGED <<pc, target, granted, ran>>
    BY <1>1 DEF StartTurn, Run, Begin, AnswerDegraded, PassGate, EnqueueSet,
                EnqueueDisabled, EnqueueAdd, EndRun, Finish, Expire, callVars
  <2>2. CASE StartTurn(t)
    BY <2>1, <2>2 DEF GrantInv, StartTurn
  <2>3. CASE PassGate(t)
    BY <2>1, <2>3 DEF GrantInv, PassGate, Answer, NeedsApproval
  <2>4. CASE Run(t) /\ ~PassGate(t)
    <3>1. UNCHANGED risky /\ runner' \in {[runner EXCEPT ![t] = step] :
                                            step \in RunnerSteps \ {"run"}}
      BY <2>4 DEF Run, Begin, AnswerDegraded, EnqueueSet, EnqueueDisabled,
                  EnqueueAdd, EndRun, Finish, Answer, RunnerSteps
    <3> QED
      BY <2>1, <3>1 DEF GrantInv
  <2>5. CASE Expire(t)
    BY <2>1, <2>5 DEF GrantInv, Expire, runVars
  <2> QED
    BY <1>1, <2>2, <2>3, <2>4, <2>5
<1>2. ASSUME NEW p \in Reviewers, NEW r \in Turns,
             NEW kind \in {"approve", "reject"}, Decide(p, r, kind)
      PROVE  GrantInv'
  BY <1>2 DEF GrantInv, Decide, Goto, runVars
<1>3. ASSUME NEW p \in Reviewers, Call(p) PROVE GrantInv'
  <2>1. Blocked'
    BY <1>3 DEF GrantInv, Call, SaveSet, SaveRemove, SaveAdd, BeginApproved,
                AnswerApproved, FailApproved, EndApproved, Mark, Note, runVars
  <2>2. CASE SaveAdd(p)
    <3>1. PICK ok \in BOOLEAN :
             /\ Goto(p, IF ok THEN AfterSave(op[p]) ELSE AfterError(op[p]))
             /\ granted' = IF ok /\ op[p] = "approve"
                           THEN [granted EXCEPT ![p][target[p]] = @ + 1]
                           ELSE granted
      BY <2>2 DEF SaveAdd
    <3>2. /\ pc[p] = "add" /\ target[p] \in Turns
          /\ UNCHANGED <<target, ran>>
      BY <2>2 DEF SaveAdd, CallInv
    <3>3. CASE ok /\ op[p] = "approve"
      BY <2>1, <3>1, <3>2, <3>3 DEF GrantInv, Goto
    <3>4. CASE ~(ok /\ op[p] = "approve")
      <4>1. pc' \in {[pc EXCEPT ![p] = step] : step \in CallSteps \ {"run"}}
        BY <3>1, <3>4 DEF Goto, AfterSave, AfterError, CallSteps
      <4> QED
        BY <2>1, <3>1, <3>2, <3>4, <4>1 DEF GrantInv
    <3> QED
      BY <3>3, <3>4
  <2>3. CASE BeginApproved(p)
    <3>1. target[p] \in Turns
      BY <2>3 DEF BeginApproved, CallInv
    <3> QED
      BY <2>1, <2>3, <3>1 DEF GrantInv, BeginApproved, Goto
  <2>4. CASE ~SaveAdd(p) /\ ~BeginApproved(p)
    <3>1. /\ UNCHANGED <<granted, ran, target>>
          /\ pc' \in {[pc EXCEPT ![p] = step] : step \in CallSteps \ {"run"}}
      BY <1>3, <2>4
      DEF Call, SaveSet, SaveRemove, AnswerApproved, FailApproved, EndApproved,
          Mark, Note, Goto, Quiet, AfterError, AfterRemove, CallSteps
    <3> QED
      BY <2>1, <3>1 DEF GrantInv
  <2> QED
    BY <2>2, <2>3, <2>4
<1>4. CASE Crash
  <2>1. /\ pc' = [p \in Reviewers |-> "idle"]
        /\ UNCHANGED <<risky, target, granted, ran>>
        /\ runner' = [t \in Turns |-> IF Active(t) THEN "dead" ELSE runner[t]]
    BY <1>4 DEF Crash
  <2>2. Blocked'
    BY <2>1 DEF GrantInv
  <2>3. \A p \in Reviewers, t \in Turns : ran[p][t] <= granted[p][t]
    BY DEF GrantInv
  <2>4. \A p \in Reviewers, t \in Turns :
           ran[p][t] + (IF pc'[p] = "run" /\ target[p] = t THEN 1 ELSE 0)
             <= granted[p][t]
    BY <2>1, <2>3
  <2> QED
    BY <2>1, <2>2, <2>4 DEF GrantInv
<1>5. CASE UNCHANGED vars
  BY <1>5 DEF GrantInv, vars, runVars, callVars
<1> QED
  BY <1>1, <1>2, <1>3, <1>4, <1>5 DEF Next

\* No high-risk query runs but for a call's own completed approval, and each
\* approval runs it at most once (ApprovalBuysOneRun), whatever fails.
THEOREM OneRunPerApproval == Spec => []ApprovalBuysOneRun
<1>1. Init => OwnInv /\ GrantInv
  BY DEF Init, OwnInv, TurnInv, OneTurnAtATime, Active, GrantInv
<1>2. TypeInv /\ GrantInv => ApprovalBuysOneRun
  BY DEF TypeInv, TypeOK, GrantInv, ApprovalBuysOneRun
<1> QED
  BY <1>1, <1>2, OwnStep, GrantStep, TypeInvariance, PTL DEF Spec

----------------------------------------------------------------------------
(* Whoever waits is listed *)

\* A request is given a status by its turn's SETEX or by a call that decides
\* or marks it; its id enters an index by its turn's SADD or by such a call.
LEMMA ListStep == TypeInv /\ OwnInv /\ ListInv /\ [Next]_vars => ListInv'
<1> SUFFICES ASSUME TypeInv, OwnInv, ListInv, [Next]_vars PROVE ListInv'
  OBVIOUS
<1> DEFINE Telling(t) == linked[t] \/ ( /\ runner[t] = "finish"
                                        /\ result[t] = "waiting_approval" )
           Listed == \A s \in ListNames, t \in Turns :
                       t \in index[s] => runner[t] \notin Early
           Decided == \A p \in Reviewers :
                        pc[p] # "idle" => runner[target[p]] \notin Early
           Written == \A p \in Reviewers :
                        pc[p] = "rem" /\ op[p] # "mark"
                          => request[target[p]] # "pending"
           Told == \A t \in Turns : Telling(t) /\ request[t] = "pending"
                                      => t \in index["pending"]
<1> USE DEF TypeInv, TypeOK
<1>0. Listed /\ Decided /\ Written /\ Told
  BY DEF ListInv
<1>1. ASSUME NEW t \in Turns, StartTurn(t) \/ Run(t) PROVE ListInv'
  <2>1. UNCHANGED <<pc, op, target>>
    BY <1>1 DEF StartTurn, Run, Begin, AnswerDegraded, PassGate, EnqueueSet,
                EnqueueDisabled, EnqueueAdd, EndRun, Finish, callVars
  <2>2. CASE StartTurn(t)
    <3>1. runner[t] = "none"
      BY <2>2 DEF StartTurn, OwnInv, TurnInv
    <3>2. /\ UNCHANGED <<linked, result, request, index>>
          /\ runner' = runner \/ runner' = [runner EXCEPT ![t] = "begin"]
      BY <2>2 DEF StartTurn, WriteFails, queueVars
    <3> QED
      BY <1>0, <2>1, <3>1, <3>2 DEF ListInv, Early, CallInv
  <2>3. CASE EnqueueSet(t)
    <3>1. /\ runner[t] = "gate" /\ UNCHANGED <<linked, index>>
          /\ request' = request \/ request' = [request EXCEPT ![t] = "pending"]
      BY <2>3 DEF EnqueueSet, storeVars
    <3>2. \/ runner' = [runner EXCEPT ![t] = "add"] /\ UNCHANGED result
          \/ /\ runner' = [runner EXCEPT ![t] = "finish"]
             /\ result' = [result EXCEPT ![t] = "completed"]
      BY <2>3 DEF EnqueueSet, Answer
    <3>3. ~linked[t]
      BY <3>1 DEF OwnInv, TurnInv
    <3>4. \A p \in Reviewers : pc[p] # "idle" => target[p] # t
      BY <1>0, <3>1 DEF Early
    <3>5. Listed' /\ Decided'
      BY <1>0, <2>1, <3>1, <3>2 DEF Early, CallInv
    <3>6. Written'
      BY <1>0, <2>1, <3>1, <3>4 DEF CallInv
    <3>7. Told'
      BY <1>0, <3>1, <3>2, <3>3
    <3> QED
      BY <3>5, <3>6, <3>7 DEF ListInv
  <2>4. CASE EnqueueAdd(t)
    <3>1. PICK ok, done \in BOOLEAN :
             /\ ok => done
             /\ index' = IF done THEN [index EXCEPT !["pending"] = @ \cup {t}]
                                 ELSE index
             /\ runner' = [runner EXCEPT ![t] = "finish"]
             /\ result' = [result EXCEPT ![t] = QueuedAnswer(ok)]
      BY <2>4 DEF EnqueueAdd, Command, Answer
    <3>2. runner[t] = "add" /\ UNCHANGED <<linked, request>>
      BY <2>4 DEF EnqueueAdd, storeVars
    <3>3. \A s \in ListNames, u \in Turns :
             /\ u \in index'[s] => u \in index[s] \/ u = t
             /\ u \in index[s] => u \in index'[s]
      BY <3>1 DEF ListNames
    <3>4. Listed' /\ Decided'
      BY <1>0, <2>1, <3>1, <3>2, <3>3 DEF Early, CallInv
    <3>5. Written'
      BY <1>0, <2>1, <3>2 DEF CallInv
    <3>6. ok => t \in index'["pending"]
      BY <3>1 DEF ListNames
    <3>7. ~linked[t]
      BY <3>2 DEF OwnInv, TurnInv
    <3>8. ASSUME NEW u \in Turns, Telling(u)', request'[u] = "pending"
          PROVE  u \in index'["pending"]
      <4>1. CASE u = t
        BY <3>1, <3>2, <3>6, <3>7, <3>8, <4>1 DEF QueuedAnswer
      <4>2. CASE u # t
        BY <1>0, <3>1, <3>2, <3>3, <3>8, <4>2 DEF ListNames
      <4> QED
        BY <4>1, <4>2
    <3> QED
      BY <3>4, <3>5, <3>8 DEF ListInv
  <2>5. CASE Finish(t)
    <3>1. /\ runner[t] = "finish" /\ UNCHANGED <<result, request, index>>
          /\ runner' = [runner EXCEPT ![t] = "done"]
      BY <2>5 DEF Finish, queueVars
    <3>2. \/ UNCHANGED linked
          \/ linked' = [linked EXCEPT ![t] = result[t] = "waiting_approval"]
      BY <2>5 DEF Finish, WriteFails, storeVars
    <3> QED
      BY <1>0, <2>1, <3>1, <3>2 DEF ListInv, Early, CallInv
  <2>6. CASE Run(t) /\ ~EnqueueSet(t) /\ ~EnqueueAdd(t) /\ ~Finish(t)
    <3>1. UNCHANGED <<linked, request, index>>
      BY <2>6 DEF Run, Begin, AnswerDegraded, PassGate, EnqueueDisabled,
                  EndRun, storeVars, queueVars
    <3>2. /\ runner[t] \in Early \cup {"run"}
          /\ \/ /\ \E step \in RunnerSteps \ {"finish", "none", "begin"} :
                     runner' = [runner EXCEPT ![t] = step]
                /\ runner[t] \in Early /\ UNCHANGED result
             \/ \E status \in Settled :
                  /\ runner' = [runner EXCEPT ![t] = "finish"]
                  /\ result' = [result EXCEPT ![t] = status]
      BY <2>6 DEF Run, Begin, AnswerDegraded, PassGate, EnqueueDisabled,
                  EndRun, Answer, Early, RunnerSteps, Settled
    <3>3. Listed' /\ Decided' /\ Written'
      BY <1>0, <2>1, <3>1, <3>2 DEF Early, Settled, RunnerSteps, CallInv
    <3>4. Told'
      BY <1>0, <3>1, <3>2 DEF Settled, RunnerSteps
    <3> QED
      BY <3>3, <3>4 DEF ListInv
  <2> QED
    BY <1>1, <2>2, <2>3, <2>4, <2>5, <2>6 DEF Run
<1>2. ASSUME NEW t \in Turns, Expire(t) PROVE ListInv'
  BY <1>0, <1>2 DEF Expire, ListInv, storeVars, runVars, callVars, CallInv
<1>3. ASSUME NEW p \in Reviewers, NEW r \in Turns,
             NEW kind \in {"approve", "reject"}, Decide(p, r, kind)
      PROVE  ListInv'
  <2>1. runner[r] \notin Early
    BY <1>0, <1>3, PicksAssumption DEF Decide
  <2>2. /\ pc' = [pc EXCEPT ![p] = "set"]
        /\ target' = [target EXCEPT ![p] = r]
        /\ op' = [op EXCEPT ![p] = kind]
        /\ UNCHANGED <<linked, runner, result, request, index>>
    BY <1>3 DEF Decide, Goto, storeVars, runVars, queueVars
  <2> QED
    BY <1>0, <2>1, <2>2 DEF ListInv
<1>4. ASSUME NEW p \in Reviewers, Call(p) PROVE ListInv'
  <2>0. UNCHANGED <<runner, result, linked>>
    BY <1>4 DEF Call, SaveSet, SaveRemove, SaveAdd, BeginApproved,
                AnswerApproved, FailApproved, EndApproved, Mark, Note,
                NotedTurns, WriteFails, runVars, storeVars
  <2>1. CASE SaveSet(p)
    <3>1. pc[p] = "set" /\ UNCHANGED <<op, target, index>>
      BY <2>1 DEF SaveSet, Quiet
    <3>2. op[p] \in {"approve", "reject", "mark"} /\ target[p] \in Turns
      BY <3>1 DEF CallInv
    <3>3. PICK ok, done \in BOOLEAN :
             /\ ok => done
             /\ request' = IF done
                           THEN [request EXCEPT ![target[p]] = NewStatus(op[p])]
                           ELSE request
             /\ Goto(p, IF ok THEN "rem" ELSE AfterError(op[p]))
      BY <2>1 DEF SaveSet, Command
    <3>4. NewStatus(op[p]) \in ListNames \ {"pending"}
      BY <3>2 DEF NewStatus, ListNames
    <3>5. \A t \in Turns : request'[t] = "pending" => request[t] = "pending"
      BY <3>2, <3>3, <3>4
    <3>6. Listed' /\ Told'
      BY <1>0, <2>0, <3>1, <3>5
    <3>7. Decided'
      BY <1>0, <2>0, <3>1, <3>3 DEF Goto
    <3>8. ok => request'[target[p]] # "pending"
      BY <3>2, <3>3, <3>4
    <3>9. AfterError(op[p]) # "rem"
      BY DEF AfterError
    <3>10. Written'
      BY <1>0, <3>1, <3>3, <3>5, <3>8, <3>9 DEF Goto, CallInv
    <3> QED
      BY <3>6, <3>7, <3>10 DEF ListInv
  <2>2. CASE SaveRemove(p)
    <3>1. /\ pc[p] = "rem" /\ UNCHANGED <<op, target, request>>
          /\ target[p] \in Turns
      BY <2>2 DEF SaveRemove, Quiet, CallInv
    <3>2. \/ index' = index
          \/ index' = [index EXCEPT ![Previous(op[p])] = @ \ {target[p]}]
      BY <2>2 DEF SaveRemove
    <3>3. \E step \in CallSteps \ {"rem"} : pc' = [pc EXCEPT ![p] = step]
      BY <2>2 DEF SaveRemove, Goto, AfterError, AfterRemove, CallSteps
    <3>4. \A s \in ListNames, t \in Turns : t \in index'[s] => t \in index[s]
      BY <3>2
    <3>5. Listed'
      BY <1>0, <2>0, <3>4
    <3>6. Decided' /\ Written'
      BY <1>0, <2>0, <3>1, <3>3
    <3>7. ASSUME NEW t \in Turns, Telling(t)', request'[t] = "pending"
          PROVE  t \in index'["pending"]
      <4>1. t \in index["pending"]
        BY <1>0, <2>0, <3>1, <3>7
      <4>2. Previous(op[p]) = "pending" => target[p] # t
        BY <1>0, <3>1, <3>7 DEF Previous
      <4> QED
        BY <3>2, <4>1, <4>2 DEF ListNames
    <3> QED
      BY <3>5, <3>6, <3>7 DEF ListInv
  <2>3. CASE SaveAdd(p)
    <3>1. /\ pc[p] = "add" /\ UNCHANGED <<op, target, request>>
          /\ target[p] \in Turns
      BY <2>3 DEF SaveAdd, CallInv
    <3>2. \/ index' = index
          \/ index' = [index EXCEPT ![NewStatus(op[p])] = @ \cup {target[p]}]
      BY <2>3 DEF SaveAdd
    <3>3. \A s \in ListNames, t \in Turns :
             /\ t \in index'[s] => t \in index[s] \/ t = target[p]
             /\ t \in index[s] => t \in index'[s]
      BY <3>2
    <3>4. \E step \in CallSteps \ {"rem"} : pc' = [pc EXCEPT ![p] = step]
      BY <2>3 DEF SaveAdd, Goto, AfterError, AfterSave, CallSteps
    <3>5. Listed'
      BY <1>0, <2>0, <3>1, <3>3
    <3>6. Decided' /\ Written'
      BY <1>0, <2>0, <3>1, <3>4
    <3>7. Told'
      BY <1>0, <2>0, <3>1, <3>3 DEF ListNames
    <3> QED
      BY <3>5, <3>6, <3>7 DEF ListInv
  <2>4. CASE ~SaveSet(p) /\ ~SaveRemove(p) /\ ~SaveAdd(p)
    <3>1. UNCHANGED <<request, index, target>>
      BY <1>4, <2>4 DEF Call, BeginApproved, AnswerApproved, FailApproved,
                        EndApproved, Mark, Note, Quiet, queueVars
    <3>2. /\ pc[p] # "idle"
          /\ \E step \in CallSteps \ {"rem"} : pc' = [pc EXCEPT ![p] = step]
          /\ \A q \in Reviewers \ {p} : op'[q] = op[q]
      BY <1>4, <2>4 DEF Call, BeginApproved, AnswerApproved, FailApproved,
                        EndApproved, Mark, Note, Quiet, Goto, CallSteps
    <3> QED
      BY <1>0, <2>0, <3>1, <3>2 DEF ListInv
  <2> QED
    BY <2>1, <2>2, <2>3, <2>4
<1>5. CASE Crash
  BY <1>0, <1>5 DEF Crash, ListInv, Early, Active, storeVars, queueVars
<1>6. CASE UNCHANGED vars
  BY <1>0, <1>6 DEF ListInv, vars, storeVars, runVars, queueVars, callVars
<1> QED
  BY <1>1, <1>2, <1>3, <1>4, <1>5, <1>6 DEF Next

\* A turn that waits for a pending request has it in the list reviewers see
\* (WaitingIsListed), whatever fails.
THEOREM WaitingVisible == Spec => []WaitingIsListed
<1>1. Init => OwnInv /\ ListInv
  BY DEF Init, OwnInv, TurnInv, OneTurnAtATime, Active, ListInv, ListNames
<1>2. ListInv => WaitingIsListed
  BY DEF ListInv, WaitingIsListed
<1> QED
  BY <1>1, <1>2, OwnStep, ListStep, TypeInvariance, PTL DEF Spec

----------------------------------------------------------------------------
(* Who is decided is no longer listed as pending *)

LEMMA UnlistStep ==
  ASSUME "redis" \notin Faults, "crash" \notin Faults
  PROVE  TypeInv /\ OwnInv /\ ListInv /\ UnlistInv /\ [Next]_vars => UnlistInv'
<1> SUFFICES ASSUME TypeInv, OwnInv, ListInv, UnlistInv, [Next]_vars
             PROVE  UnlistInv'
  OBVIOUS
<1> DEFINE Listed == \A s \in ListNames, t \in Turns :
                       t \in index[s] => runner[t] # "add"
           Decided == \A p \in Reviewers :
                        pc[p] # "idle" => runner[target[p]] # "add"
           Queued == \A t \in Turns : request[t] \notin {"none", "pending"} =>
                                        runner[t] \notin Early \cup {"add"}
           Removed == \A p \in Reviewers :
                        pc[p] # "idle" /\ ~Unlisting(p)
                          => target[p] \notin index["pending"]
           Removing(t) == \E p \in Reviewers : /\ target[p] = t
                                               /\ pc[p] = "rem"
                                               /\ op[p] # "mark"
           Left == \A t \in Turns :
                     /\ request[t] \notin {"none", "pending"}
                     /\ t \in index["pending"]
                     => Removing(t)
<1> USE DEF TypeInv, TypeOK
<1>0. Listed /\ Decided /\ Queued /\ Removed /\ Left
  BY DEF UnlistInv
<1>1. ASSUME NEW t \in Turns, StartTurn(t) \/ Run(t) PROVE UnlistInv'
  <2>1. UNCHANGED <<pc, op, target>>
    BY <1>1 DEF StartTurn, Run, Begin, AnswerDegraded, PassGate, EnqueueSet,
                EnqueueDisabled, EnqueueAdd, EndRun, Finish, callVars
  <2>2. CASE EnqueueSet(t)
    <3>1. /\ runner[t] = "gate" /\ UNCHANGED index
          /\ request' = [request EXCEPT ![t] = "pending"]
          /\ runner' = [runner EXCEPT ![t] = "add"]
      BY <2>2 DEF EnqueueSet, Command
    <3>2. \A p \in Reviewers : pc[p] # "idle" => target[p] # t
      BY <3>1 DEF ListInv, Early
    <3>3. \A s \in ListNames : t \notin index[s]
      BY <3>1 DEF ListInv, Early
    <3>4. Listed' /\ Decided' /\ Queued'
      BY <1>0, <2>1, <3>1, <3>2, <3>3 DEF CallInv
    <3>5. Removed' /\ Left'
      BY <1>0, <2>1, <3>1 DEF Unlisting
    <3> QED
      BY <3>4, <3>5 DEF UnlistInv
  <2>3. CASE EnqueueAdd(t)
    <3>1. /\ runner[t] = "add" /\ UNCHANGED request
          /\ index' = [index EXCEPT !["pending"] = @ \cup {t}]
          /\ runner' = [runner EXCEPT ![t] = "finish"]
      BY <2>3 DEF EnqueueAdd, Command, Answer
    <3>2. request[t] \in {"none", "pending"}
      BY <1>0, <3>1
    <3>3. \A p \in Reviewers : pc[p] # "idle" => target[p] # t
      BY <1>0, <3>1
    <3>4. \A s \in ListNames, u \in Turns :
             u \in index'[s] => u \in index[s] \/ u = t
      BY <3>1 DEF ListNames
    <3>5. Listed' /\ Decided' /\ Queued'
      BY <1>0, <2>1, <3>1, <3>4 DEF Early, CallInv
    <3>6. Removed'
      BY <1>0, <2>1, <3>3, <3>4 DEF Unlisting, CallInv, ListNames
    <3>7. Left'
      BY <1>0, <2>1, <3>1, <3>2, <3>4 DEF ListNames
    <3> QED
      BY <3>5, <3>6, <3>7 DEF UnlistInv
  <2>4. CASE StartTurn(t) \/ (Run(t) /\ ~EnqueueSet(t) /\ ~EnqueueAdd(t))
    <3>1. UNCHANGED <<request, index>>
      BY <2>4 DEF StartTurn, Run, Begin, AnswerDegraded, PassGate,
                  EnqueueDisabled, EndRun, Finish, queueVars
    <3>2. \A u \in Turns : /\ runner'[u] = "add" => runner[u] = "add"
                           /\ runner'[u] \in Early => runner[u] \in Early
      BY <2>4 DEF StartTurn, Run, Begin, AnswerDegraded, PassGate, Answer,
                  EnqueueDisabled, EndRun, Finish, Early, OwnInv, TurnInv
    <3>3. Listed' /\ Decided' /\ Queued'
      BY <1>0, <2>1, <3>1, <3>2 DEF CallInv
    <3>4. Removed' /\ Left'
      BY <1>0, <2>1, <3>1 DEF Unlisting
    <3> QED
      BY <3>3, <3>4 DEF UnlistInv
  <2> QED
    BY <1>1, <2>2, <2>3, <2>4
<1>2. ASSUME NEW t \in Turns, Expire(t) PROVE UnlistInv'
  BY <1>0, <1>2 DEF Expire, UnlistInv, Unlisting, runVars, callVars
<1>3. ASSUME NEW p \in Reviewers, NEW r \in Turns,
             NEW kind \in {"approve", "reject"}, Decide(p, r, kind)
      PROVE  UnlistInv'
  <2>1. runner[r] # "add"
    BY <1>0, <1>3, PicksAssumption DEF Decide
  <2>2. /\ pc[p] = "idle"
        /\ pc' = [pc EXCEPT ![p] = "set"]
        /\ target' = [target EXCEPT ![p] = r]
        /\ op' = [op EXCEPT ![p] = kind]
        /\ UNCHANGED <<runner, request, index>>
    BY <1>3 DEF Decide, Goto, runVars, queueVars
  <2>3. Listed' /\ Decided' /\ Queued'
    BY <1>0, <2>1, <2>2
  <2>4. Removed' /\ Left'
    BY <1>0, <2>2 DEF Unlisting
  <2> QED
    BY <2>3, <2>4 DEF UnlistInv
<1>4. ASSUME NEW p \in Reviewers, Call(p) PROVE UnlistInv'
  <2>0. UNCHANGED runner
    BY <1>4 DEF Call, SaveSet, SaveRemove, SaveAdd, BeginApproved,
                AnswerApproved, FailApproved, EndApproved, Mark, Note, runVars
  <2>1. CASE SaveSet(p)
    <3>1. /\ pc[p] = "set" /\ UNCHANGED <<op, target, index>>
          /\ request' = [request EXCEPT ![target[p]] = NewStatus(op[p])]
          /\ pc' = [pc EXCEPT ![p] = "rem"]
      BY <2>1 DEF SaveSet, Quiet, Command, Goto
    <3>2. target[p] \in Turns
      BY <3>1 DEF CallInv
    <3>3. runner[target[p]] \notin Early \cup {"add"}
      BY <1>0, <3>1 DEF ListInv
    <3>4. Listed' /\ Decided' /\ Queued'
      BY <1>0, <2>0, <3>1, <3>2, <3>3
    <3>5. Removed'
      BY <1>0, <3>1 DEF Unlisting
    <3>6. ASSUME NEW t \in Turns, request'[t] \notin {"none", "pending"},
                 t \in index["pending"]
          PROVE  Removing(t)'
      <4>1. CASE t = target[p]
        BY <1>0, <3>1, <3>6, <4>1 DEF Unlisting
      <4>2. CASE t # target[p]
        BY <1>0, <3>1, <3>2, <3>6, <4>2
      <4> QED
        BY <4>1, <4>2
    <3> QED
      BY <3>1, <3>4, <3>5, <3>6 DEF UnlistInv
  <2>2. CASE SaveRemove(p)
    <3>1. /\ pc[p] = "rem" /\ UNCHANGED <<op, target, request>>
          /\ index' = [index EXCEPT ![Previous(op[p])] = @ \ {target[p]}]
          /\ pc' = [pc EXCEPT ![p] = "add"]
      BY <2>2 DEF SaveRemove, Quiet, Command, Goto, AfterRemove
    <3>2. \A s \in ListNames, t \in Turns : t \in index'[s] => t \in index[s]
      BY <3>1
    <3>3. op[p] # "mark" => target[p] \notin index'["pending"]
      BY <3>1 DEF Previous, ListNames
    <3>4. Listed' /\ Decided' /\ Queued'
      BY <1>0, <2>0, <3>1, <3>2
    <3>5. Removed'
      BY <1>0, <3>1, <3>2, <3>3 DEF Unlisting, CallInv, ListNames
    <3>6. Left'
      BY <1>0, <3>1, <3>2, <3>3 DEF ListNames
    <3> QED
      BY <3>4, <3>5, <3>6 DEF UnlistInv
  <2>3. CASE SaveAdd(p)
    <3>1. /\ pc[p] = "add" /\ UNCHANGED <<op, target, request>>
          /\ index' = [index EXCEPT ![NewStatus(op[p])] = @ \cup {target[p]}]
          /\ target[p] \in Turns /\ op[p] \in {"approve", "reject", "mark"}
      BY <2>3 DEF SaveAdd, Command, CallInv
    <3>2. index'["pending"] = index["pending"]
      BY <3>1 DEF NewStatus, ListNames
    <3>3. \E step \in {"run", "note"} : pc' = [pc EXCEPT ![p] = step]
      BY <2>3 DEF SaveAdd, Goto, AfterSave, Command
    <3>4. \A s \in ListNames, t \in Turns :
             t \in index'[s] => t \in index[s] \/ t = target[p]
      BY <3>1
    <3>5. Listed'
      BY <1>0, <2>0, <3>1, <3>4
    <3>6. Decided' /\ Queued'
      BY <1>0, <2>0, <3>1, <3>3
    <3>7. Removed' /\ Left'
      BY <1>0, <3>1, <3>2, <3>3 DEF Unlisting
    <3> QED
      BY <3>5, <3>6, <3>7 DEF UnlistInv
  <2>4. CASE ~SaveSet(p) /\ ~SaveRemove(p) /\ ~SaveAdd(p)
    <3>1. UNCHANGED <<request, index, target>>
      BY <1>4, <2>4 DEF Call, BeginApproved, AnswerApproved, FailApproved,
                        EndApproved, Mark, Note, Quiet, queueVars
    <3>2. /\ pc[p] \notin {"idle", "set", "rem"}
          /\ \E step \in CallSteps \ {"rem"} : pc' = [pc EXCEPT ![p] = step]
          /\ \A q \in Reviewers \ {p} : op'[q] = op[q]
      BY <1>4, <2>4 DEF Call, BeginApproved, AnswerApproved, FailApproved,
                        EndApproved, Mark, Note, Quiet, Goto, CallSteps
    <3>3. Listed' /\ Decided' /\ Queued'
      BY <1>0, <2>0, <3>1, <3>2
    <3>4. Removed' /\ Left'
      BY <1>0, <3>1, <3>2 DEF Unlisting
    <3> QED
      BY <3>3, <3>4 DEF UnlistInv
  <2> QED
    BY <2>1, <2>2, <2>3, <2>4
<1>5. ~Crash
  BY DEF Crash
<1>6. CASE UNCHANGED vars
  BY <1>0, <1>6 DEF UnlistInv, Unlisting, vars, runVars, queueVars, callVars
<1> QED
  BY <1>1, <1>2, <1>3, <1>4, <1>5, <1>6 DEF Next

\* Without Redis errors and crashes a decided request leaves the pending list
\* (DecidedIsUnlisted), however many calls race for it and whichever expire.
THEOREM DecidedUnlisted ==
  ASSUME "redis" \notin Faults, "crash" \notin Faults
  PROVE  Spec => []DecidedIsUnlisted
<1>1. Init => OwnInv /\ ListInv /\ UnlistInv
  BY DEF Init, OwnInv, TurnInv, OneTurnAtATime, Active, ListInv, UnlistInv,
         ListNames
<1>2. UnlistInv => DecidedIsUnlisted
  BY DEF UnlistInv, DecidedIsUnlisted, Idle
<1>3. TypeInv /\ OwnInv /\ ListInv /\ UnlistInv /\ [Next]_vars => UnlistInv'
  BY UnlistStep
<1> QED
  BY <1>1, <1>2, <1>3, OwnStep, ListStep, TypeInvariance, PTL DEF Spec

----------------------------------------------------------------------------
(* The order of a request's statuses *)

LEMMA OrderStep ==
  ASSUME "redis" \notin Faults, "crash" \notin Faults, "expire" \notin Faults,
         Picks \subseteq {"pending"},
         \A p, q \in Reviewers : p = q
  PROVE  TypeInv /\ OwnInv /\ ListInv /\ UnlistInv /\ OrderInv /\ [Next]_vars
           => /\ OrderInv'
              /\ \A r \in Turns :
                   request'[r] # request[r] =>
                     <<request[r], request'[r]>> \in
                       {<<"none", "pending">>, <<"pending", "approved">>,
                        <<"approved", "executed">>, <<"pending", "rejected">>}
<1> DEFINE Steps == {<<"none", "pending">>, <<"pending", "approved">>,
                     <<"approved", "executed">>, <<"pending", "rejected">>}
           Ordered == \A r \in Turns :
                        request'[r] # request[r] =>
                          <<request[r], request'[r]>> \in Steps
           Fresh == \A t \in Turns : runner[t] \in Early => request[t] = "none"
           Found == \A p \in Reviewers :
                      pc[p] = "set" => request[target[p]] = Previous(op[p])
           Approved == \A p \in Reviewers :
                         /\ op[p] = "approve"
                         /\ pc[p] \in {"rem", "add", "run", "running", "mark"}
                         => request[target[p]] = "approved"
<1> SUFFICES ASSUME TypeInv, OwnInv, ListInv, UnlistInv, OrderInv, [Next]_vars
             PROVE  OrderInv' /\ Ordered
  OBVIOUS
<1> USE DEF TypeInv, TypeOK
<1>0. Fresh /\ Found /\ Approved
  BY DEF OrderInv
<1>1. ASSUME NEW t \in Turns, StartTurn(t) \/ Run(t)
      PROVE  OrderInv' /\ Ordered
  <2>1. UNCHANGED <<pc, op, target>>
    BY <1>1 DEF StartTurn, Run, Begin, AnswerDegraded, PassGate, EnqueueSet,
                EnqueueDisabled, EnqueueAdd, EndRun, Finish, callVars
  <2>2. CASE EnqueueSet(t)
    <3>1. /\ runner[t] = "gate"
          /\ request' = [request EXCEPT ![t] = "pending"]
          /\ runner' = [runner EXCEPT ![t] = "add"]
      BY <2>2 DEF EnqueueSet, Command
    <3>2. request[t] = "none"
      BY <1>0, <3>1 DEF Early
    <3>3. \A p \in Reviewers : pc[p] # "idle" => target[p] # t
      BY <3>1 DEF ListInv, Early
    <3>4. Fresh' /\ Ordered
      BY <1>0, <3>1, <3>2 DEF Early
    <3>5. Found' /\ Approved'
      BY <1>0, <2>1, <3>1, <3>3 DEF CallInv
    <3> QED
      BY <3>4, <3>5 DEF OrderInv
  <2>3. CASE ~EnqueueSet(t)
    <3>1. UNCHANGED request
      BY <1>1, <2>3 DEF StartTurn, Run, Begin, AnswerDegraded, PassGate,
                        EnqueueDisabled, EnqueueAdd, EndRun, Finish, queueVars
    <3>2. \A u \in Turns : runner'[u] \in Early => runner[u] \in Early
      BY <1>1, <2>3 DEF StartTurn, Run, Begin, AnswerDegraded, PassGate, Answer,
                        EnqueueDisabled, EnqueueAdd, EndRun, Finish, Early,
                        OwnInv, TurnInv
    <3>3. Fresh' /\ Found' /\ Approved'
      BY <1>0, <2>1, <3>1, <3>2
    <3> QED
      BY <3>1, <3>3 DEF OrderInv
  <2> QED
    BY <2>2, <2>3
<1>2. ASSUME NEW p \in Reviewers, NEW r \in Turns,
             NEW kind \in {"approve", "reject"}, Decide(p, r, kind)
      PROVE  OrderInv' /\ Ordered
  <2>1. /\ pc[p] = "idle" /\ request[r] # "none"
        /\ r \in index["pending"]
        /\ pc' = [pc EXCEPT ![p] = "set"]
        /\ target' = [target EXCEPT ![p] = r]
        /\ op' = [op EXCEPT ![p] = kind]
        /\ UNCHANGED <<runner, request>>
    BY <1>2 DEF Decide, Goto, runVars, queueVars
  <2>2. \A q \in Reviewers : pc[q] # "rem"
    BY <2>1
  <2>3. request[r] = "pending"
    BY <2>1, <2>2 DEF UnlistInv
  <2>4. \A q \in Reviewers : pc'[q] = "set" /\ target'[q] = r /\ op'[q] = kind
    BY <2>1
  <2>5. request'[r] = Previous(kind)
    BY <2>1, <2>3 DEF Previous
  <2>6. Fresh' /\ Found' /\ Approved'
    BY <1>0, <2>1, <2>4, <2>5
  <2> QED
    BY <2>1, <2>6 DEF OrderInv
<1>3. ASSUME NEW p \in Reviewers, Call(p) PROVE OrderInv' /\ Ordered
  <2>0. UNCHANGED runner
    BY <1>3 DEF Call, SaveSet, SaveRemove, SaveAdd, BeginApproved,
                AnswerApproved, FailApproved, EndApproved, Mark, Note, runVars
  <2>1. CASE SaveSet(p)
    <3>1. /\ pc[p] = "set" /\ UNCHANGED <<op, target>>
          /\ request' = [request EXCEPT ![target[p]] = NewStatus(op[p])]
          /\ pc' = [pc EXCEPT ![p] = "rem"]
      BY <2>1 DEF SaveSet, Quiet, Command, Goto
    <3>2. target[p] \in Turns /\ op[p] \in {"approve", "reject", "mark"}
      BY <3>1 DEF CallInv
    <3>3. request[target[p]] = Previous(op[p])
      BY <1>0, <3>1
    <3>4. <<Previous(op[p]), NewStatus(op[p])>> \in Steps
      BY <3>2 DEF Previous, NewStatus
    <3>5. Ordered
      BY <3>1, <3>2, <3>3, <3>4
    <3>6. runner[target[p]] \notin Early
      BY <3>1 DEF ListInv
    <3>7. Fresh'
      BY <1>0, <2>0, <3>1, <3>6
    <3>8. \A q \in Reviewers : /\ pc'[q] = "rem" /\ target'[q] = target[p]
                               /\ op'[q] = op[p]
      BY <3>1
    <3>9. op[p] = "approve" => request'[target[p]] = "approved"
      BY <3>1, <3>2 DEF NewStatus
    <3>10. Found' /\ Approved'
      BY <3>8, <3>9
    <3> QED
      BY <3>5, <3>7, <3>10 DEF OrderInv
  <2>2. CASE ~SaveSet(p)
    <3>1. UNCHANGED <<request, target>>
      BY <1>3, <2>2 DEF Call, SaveRemove, SaveAdd, BeginApproved,
                        AnswerApproved, FailApproved, EndApproved, Mark, Note,
                        Quiet, queueVars
    <3>2. CASE Mark(p)
      <4>1. pc[p] = "mark" /\ op[p] = "approve"
        BY <3>2 DEF Mark, CallInv
      <4>2. request[target[p]] = "approved"
        BY <1>0, <4>1
      <4>3. \/ /\ pc' = [pc EXCEPT ![p] = "set"]
               /\ op' = [op EXCEPT ![p] = "mark"]
            \/ pc' = [pc EXCEPT ![p] = "note"] /\ UNCHANGED op
        BY <3>2 DEF Mark, Goto
      <4>4. Found' /\ Approved'
        BY <3>1, <4>2, <4>3 DEF Previous
      <4> QED
        BY <1>0, <2>0, <3>1, <4>4 DEF OrderInv
    <3>3. CASE ~Mark(p)
      <4>1. UNCHANGED op
        BY <1>3, <2>2, <3>3 DEF Call, SaveRemove, SaveAdd, BeginApproved,
                          AnswerApproved, FailApproved, EndApproved, Note, Quiet
      <4>2. PICK step \in CallSteps \ {"set"} : pc' = [pc EXCEPT ![p] = step]
        BY <1>3, <2>2, <3>3 DEF Call, SaveRemove, SaveAdd, BeginApproved,
                          AnswerApproved, FailApproved, EndApproved, Note, Goto,
                          AfterRemove, AfterSave, AfterError, CallSteps
      <4>3. op[p] = "approve" /\ step \in {"rem", "add", "run", "running", "mark"}
              => pc[p] \in {"rem", "add", "run", "running", "mark"}
        BY <1>3, <2>2, <4>2 DEF Call, SaveRemove, SaveAdd, BeginApproved,
                          AnswerApproved, FailApproved, EndApproved, Mark,
                          Note, Goto
      <4>4. Found' /\ Approved'
        BY <1>0, <3>1, <4>1, <4>2, <4>3
      <4> QED
        BY <1>0, <2>0, <3>1, <4>4 DEF OrderInv
    <3> QED
      BY <3>2, <3>3
  <2> QED
    BY <2>1, <2>2
<1>4. ~Crash /\ \A t \in Turns : ~Expire(t)
  BY DEF Crash, Expire
<1>5. CASE UNCHANGED vars
  BY <1>0, <1>5 DEF OrderInv, vars, runVars, queueVars, callVars
<1> QED
  <2>1. CASE Next
    <3>1. CASE \E t \in Turns : StartTurn(t) \/ Run(t)
      BY <1>1, <3>1
    <3>2. CASE \E p \in Reviewers : Call(p)
      BY <1>3, <3>2
    <3>3. CASE \E p \in Reviewers, r \in Turns, kind \in {"approve", "reject"} :
                 Decide(p, r, kind)
      BY <1>2, <3>3
    <3> QED
      BY <1>4, <2>1, <3>1, <3>2, <3>3 DEF Next
  <2> QED
    BY <1>5, <2>1

\* With one call at a time, picking from the pending list, and neither Redis
\* errors, expiry nor crashes, a record's status only moves on (StatusOrder):
\* a request approved is not rejected later, nor one rejected run.
THEOREM StatusMovesOn ==
  ASSUME "redis" \notin Faults, "crash" \notin Faults, "expire" \notin Faults,
         Picks \subseteq {"pending"},
         \A p, q \in Reviewers : p = q
  PROVE  Spec => StatusOrder
<1> DEFINE Inv == TypeInv /\ OwnInv /\ ListInv /\ UnlistInv /\ OrderInv
<1>1. Init => Inv
  BY TypeInit DEF Init, OwnInv, TurnInv, OneTurnAtATime, Active, ListInv,
                  UnlistInv, OrderInv, ListNames
<1>2. Inv /\ [Next]_vars => Inv'
  BY TypeStep, OwnStep, ListStep, UnlistStep, OrderStep
<1>3. Inv /\ [Next]_vars =>
        [\A r \in Turns :
           request'[r] # request[r] =>
             <<request[r], request'[r]>> \in
               {<<"none", "pending">>, <<"pending", "approved">>,
                <<"approved", "executed">>, <<"pending", "rejected">>}]_vars
  BY OrderStep
<1> QED
  BY <1>1, <1>2, <1>3, PTL DEF Spec, StatusOrder

----------------------------------------------------------------------------
(* What is decided reaches the turn *)

LEMMA ReachStep ==
  ASSUME "redis" \notin Faults, "crash" \notin Faults, "disk" \notin Faults,
         ~Hasty
  PROVE  TypeInv /\ OwnInv /\ ReachInv /\ [Next]_vars => ReachInv'
<1> DEFINE Over(t) == request[t] \in {"executed", "rejected"}
           Readable == file # "torn" /\ \A t \in Turns : linked[t] => file = "good"
           Known == \A p \in Reviewers : pc[p] # "idle" => linked[target[p]]
           Linked == \A t \in Turns : Over(t) => linked[t]
           Noting(t) == \E p \in Reviewers : target[p] = t /\ WillNote(p)
           Told == \A t \in Turns :
                     Over(t) /\ turn[t] = "waiting_approval" => Noting(t)
<1> SUFFICES ASSUME TypeInv, OwnInv, ReachInv, [Next]_vars PROVE ReachInv'
  OBVIOUS
<1> USE DEF TypeInv, TypeOK
<1>0. Readable /\ Known /\ Linked /\ Told
  BY DEF ReachInv
<1>1. ASSUME NEW t \in Turns, StartTurn(t) \/ Run(t) PROVE ReachInv'
  <2>1. UNCHANGED callVars
    BY <1>1 DEF StartTurn, Run, Begin, AnswerDegraded, PassGate, EnqueueSet,
                EnqueueDisabled, EnqueueAdd, EndRun, Finish
  <2>2. CASE EnqueueSet(t)
    <3>1. /\ UNCHANGED storeVars /\ runner[t] = "gate"
          /\ request' = [request EXCEPT ![t] = "pending"]
      BY <2>2 DEF EnqueueSet, Command
    <3>2. \A u \in Turns : Over(u)' => Over(u)
      BY <3>1
    <3>3. Readable' /\ Known' /\ Linked'
      BY <1>0, <2>1, <3>1, <3>2 DEF storeVars, callVars
    <3>4. Told'
      BY <1>0, <2>1, <3>1, <3>2 DEF storeVars, callVars, WillNote
    <3> QED
      BY <3>3, <3>4 DEF ReachInv
  <2>3. CASE StartTurn(t)
    <3>1. /\ file' = "good" /\ turn' = [turn EXCEPT ![t] = "running"]
          /\ UNCHANGED <<linked, request>>
      BY <2>3 DEF StartTurn, WriteFails, queueVars
    <3>2. Readable' /\ Known' /\ Linked'
      BY <1>0, <2>1, <3>1 DEF callVars
    <3>3. Told'
      BY <1>0, <2>1, <3>1 DEF callVars, WillNote
    <3> QED
      BY <3>2, <3>3 DEF ReachInv
  <2>4. CASE Finish(t)
    <3>1. /\ file' = "good" /\ UNCHANGED request /\ runner[t] = "finish"
          /\ turn' = [turn EXCEPT ![t] = result[t]]
          /\ linked' = [linked EXCEPT ![t] = result[t] = "waiting_approval"]
      BY <1>0, <2>4 DEF Finish, FinishTurn, WriteFails, queueVars
    <3>2. ~linked[t]
      BY <3>1 DEF OwnInv, TurnInv
    <3>3. ~Over(t) /\ \A p \in Reviewers : pc[p] # "idle" => target[p] # t
      BY <1>0, <3>2
    <3>4. Readable' /\ Known' /\ Linked'
      BY <1>0, <2>1, <3>1, <3>3 DEF callVars, CallInv
    <3>5. Told'
      BY <1>0, <2>1, <3>1, <3>3 DEF callVars, WillNote
    <3> QED
      BY <3>4, <3>5 DEF ReachInv
  <2>5. CASE Run(t) /\ ~EnqueueSet(t) /\ ~Finish(t)
    <3>1. UNCHANGED <<storeVars, request>>
      BY <2>5 DEF Run, Begin, AnswerDegraded, PassGate, EnqueueDisabled,
                  EnqueueAdd, EndRun, queueVars
    <3> QED
      BY <1>0, <2>1, <3>1 DEF ReachInv, WillNote, storeVars, callVars
  <2> QED
    BY <1>1, <2>2, <2>3, <2>4, <2>5
<1>2. ASSUME NEW t \in Turns, Expire(t) PROVE ReachInv'
  <2>1. UNCHANGED <<storeVars, callVars>> /\ request' = [request EXCEPT ![t] = "none"]
    BY <1>2 DEF Expire
  <2>2. \A u \in Turns : Over(u)' => Over(u)
    BY <2>1
  <2> QED
    BY <1>0, <2>1, <2>2 DEF ReachInv, WillNote, storeVars, callVars
<1>3. ASSUME NEW p \in Reviewers, NEW r \in Turns,
             NEW kind \in {"approve", "reject"}, Decide(p, r, kind)
      PROVE  ReachInv'
  <2>1. /\ pc[p] = "idle" /\ linked[r]
        /\ pc' = [pc EXCEPT ![p] = "set"]
        /\ target' = [target EXCEPT ![p] = r]
        /\ op' = [op EXCEPT ![p] = kind]
        /\ UNCHANGED <<storeVars, request>>
    BY <1>3 DEF Decide, Goto, queueVars
  <2>2. Readable' /\ Known' /\ Linked'
    BY <1>0, <2>1 DEF storeVars
  <2>3. \A q \in Reviewers : WillNote(q) => WillNote(q)' /\ target'[q] = target[q]
    BY <2>1 DEF WillNote
  <2>4. Told'
    BY <1>0, <2>1, <2>3 DEF storeVars
  <2> QED
    BY <2>2, <2>4 DEF ReachInv
<1>4. ASSUME NEW p \in Reviewers, Call(p) PROVE ReachInv'
  <2>1. CASE SaveSet(p)
    <3>1. /\ pc[p] = "set" /\ UNCHANGED <<op, target, storeVars>>
          /\ request' = [request EXCEPT ![target[p]] = NewStatus(op[p])]
          /\ pc' = [pc EXCEPT ![p] = "rem"]
      BY <2>1 DEF SaveSet, Quiet, Command, Goto
    <3>2. target[p] \in Turns /\ op[p] \in {"approve", "reject", "mark"}
      BY <3>1 DEF CallInv
    <3>3. linked[target[p]]
      BY <1>0, <3>1
    <3>4. Readable' /\ Known' /\ Linked'
      BY <1>0, <3>1, <3>2, <3>3 DEF storeVars
    <3>5. ASSUME NEW t \in Turns, Over(t)', turn'[t] = "waiting_approval"
          PROVE  Noting(t)'
      <4>1. CASE t = target[p]
        <5>1. op[p] # "approve"
          BY <3>1, <3>2, <3>5, <4>1 DEF NewStatus
        <5> QED
          BY <3>1, <3>2, <4>1, <5>1 DEF WillNote
      <4>2. CASE t # target[p]
        BY <1>0, <3>1, <3>2, <3>5, <4>2 DEF WillNote, storeVars
      <4> QED
        BY <4>1, <4>2
    <3> QED
      BY <3>4, <3>5 DEF ReachInv
  <2>2. CASE Note(p)
    <3>1. /\ pc[p] = "note" /\ target[p] \in Turns /\ linked[target[p]]
          /\ pc' = [pc EXCEPT ![p] = "idle"]
          /\ UNCHANGED <<op, target, request>>
      BY <1>0, <2>2 DEF Note, Goto, Quiet, queueVars, CallInv
    <3>2. file = "good" /\ NotedTurns(target[p]) = {target[p]}
      BY <1>0, <3>1 DEF NotedTurns
    <3>3. /\ turn' = [turn EXCEPT ![target[p]] = NotedStatus(p)]
          /\ UNCHANGED <<file, linked>>
      BY <2>2, <3>2 DEF Note, WriteFails
    <3>4. NotedStatus(p) # "waiting_approval"
      BY <3>1 DEF NotedStatus, CallInv, Settled
    <3>5. Readable' /\ Known' /\ Linked'
      BY <1>0, <3>1, <3>3
    <3>6. ASSUME NEW t \in Turns, Over(t)', turn'[t] = "waiting_approval"
          PROVE  Noting(t)'
      <4>1. t # target[p]
        BY <3>1, <3>3, <3>4, <3>6
      <4> QED
        BY <1>0, <3>1, <3>3, <3>6, <4>1 DEF WillNote
    <3> QED
      BY <3>5, <3>6 DEF ReachInv
  <2>3. CASE ~SaveSet(p) /\ ~Note(p)
    <3>1. UNCHANGED <<storeVars, request, target>>
      BY <1>4, <2>3 DEF Call, SaveRemove, SaveAdd, BeginApproved,
                        AnswerApproved, FailApproved, EndApproved, Mark,
                        Quiet, queueVars
    <3>2. pc[p] # "idle" /\ \E step \in CallSteps : pc' = [pc EXCEPT ![p] = step]
      BY <1>4, <2>3 DEF Call, SaveRemove, SaveAdd, BeginApproved,
                        AnswerApproved, FailApproved, EndApproved, Mark, Goto,
                        AfterRemove, AfterSave, AfterError, CallSteps
    <3>3. \A q \in Reviewers : WillNote(q) => WillNote(q)'
      <4>1. CASE SaveRemove(p)
        BY <4>1 DEF SaveRemove, Command, Quiet, Goto, AfterRemove, WillNote
      <4>2. CASE SaveAdd(p)
        BY <4>2 DEF SaveAdd, Command, Goto, AfterSave, WillNote
      <4>3. CASE ~SaveRemove(p) /\ ~SaveAdd(p)
        <5>1. pc[p] \in {"run", "running", "mark"}
          BY <1>4, <2>3, <4>3 DEF Call, BeginApproved, AnswerApproved,
                                  FailApproved, EndApproved, Mark
        <5>2. \A q \in Reviewers \ {p} : pc'[q] = pc[q] /\ op'[q] = op[q]
          BY <1>4, <2>3, <4>3 DEF Call, BeginApproved, AnswerApproved,
                                  FailApproved, EndApproved, Mark, Quiet, Goto
        <5> QED
          BY <5>1, <5>2 DEF WillNote
      <4> QED
        BY <4>1, <4>2, <4>3
    <3>4. Readable' /\ Known' /\ Linked'
      BY <1>0, <3>1, <3>2 DEF storeVars
    <3>5. Told'
      BY <1>0, <3>1, <3>3 DEF storeVars
    <3> QED
      BY <3>4, <3>5 DEF ReachInv
  <2> QED
    BY <2>1, <2>2, <2>3
<1>5. ~Crash
  BY DEF Crash
<1>6. CASE UNCHANGED vars
  BY <1>0, <1>6 DEF ReachInv, WillNote, vars, storeVars, queueVars, callVars
<1> QED
  BY <1>1, <1>2, <1>3, <1>4, <1>5, <1>6 DEF Next

\* Without errors of Redis and the disk and without crashes, and with reviewers
\* who wait until the turn has stored its request, no turn goes on waiting for
\* a request that is over (DecisionReachesTurn): whatever list they pick from,
\* however many decide at once, and whichever requests expire.
THEOREM DecisionsReachTurns ==
  ASSUME "redis" \notin Faults, "crash" \notin Faults, "disk" \notin Faults,
         ~Hasty
  PROVE  Spec => []DecisionReachesTurn
<1>1. Init => OwnInv /\ ReachInv
  BY DEF Init, OwnInv, TurnInv, OneTurnAtATime, Active, ReachInv
<1>2. ReachInv => DecisionReachesTurn
  BY DEF ReachInv, DecisionReachesTurn, Idle, WillNote
<1>3. TypeInv /\ OwnInv /\ ReachInv /\ [Next]_vars => ReachInv'
  BY ReachStep
<1> QED
  BY <1>1, <1>2, <1>3, OwnStep, TypeInvariance, PTL DEF Spec

=============================================================================
