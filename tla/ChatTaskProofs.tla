--------------------------- MODULE ChatTaskProofs ---------------------------
(***************************************************************************)
(* Proofs about the chat task pipeline, for any number of tasks and        *)
(* instances, any retry limit and any number of failures.                  *)
(***************************************************************************)
EXTENDS ChatTask, TLAPS

USE RetriesAssumption, MalformedAssumption, NoTaskAssumption,
    NoOwnerAssumption, FaultsAssumption, MaxFaultsAssumption

----------------------------------------------------------------------------
(* Facts about the messages and the queues *)

\* Building a message of a task gives a message (the literals of
\* SubmitPublish and of the malformed body).
LEMMA MessageLemma ==
  ASSUME NEW t \in Tasks \cup {NoTask}, NEW a \in 0..MaxRetries
  PROVE  [task |-> t, attempt |-> a] \in Messages
BY DEF Messages

\* Adding a copy of a message keeps the queues' type.
LEMMA EnqueueType ==
  ASSUME queue \in [QueueNames -> [Messages -> Nat]],
         NEW q \in QueueNames, NEW m \in Messages
  PROVE  Enqueue(q, m) \in [QueueNames -> [Messages -> Nat]]
BY DEF Enqueue

\* Client.Publish keeps the type of the queues and of the failure count.
LEMMA PublishType ==
  ASSUME queue \in [QueueNames -> [Messages -> Nat]], faults \in Nat,
         NEW q \in QueueNames, NEW m \in Messages, NEW ok \in BOOLEAN,
         Publish(q, m, ok)
  PROVE  queue' \in [QueueNames -> [Messages -> Nat]] /\ faults' \in Nat
BY EnqueueType DEF Publish, Fault, NoFault

\* saveChatTaskRecord keeps the type of the records.
LEMMA SaveType ==
  ASSUME record \in [Tasks -> Statuses], faults \in Nat,
         NEW t \in Tasks, NEW status \in Statuses, NEW ok \in BOOLEAN,
         SaveRecord(t, status, ok)
  PROVE  record' \in [Tasks -> Statuses] /\ faults' \in Nat
BY DEF SaveRecord, Fault, NoFault

\* event.Attempt++ under its guard stays within the retry limit.
LEMMA NextAttemptType ==
  ASSUME TypeOK, NEW i \in Instances, RetriesLeft(i)
  PROVE  /\ NextAttempt(i) \in Messages
         /\ NextAttempt(i).task = event[i].task
BY DEF TypeOK, RetriesLeft, NextAttempt, Messages

\* Taking a delivery back keeps the queues' type.
LEMMA RequeuedType ==
  ASSUME TypeOK, NEW i \in Instances
  PROVE  Requeued(i) \in [QueueNames -> [Messages -> Nat]]
BY EnqueueType DEF TypeOK, Requeued, QueueNames

----------------------------------------------------------------------------
(* The type invariant *)

\* Only a decoded event is claimed, run and retried: the steps in which the
\* task id is used never see a malformed body.
DecodedInv ==
  \A i \in Instances :
    pc[i] \notin {"idle", "dlq", "nack", "ack"} => event[i].task \in Tasks

TypeInv == TypeOK /\ DecodedInv

\* The strengthened type invariant is inductive.
LEMMA TypeInvariance == Spec => []TypeInv
<1>1. Init => TypeInv
  BY MessageLemma DEF Init, TypeInv, TypeOK, DecodedInv, Statuses, SubmitSteps,
                      HandlerSteps, QueueNames, MalformedBody
<1>2. TypeInv /\ [Next]_vars => TypeInv'
  <2> SUFFICES ASSUME TypeInv, [Next]_vars PROVE TypeInv'
    OBVIOUS
  <2> USE DEF TypeInv
  <2>1. ASSUME NEW t \in Tasks, SubmitSave(t) PROVE TypeInv'
    <3>1. PICK ok \in BOOLEAN :
            /\ SaveRecord(t, "queued", ok)
            /\ submit' = [submit EXCEPT ![t] = IF ok THEN "saved" ELSE "rejected"]
      BY <2>1 DEF SubmitSave
    <3>2. record' \in [Tasks -> Statuses] /\ faults' \in Nat
      BY <3>1, SaveType DEF TypeOK, Statuses
    <3>3. submit' \in [Tasks -> SubmitSteps]
      BY <3>1 DEF TypeOK, SubmitSteps
    <3> QED BY <2>1, <3>2, <3>3 DEF SubmitSave, TypeOK, DecodedInv
  <2>2. ASSUME NEW t \in Tasks, SubmitNotReady(t) PROVE TypeInv'
    BY <2>2 DEF SubmitNotReady, TypeOK, DecodedInv, SubmitSteps
  <2>3. ASSUME NEW t \in Tasks, SubmitPublish(t) PROVE TypeInv'
    <3>1. [task |-> t, attempt |-> 0] \in Messages
      BY MessageLemma
    <3>2. queue' \in [QueueNames -> [Messages -> Nat]] /\ faults' \in Nat
      BY <2>3, <3>1, PublishType DEF SubmitPublish, TypeOK, QueueNames
    <3> QED BY <2>3, <3>2 DEF SubmitPublish, TypeOK, DecodedInv, SubmitSteps
  <2>4. ASSUME NEW t \in Tasks, SubmitMarkFailed(t) PROVE TypeInv'
    <3>1. PICK ok \in BOOLEAN : SaveRecord(t, "failed", ok)
      BY <2>4 DEF SubmitMarkFailed
    <3>2. record' \in [Tasks -> Statuses] /\ faults' \in Nat
      BY <3>1, SaveType DEF TypeOK, Statuses
    <3> QED BY <2>4, <3>2 DEF SubmitMarkFailed, TypeOK, DecodedInv, SubmitSteps
  <2>5. ASSUME NEW i \in Instances, Deliver(i) PROVE TypeInv'
    <3>1. PICK m \in Messages :
            /\ queue["main"][m] > 0
            /\ queue' = [queue EXCEPT !["main"][m] = @ - 1]
            /\ body' = [body EXCEPT ![i] = m]
            /\ event' = [event EXCEPT ![i] = m]
            /\ pc' = [pc EXCEPT ![i] = IF m.task = NoTask THEN "dlq" ELSE "claim"]
      BY <2>5 DEF Deliver, Goto
    <3>2. m.task = NoTask \/ m.task \in Tasks
      BY DEF Messages
    <3>3. queue' \in [QueueNames -> [Messages -> Nat]]
      BY <3>1 DEF TypeOK, QueueNames
    <3>4. pc' \in [Instances -> HandlerSteps]
      BY <3>1 DEF TypeOK, HandlerSteps
    <3>5. DecodedInv'
      BY <3>1, <3>2 DEF TypeOK, DecodedInv
    <3> QED BY <2>5, <3>1, <3>3, <3>4, <3>5 DEF Deliver, TypeOK
  <2>6. ASSUME NEW i \in Instances, ClaimRedis(i) PROVE TypeInv'
    BY <2>6 DEF ClaimRedis, Goto, NoFault, Fault, TypeOK, DecodedInv, HandlerSteps
  <2>7. ASSUME NEW i \in Instances, ClaimLocal(i) PROVE TypeInv'
    <3>1. event[i].task \in Tasks
      BY <2>7 DEF ClaimLocal, DecodedInv
    <3>2. local' \in [Instances -> SUBSET Tasks]
      BY <2>7, <3>1 DEF ClaimLocal, TypeOK
    <3>3. pc' \in [Instances -> HandlerSteps]
      BY <2>7 DEF ClaimLocal, Goto, TypeOK, HandlerSteps
    <3>4. DecodedInv'
      BY <2>7, <3>1 DEF ClaimLocal, Goto, TypeOK, DecodedInv
    <3> QED BY <2>7, <3>2, <3>3, <3>4 DEF ClaimLocal, TypeOK
  <2>8. ASSUME NEW i \in Instances, StartRun(i) PROVE TypeInv'
    <3>1. PICK ok \in BOOLEAN :
            /\ SaveRecord(event[i].task, "running", ok)
            /\ pc' = [pc EXCEPT ![i] = IF ok THEN "exec" ELSE "failed"]
      BY <2>8 DEF StartRun, Goto
    <3>t. event[i].task \in Tasks
      BY <2>8 DEF StartRun, DecodedInv
    <3>2. record' \in [Tasks -> Statuses] /\ faults' \in Nat
      BY <3>1, <3>t, SaveType DEF TypeOK, Statuses
    <3>3. pc' \in [Instances -> HandlerSteps]
      BY <3>1 DEF TypeOK, HandlerSteps
    <3>4. DecodedInv'
      BY <2>8, <3>1 DEF StartRun, TypeOK, DecodedInv
    <3> QED BY <2>8, <3>2, <3>3, <3>4 DEF StartRun, TypeOK
  <2>9. ASSUME NEW i \in Instances, Execute(i) PROVE TypeInv'
    <3>1. pc' \in [Instances -> HandlerSteps]
      BY <2>9 DEF Execute, Goto, TypeOK, HandlerSteps
    <3>t. event[i].task \in Tasks
      BY <2>9 DEF Execute, DecodedInv
    <3>2. execs' \in [Tasks -> Nat]
      BY <2>9, <3>t DEF Execute, TypeOK
    <3>3. DecodedInv'
      BY <2>9 DEF Execute, Goto, TypeOK, DecodedInv
    <3> QED BY <2>9, <3>1, <3>2, <3>3 DEF Execute, TypeOK
  <2>10. ASSUME NEW i \in Instances, SaveOutcome(i) PROVE TypeInv'
    <3>1. PICK answered \in BOOLEAN, ok \in BOOLEAN :
            /\ SaveRecord(event[i].task, OutcomeStatus(answered), ok)
            /\ pc' = [pc EXCEPT ![i] = AfterRun(answered, ok)]
      BY <2>10 DEF SaveOutcome, Goto
    <3>t. event[i].task \in Tasks
      BY <2>10 DEF SaveOutcome, DecodedInv
    <3>s. OutcomeStatus(answered) \in Statuses
      BY DEF OutcomeStatus, Statuses
    <3>2. record' \in [Tasks -> Statuses] /\ faults' \in Nat
      BY <3>1, <3>t, <3>s, SaveType DEF TypeOK
    <3>3. pc' \in [Instances -> HandlerSteps]
      BY <3>1 DEF AfterRun, TypeOK, HandlerSteps
    <3>4. DecodedInv'
      BY <2>10, <3>1 DEF SaveOutcome, AfterRun, TypeOK, DecodedInv
    <3> QED BY <2>10, <3>2, <3>3, <3>4 DEF SaveOutcome, TypeOK
  <2>11. ASSUME NEW i \in Instances, PublishRetry(i) PROVE TypeInv'
    <3>1. /\ NextAttempt(i) \in Messages
          /\ NextAttempt(i).task = event[i].task
      BY <2>11, NextAttemptType DEF PublishRetry
    <3>2. queue' \in [QueueNames -> [Messages -> Nat]] /\ faults' \in Nat
      BY <2>11, <3>1, PublishType DEF PublishRetry, TypeOK, QueueNames
    <3>3. pc' \in [Instances -> HandlerSteps]
      BY <2>11 DEF PublishRetry, Goto, TypeOK, HandlerSteps
    <3>4. DecodedInv'
      BY <2>11, <3>1 DEF PublishRetry, Goto, TypeOK, DecodedInv
    <3> QED BY <2>11, <3>1, <3>2, <3>3, <3>4 DEF PublishRetry, TypeOK
  <2>12. ASSUME NEW i \in Instances, GiveUp(i) PROVE TypeInv'
    BY <2>12 DEF GiveUp, Goto, TypeOK, DecodedInv, HandlerSteps
  <2>13. ASSUME NEW i \in Instances, PublishDLQ(i) PROVE TypeInv'
    <3>1. queue' \in [QueueNames -> [Messages -> Nat]] /\ faults' \in Nat
      BY <2>13, PublishType DEF PublishDLQ, TypeOK, QueueNames
    <3>2. pc' \in [Instances -> HandlerSteps]
      BY <2>13 DEF PublishDLQ, Goto, TypeOK, HandlerSteps
    <3>3. DecodedInv'
      BY <2>13 DEF PublishDLQ, Goto, TypeOK, DecodedInv
    <3> QED BY <2>13, <3>1, <3>2, <3>3 DEF PublishDLQ, TypeOK
  <2>14. ASSUME NEW i \in Instances, ReleaseRedis(i) PROVE TypeInv'
    BY <2>14 DEF ReleaseRedis, ClaimDeleted, Goto, NoFault, Fault, TypeOK,
                 DecodedInv, HandlerSteps
  <2>15. ASSUME NEW i \in Instances, ReleaseLocal(i) PROVE TypeInv'
    BY <2>15 DEF ReleaseLocal, Goto, TypeOK, DecodedInv, HandlerSteps
  <2>16. ASSUME NEW i \in Instances, Ack(i) PROVE TypeInv'
    BY <2>16 DEF Ack, Goto, TypeOK, DecodedInv, HandlerSteps
  <2>17. ASSUME NEW i \in Instances, NackRequeue(i) PROVE TypeInv'
    BY <2>17, RequeuedType DEF NackRequeue, Goto, TypeOK, DecodedInv, HandlerSteps
  <2>18. ASSUME NEW m \in Messages, RetryExpire(m) PROVE TypeInv'
    BY <2>18 DEF RetryExpire, TypeOK, DecodedInv, QueueNames
  <2>19. ASSUME NEW t \in Tasks, ExpireClaim(t) PROVE TypeInv'
    BY <2>19 DEF ExpireClaim, TypeOK, DecodedInv
  <2>20. ASSUME NEW i \in Instances, NEW t \in Tasks, ForgetLocal(i, t)
         PROVE  TypeInv'
    BY <2>20 DEF ForgetLocal, TypeOK, DecodedInv
  <2>21. ASSUME NEW i \in Instances, DropConnection(i) PROVE TypeInv'
    BY <2>21, RequeuedType DEF DropConnection, Fault, TypeOK, DecodedInv
  <2>22. ASSUME NEW i \in Instances, Crash(i) PROVE TypeInv'
    BY <2>22, RequeuedType DEF Crash, Fault, Goto, TypeOK, DecodedInv, HandlerSteps
  <2>23. CASE UNCHANGED vars
    BY <2>23 DEF vars, TypeOK, DecodedInv
  <2> QED
    BY <2>1, <2>2, <2>3, <2>4, <2>5, <2>6, <2>7, <2>8, <2>9, <2>10, <2>11,
       <2>12, <2>13, <2>14, <2>15, <2>16, <2>17, <2>18, <2>19, <2>20, <2>21,
       <2>22, <2>23 DEF Next, Submission, Handler
<1> QED BY <1>1, <1>2, PTL DEF Spec

\* The specification keeps every variable in its type: statuses, handler
\* steps, attempt numbers within the retry limit, non-negative copy counts.
THEOREM TypeCorrect == Spec => []TypeOK
<1>1. TypeInv => TypeOK
  BY DEF TypeInv
<1> QED BY <1>1, TypeInvariance, PTL

----------------------------------------------------------------------------
(* Mutual exclusion *)

\* The inductive core of mutual exclusion: whoever is past the Redis claim of
\* a task and has not yet released it owns the key.
OwnerInv ==
  \A i \in Instances :
    pc[i] \in WorkingSteps /\ event[i].task \in Tasks => claim[event[i].task] = i

\* Without Redis errors every step preserves ownership: a key is set only when
\* it is free, deleted only by its owner, and expires only when the owner is
\* no longer working.
LEMMA OwnerStep ==
  ASSUME "redis" \notin Faults, TypeInv, TypeInv', OwnerInv, [Next]_vars
  PROVE  OwnerInv'
<1> USE DEF TypeInv, TypeOK
<1>1. ASSUME NEW t \in Tasks, Submission(t) PROVE OwnerInv'
  BY <1>1 DEF Submission, SubmitSave, SubmitNotReady, SubmitPublish,
              SubmitMarkFailed, OwnerInv
<1>2. ASSUME NEW i \in Instances, Deliver(i) PROVE OwnerInv'
  <2>1. PICK m \in Messages :
          /\ event' = [event EXCEPT ![i] = m]
          /\ pc' = [pc EXCEPT ![i] = IF m.task = NoTask THEN "dlq" ELSE "claim"]
    BY <1>2 DEF Deliver, Goto
  <2>2. claim' = claim
    BY <1>2 DEF Deliver
  <2> QED BY <2>1, <2>2 DEF OwnerInv, WorkingSteps
<1>3. ASSUME NEW i \in Instances, ClaimRedis(i) PROVE OwnerInv'
  <2>1. event[i].task \in Tasks
    BY <1>3 DEF ClaimRedis, DecodedInv
  <2> QED BY <1>3, <2>1 DEF ClaimRedis, ClaimFree, Fault, Goto, OwnerInv,
                            WorkingSteps
<1>4. ASSUME NEW i \in Instances, ClaimLocal(i) PROVE OwnerInv'
  BY <1>4 DEF ClaimLocal, Goto, OwnerInv, WorkingSteps
<1>5. ASSUME NEW i \in Instances, StartRun(i) PROVE OwnerInv'
  BY <1>5 DEF StartRun, Goto, OwnerInv, WorkingSteps
<1>6. ASSUME NEW i \in Instances, Execute(i) PROVE OwnerInv'
  BY <1>6 DEF Execute, Goto, OwnerInv, WorkingSteps
<1>7. ASSUME NEW i \in Instances, SaveOutcome(i) PROVE OwnerInv'
  BY <1>7 DEF SaveOutcome, AfterRun, Goto, OwnerInv, WorkingSteps
<1>8. ASSUME NEW i \in Instances, PublishRetry(i) PROVE OwnerInv'
  <2>1. NextAttempt(i).task = event[i].task
    BY <1>8, NextAttemptType DEF PublishRetry
  <2> QED BY <1>8, <2>1 DEF PublishRetry, Goto, OwnerInv, WorkingSteps
<1>9. ASSUME NEW i \in Instances, GiveUp(i) \/ PublishDLQ(i) PROVE OwnerInv'
  BY <1>9 DEF GiveUp, PublishDLQ, Goto, OwnerInv, WorkingSteps
<1>10. ASSUME NEW i \in Instances, ReleaseRedis(i) PROVE OwnerInv'
  <2>1. event[i].task \in Tasks /\ claim[event[i].task] = i
    BY <1>10 DEF ReleaseRedis, DecodedInv, OwnerInv, WorkingSteps
  <2> QED BY <1>10, <2>1 DEF ReleaseRedis, ClaimDeleted, Fault, Goto, OwnerInv,
                             WorkingSteps
<1>11. ASSUME NEW i \in Instances, ReleaseLocal(i) \/ Ack(i) \/ NackRequeue(i)
       PROVE  OwnerInv'
  BY <1>11 DEF ReleaseLocal, Ack, NackRequeue, Goto, OwnerInv, WorkingSteps
<1>12. ASSUME NEW m \in Messages, RetryExpire(m) PROVE OwnerInv'
  BY <1>12 DEF RetryExpire, OwnerInv
<1>13. ASSUME NEW t \in Tasks, ExpireClaim(t) PROVE OwnerInv'
  BY <1>13 DEF ExpireClaim, Working, OwnerInv
<1>14. ASSUME NEW i \in Instances, NEW t \in Tasks, ForgetLocal(i, t)
       PROVE  OwnerInv'
  BY <1>14 DEF ForgetLocal, OwnerInv
<1>15. ASSUME NEW i \in Instances, DropConnection(i) PROVE OwnerInv'
  BY <1>15 DEF DropConnection, OwnerInv
<1>16. ASSUME NEW i \in Instances, Crash(i) PROVE OwnerInv'
  BY <1>16 DEF Crash, Goto, OwnerInv, WorkingSteps
<1>17. CASE UNCHANGED vars
  BY <1>17 DEF vars, OwnerInv
<1> QED
  BY <1>1, <1>2, <1>3, <1>4, <1>5, <1>6, <1>7, <1>8, <1>9, <1>10, <1>11, <1>12,
     <1>13, <1>14, <1>15, <1>16, <1>17 DEF Next, Handler

\* Whole-cluster mutual exclusion of the executor (RedisDeduper.Claim), for
\* any number of instances: crashes, dropped connections, failed, lost and
\* duplicated publishes, slow releases and expiring claims included, as long
\* as Redis answers.
THEOREM Exclusion ==
  ASSUME "redis" \notin Faults
  PROVE  Spec => []ExclusiveExecution
<1>1. Init => OwnerInv
  BY DEF Init, OwnerInv, WorkingSteps
<1>2. TypeInv /\ TypeInv' /\ OwnerInv /\ [Next]_vars => OwnerInv'
  BY OwnerStep
<1>3. TypeInv /\ OwnerInv => ExclusiveExecution
  BY DEF TypeInv, DecodedInv, OwnerInv, ExclusiveExecution, ExecutingSteps,
         WorkingSteps
<1> QED BY <1>1, <1>2, <1>3, TypeInvariance, PTL DEF Spec

----------------------------------------------------------------------------
(* The record and the submitter *)

\* The submitter has called Publish, which only an ambiguous failure can make
\* fail although the broker has the message.
Published(t) ==
  submit[t] \in {"submitted"} \cup
    IF "ambiguous" \in Faults THEN {"failing", "rejected"} ELSE {}

\* What the broker, a handler or the dedup keys know of was published.
SubmittedInv ==
  /\ \A q \in QueueNames, m \in Messages :
       queue[q][m] > 0 /\ m.task \in Tasks => Published(m.task)
  /\ \A i \in Instances : body[i].task \in Tasks => Published(body[i].task)
  /\ \A i \in Instances : event[i].task = body[i].task
  /\ \A t \in Tasks : claim[t] # NoOwner => Published(t)

\* Copies only appear where the step put them.
LEMMA PublishedWhere ==
  ASSUME queue \in [QueueNames -> [Messages -> Nat]],
         NEW q \in QueueNames, NEW m \in Messages, NEW ok \in BOOLEAN,
         Publish(q, m, ok),
         NEW r \in QueueNames, NEW n \in Messages, queue'[r][n] > 0
  PROVE  queue[r][n] > 0 \/ (r = q /\ n = m /\ (~ok => "ambiguous" \in Faults))
BY DEF Publish, Enqueue, Fault, NoFault

LEMMA RequeuedWhere ==
  ASSUME TypeOK, NEW i \in Instances, queue' = Requeued(i),
         NEW r \in QueueNames, NEW n \in Messages, queue'[r][n] > 0
  PROVE  queue[r][n] > 0 \/ n = body[i]
BY DEF TypeOK, Requeued, Enqueue, QueueNames

\* SubmittedInv is preserved.
LEMMA SubmittedStep ==
  ASSUME TypeInv, TypeInv', SubmittedInv, [Next]_vars
  PROVE  SubmittedInv'
<1> USE DEF TypeInv, TypeOK, Published
<1>1. ASSUME NEW t \in Tasks, SubmitSave(t) \/ SubmitNotReady(t) \/ SubmitMarkFailed(t)
      PROVE  SubmittedInv'
  <2>1. UNCHANGED <<queue, body, event, claim>>
    BY <1>1 DEF SubmitSave, SubmitNotReady, SubmitMarkFailed
  <2>2. \E u \in Tasks, s \in SubmitSteps :
          /\ submit' = [submit EXCEPT ![u] = s]
          /\ Published(u) => s = "rejected"
          /\ submit[u] # "submitted"
    BY <1>1 DEF SubmitSave, SubmitNotReady, SubmitMarkFailed, SubmitSteps
  <2>3. \A u \in Tasks : Published(u) => Published(u)'
    BY <2>2
  <2> HIDE DEF Published
  <2> QED BY <2>1, <2>3 DEF SubmittedInv
<1>2. ASSUME NEW t \in Tasks, SubmitPublish(t) PROVE SubmittedInv'
  <2> DEFINE m == [task |-> t, attempt |-> 0]
  <2>0. m \in Messages /\ m.task = t
    BY MessageLemma
  <2>1. PICK ok \in BOOLEAN :
          /\ Publish("main", m, ok)
          /\ submit' = [submit EXCEPT ![t] = IF ok THEN "submitted" ELSE "failing"]
    BY <1>2 DEF SubmitPublish
  <2>2. submit[t] = "saved" /\ UNCHANGED <<body, event, claim>>
    BY <1>2 DEF SubmitPublish
  <2> HIDE DEF m
  <2>3. \A r \in QueueNames, n \in Messages :
          queue'[r][n] > 0 =>
            queue[r][n] > 0 \/ (n = m /\ (~ok => "ambiguous" \in Faults))
    BY <2>0, <2>1, PublishedWhere DEF QueueNames
  <2> QED BY <2>0, <2>1, <2>2, <2>3 DEF SubmittedInv
<1>3. ASSUME NEW i \in Instances, Deliver(i) PROVE SubmittedInv'
  <2>1. PICK m \in Messages :
          /\ queue["main"][m] > 0
          /\ queue' = [queue EXCEPT !["main"][m] = @ - 1]
          /\ body' = [body EXCEPT ![i] = m]
          /\ event' = [event EXCEPT ![i] = m]
    BY <1>3 DEF Deliver
  <2>2. \A r \in QueueNames, n \in Messages : queue'[r][n] > 0 => queue[r][n] > 0
    BY <2>1 DEF QueueNames
  <2>3. UNCHANGED <<submit, claim>>
    BY <1>3 DEF Deliver
  <2> QED BY <2>1, <2>2, <2>3 DEF SubmittedInv, QueueNames
<1>4. ASSUME NEW i \in Instances, ClaimRedis(i) PROVE SubmittedInv'
  <2>1. event[i].task \in Tasks
    BY <1>4 DEF ClaimRedis, DecodedInv
  <2> QED BY <1>4, <2>1 DEF ClaimRedis, SubmittedInv
<1>5. ASSUME NEW i \in Instances,
             \/ ClaimLocal(i) \/ StartRun(i) \/ Execute(i) \/ SaveOutcome(i)
             \/ GiveUp(i) \/ ReleaseLocal(i) \/ Ack(i)
      PROVE  SubmittedInv'
  BY <1>5 DEF ClaimLocal, StartRun, Execute, SaveOutcome, GiveUp, ReleaseLocal,
              Ack, SubmittedInv
<1>6. ASSUME NEW i \in Instances, PublishRetry(i) PROVE SubmittedInv'
  <2>0. NextAttempt(i) \in Messages /\ NextAttempt(i).task = event[i].task
    BY <1>6, NextAttemptType DEF PublishRetry
  <2>1. /\ event' = [event EXCEPT ![i] = NextAttempt(i)]
        /\ UNCHANGED <<submit, body, claim>>
    BY <1>6 DEF PublishRetry
  <2>2. \A r \in QueueNames, n \in Messages :
          queue'[r][n] > 0 => queue[r][n] > 0 \/ n = NextAttempt(i)
    BY <1>6, <2>0, PublishedWhere DEF PublishRetry, QueueNames
  <2> QED BY <2>0, <2>1, <2>2 DEF SubmittedInv
<1>7. ASSUME NEW i \in Instances, PublishDLQ(i) PROVE SubmittedInv'
  <2>1. \A r \in QueueNames, n \in Messages :
          queue'[r][n] > 0 => queue[r][n] > 0 \/ n = event[i]
    BY <1>7, PublishedWhere DEF PublishDLQ, QueueNames
  <2>2. UNCHANGED <<submit, body, event, claim>>
    BY <1>7 DEF PublishDLQ
  <2> QED BY <2>1, <2>2 DEF SubmittedInv
<1>8. ASSUME NEW i \in Instances, ReleaseRedis(i) PROVE SubmittedInv'
  BY <1>8 DEF ReleaseRedis, ClaimDeleted, SubmittedInv
<1>9. ASSUME NEW i \in Instances,
             NackRequeue(i) \/ DropConnection(i) \/ Crash(i)
      PROVE  SubmittedInv'
  <2>1. \A r \in QueueNames, n \in Messages :
          queue'[r][n] > 0 => queue[r][n] > 0 \/ n = body[i]
    BY <1>9, RequeuedWhere DEF NackRequeue, DropConnection, Crash
  <2>2. UNCHANGED <<submit, body, event, claim>>
    BY <1>9 DEF NackRequeue, DropConnection, Crash
  <2> QED BY <2>1, <2>2 DEF SubmittedInv
<1>10. ASSUME NEW m \in Messages, RetryExpire(m) PROVE SubmittedInv'
  <2>1. queue["retry"][m] > 0 /\ UNCHANGED <<submit, body, event, claim>>
    BY <1>10 DEF RetryExpire
  <2>2. \A r \in QueueNames, n \in Messages :
          queue'[r][n] > 0 => queue[r][n] > 0 \/ n = m
    BY <1>10 DEF RetryExpire, QueueNames
  <2> QED BY <2>1, <2>2 DEF SubmittedInv, QueueNames
<1>11. ASSUME NEW t \in Tasks, ExpireClaim(t) PROVE SubmittedInv'
  BY <1>11 DEF ExpireClaim, SubmittedInv
<1>12. ASSUME NEW i \in Instances, NEW t \in Tasks, ForgetLocal(i, t)
       PROVE  SubmittedInv'
  BY <1>12 DEF ForgetLocal, SubmittedInv
<1>13. CASE UNCHANGED vars
  BY <1>13 DEF vars, SubmittedInv
<1> QED
  BY <1>1, <1>2, <1>3, <1>4, <1>5, <1>6, <1>7, <1>8, <1>9, <1>10, <1>11, <1>12,
     <1>13 DEF Next, Submission, Handler

----------------------------------------------------------------------------
(* A saved answer stays *)

\* A task with an answer still has its dedup key, and nobody works on it.
AnsweredInv ==
  \A t \in Tasks : record[t] = "succeeded" =>
    /\ claim[t] # NoOwner
    /\ Published(t)
    /\ \A i \in Instances : ~Working(i, t)

StickyInv == TypeInv /\ OwnerInv /\ SubmittedInv /\ AnsweredInv

\* Without Redis errors a save writes exactly the record it was given.
LEMMA SavedExactly ==
  ASSUME "redis" \notin Faults, NEW t, NEW status, NEW ok \in BOOLEAN,
         SaveRecord(t, status, ok)
  PROVE  ok /\ record' = [record EXCEPT ![t] = status]
BY DEF SaveRecord, Fault

\* AnsweredInv is preserved when keys neither fail nor expire.
LEMMA AnsweredStep ==
  ASSUME "redis" \notin Faults, "expire" \notin Faults,
         StickyInv, TypeInv', OwnerInv', SubmittedInv', [Next]_vars
  PROVE  AnsweredInv'
<1> USE DEF StickyInv, TypeInv, TypeOK, Published
<1>1. ASSUME NEW t \in Tasks, SubmitSave(t) PROVE AnsweredInv'
  <2>1. record' = [record EXCEPT ![t] = "queued"]
    BY <1>1, SavedExactly DEF SubmitSave
  <2>2. UNCHANGED <<pc, event, claim>>
    BY <1>1 DEF SubmitSave
  <2> QED BY <2>1, <2>2, <1>1 DEF SubmitSave, AnsweredInv, Working
<1>2. ASSUME NEW t \in Tasks, SubmitNotReady(t) \/ SubmitPublish(t)
      PROVE  AnsweredInv'
  BY <1>2 DEF SubmitNotReady, SubmitPublish, AnsweredInv, Working
<1>3. ASSUME NEW t \in Tasks, SubmitMarkFailed(t) PROVE AnsweredInv'
  <2>1. record' = [record EXCEPT ![t] = "failed"]
    BY <1>3, SavedExactly DEF SubmitMarkFailed
  <2>2. UNCHANGED <<pc, event, claim>>
    BY <1>3 DEF SubmitMarkFailed
  <2> QED BY <2>1, <2>2, <1>3 DEF SubmitMarkFailed, AnsweredInv, Working
<1>4. ASSUME NEW i \in Instances, Deliver(i) PROVE AnsweredInv'
  <2>1. PICK m \in Messages :
          /\ event' = [event EXCEPT ![i] = m]
          /\ pc' = [pc EXCEPT ![i] = IF m.task = NoTask THEN "dlq" ELSE "claim"]
    BY <1>4 DEF Deliver, Goto
  <2>2. UNCHANGED <<record, submit, claim>>
    BY <1>4 DEF Deliver
  <2> QED BY <2>1, <2>2 DEF AnsweredInv, Working, WorkingSteps
<1>5. ASSUME NEW i \in Instances, ClaimRedis(i) PROVE AnsweredInv'
  <2>1. event[i].task \in Tasks
    BY <1>5 DEF ClaimRedis, DecodedInv
  <2> QED BY <1>5, <2>1 DEF ClaimRedis, ClaimFree, Fault, Goto, AnsweredInv,
                            Working, WorkingSteps
<1>6. ASSUME NEW i \in Instances, ClaimLocal(i) \/ Execute(i) \/ GiveUp(i)
      PROVE  AnsweredInv'
  BY <1>6 DEF ClaimLocal, Execute, GiveUp, Goto, AnsweredInv, Working,
              WorkingSteps
<1>7. ASSUME NEW i \in Instances, StartRun(i) PROVE AnsweredInv'
  <2>1. /\ record' = [record EXCEPT ![event[i].task] = "running"]
        /\ pc' = [pc EXCEPT ![i] = "exec"]
    <3>1. PICK ok \in BOOLEAN :
            /\ SaveRecord(event[i].task, "running", ok)
            /\ pc' = [pc EXCEPT ![i] = IF ok THEN "exec" ELSE "failed"]
      BY <1>7 DEF StartRun, Goto
    <3>2. ok /\ record' = [record EXCEPT ![event[i].task] = "running"]
      BY <3>1, SavedExactly
    <3> QED BY <3>1, <3>2
  <2>2. UNCHANGED <<submit, event, claim>>
    BY <1>7 DEF StartRun
  <2> QED BY <1>7, <2>1, <2>2 DEF StartRun, AnsweredInv, Working, WorkingSteps
<1>8. ASSUME NEW i \in Instances, SaveOutcome(i) PROVE AnsweredInv'
  <2> DEFINE t == event[i].task
  <2>1. /\ pc[i] \in {"saveOk", "saveErr"}
        /\ UNCHANGED <<submit, event, claim, body>>
    BY <1>8 DEF SaveOutcome
  <2>2. t \in Tasks /\ claim[t] = i /\ Published(t)
    <3>1. t \in Tasks
      BY <2>1 DEF DecodedInv
    <3>2. claim[t] = i
      BY <2>1, <3>1 DEF OwnerInv, WorkingSteps
    <3>3. Published(t)
      BY <3>1 DEF SubmittedInv
    <3> QED BY <3>1, <3>2, <3>3
  <2>3. PICK answered \in BOOLEAN, ok \in BOOLEAN :
          /\ SaveRecord(t, OutcomeStatus(answered), ok)
          /\ pc' = [pc EXCEPT ![i] = AfterRun(answered, ok)]
    BY <1>8 DEF SaveOutcome, Goto
  <2>4. ok /\ record' = [record EXCEPT ![t] = OutcomeStatus(answered)]
    BY <2>3, SavedExactly
  <2>5. \A j \in Instances : j # i => ~Working(j, t)
    BY <2>2 DEF OwnerInv, Working
  <2>6. CASE answered
    <3>1. record' = [record EXCEPT ![t] = "succeeded"]
      BY <2>4, <2>6 DEF OutcomeStatus
    <3>2. pc' = [pc EXCEPT ![i] = "ack"]
      BY <2>3, <2>4, <2>6 DEF AfterRun
    <3> QED BY <2>1, <2>2, <2>5, <3>1, <3>2 DEF AnsweredInv, Working, WorkingSteps
  <2>7. CASE ~answered
    <3>1. record' = [record EXCEPT ![t] = "failed"]
      BY <2>4, <2>7 DEF OutcomeStatus
    <3>2. pc' = [pc EXCEPT ![i] = "failed"]
      BY <2>3, <2>7 DEF AfterRun
    <3> QED BY <2>1, <2>2, <3>1, <3>2 DEF AnsweredInv, Working, WorkingSteps
  <2> QED BY <2>6, <2>7
<1>9. ASSUME NEW i \in Instances, PublishRetry(i) PROVE AnsweredInv'
  <2>1. NextAttempt(i).task = event[i].task
    BY <1>9, NextAttemptType DEF PublishRetry
  <2> QED BY <1>9, <2>1 DEF PublishRetry, Goto, AnsweredInv, Working, WorkingSteps
<1>10. ASSUME NEW i \in Instances, PublishDLQ(i) PROVE AnsweredInv'
  BY <1>10 DEF PublishDLQ, Goto, AnsweredInv, Working, WorkingSteps
<1>11. ASSUME NEW i \in Instances, ReleaseRedis(i) PROVE AnsweredInv'
  <2>1. record[event[i].task] # "succeeded"
    BY <1>11 DEF ReleaseRedis, DecodedInv, AnsweredInv, Working, WorkingSteps
  <2> QED BY <1>11, <2>1 DEF ReleaseRedis, ClaimDeleted, Goto, AnsweredInv,
                             Working, WorkingSteps
<1>12. ASSUME NEW i \in Instances,
              ReleaseLocal(i) \/ Ack(i) \/ NackRequeue(i) \/ Crash(i)
       PROVE  AnsweredInv'
  BY <1>12 DEF ReleaseLocal, Ack, NackRequeue, Crash, Goto, AnsweredInv,
               Working, WorkingSteps
<1>13. ASSUME NEW m \in Messages, RetryExpire(m) PROVE AnsweredInv'
  BY <1>13 DEF RetryExpire, AnsweredInv, Working
<1>14. ASSUME NEW i \in Instances, DropConnection(i) PROVE AnsweredInv'
  BY <1>14 DEF DropConnection, AnsweredInv, Working
<1>15. CASE UNCHANGED vars
  BY <1>15 DEF vars, AnsweredInv, Working
<1> QED
  BY <1>1, <1>2, <1>3, <1>4, <1>5, <1>6, <1>7, <1>8, <1>9, <1>10, <1>11, <1>12,
     <1>13, <1>14, <1>15
     DEF Next, Submission, Handler, ExpireClaim, ForgetLocal

\* Only the submitter and a working handler write a record.
LEMMA WhoWrites ==
  ASSUME TypeInv, [Next]_vars, NEW t \in Tasks, record'[t] # record[t]
  PROVE  \/ submit[t] \in {"new", "failing"}
         \/ \E i \in Instances : Working(i, t)
<1> USE DEF TypeInv, TypeOK
<1>1. ASSUME NEW u \in Tasks, Submission(u) PROVE u = t /\ submit[t] \in {"new", "failing"}
  BY <1>1 DEF Submission, SubmitSave, SubmitNotReady, SubmitPublish,
              SubmitMarkFailed, SaveRecord
<1>2. ASSUME NEW i \in Instances, StartRun(i) \/ SaveOutcome(i) PROVE Working(i, t)
  BY <1>2 DEF StartRun, SaveOutcome, SaveRecord, Working, WorkingSteps
<1>3. ASSUME NEW i \in Instances, Handler(i), ~StartRun(i), ~SaveOutcome(i)
      PROVE  FALSE
  BY <1>3 DEF Handler, Deliver, ClaimRedis, ClaimLocal, Execute, PublishRetry,
              GiveUp, PublishDLQ, ReleaseRedis, ReleaseLocal, Ack, NackRequeue
<1> QED
  BY <1>1, <1>2, <1>3 DEF Next, vars, RetryExpire, ExpireClaim, ForgetLocal,
                          DropConnection, Crash

\* The record of a task whose publish failed, and that nobody works on, is
\* only written together with the rejection.
LEMMA FailingEnds ==
  ASSUME TypeInv, [Next]_vars, NEW t \in Tasks, record'[t] # record[t],
         submit[t] = "failing", \A i \in Instances : ~Working(i, t)
  PROVE  submit'[t] = "rejected"
<1> USE DEF TypeInv, TypeOK
<1>1. ASSUME NEW u \in Tasks, Submission(u) PROVE submit'[t] = "rejected"
  BY <1>1 DEF Submission, SubmitSave, SubmitNotReady, SubmitPublish,
              SubmitMarkFailed, SaveRecord
<1>2. ASSUME NEW i \in Instances, StartRun(i) \/ SaveOutcome(i) PROVE FALSE
  BY <1>2 DEF StartRun, SaveOutcome, SaveRecord, Working, WorkingSteps
<1>3. ASSUME NEW i \in Instances, Handler(i), ~StartRun(i), ~SaveOutcome(i)
      PROVE  FALSE
  BY <1>3 DEF Handler, Deliver, ClaimRedis, ClaimLocal, Execute, PublishRetry,
              GiveUp, PublishDLQ, ReleaseRedis, ReleaseLocal, Ack, NackRequeue
<1> QED
  BY <1>1, <1>2, <1>3 DEF Next, vars, RetryExpire, ExpireClaim, ForgetLocal,
                          DropConnection, Crash

\* What keeps a saved answer, as one inductive invariant.
LEMMA StickyInvariance ==
  ASSUME Faults \cap {"redis", "expire"} = {}
  PROVE  Spec => []StickyInv
<1>0. "redis" \notin Faults /\ "expire" \notin Faults
  OBVIOUS
<1>1. Init => OwnerInv /\ SubmittedInv /\ AnsweredInv
  BY MessageLemma DEF Init, OwnerInv, SubmittedInv, AnsweredInv, WorkingSteps,
                      QueueNames, MalformedBody, Working
<1>2. StickyInv /\ TypeInv' /\ [Next]_vars => (OwnerInv /\ SubmittedInv /\ AnsweredInv)'
  <2> SUFFICES ASSUME StickyInv, TypeInv', [Next]_vars
               PROVE  (OwnerInv /\ SubmittedInv /\ AnsweredInv)'
    OBVIOUS
  <2>1. OwnerInv'
    BY <1>0, OwnerStep DEF StickyInv
  <2>2. SubmittedInv'
    BY <1>0, SubmittedStep DEF StickyInv
  <2> QED BY <1>0, <2>1, <2>2, AnsweredStep
<1> QED BY <1>1, <1>2, TypeInvariance, PTL DEF Spec, StickyInv

\* One step does not take a saved answer back, except together with the
\* rejection of the task.
LEMMA AnswerKept ==
  ASSUME StickyInv, [Next]_vars, NEW t \in Tasks,
         record[t] = "succeeded", record'[t] # "succeeded"
  PROVE  submit'[t] = "rejected"
<1>1. submit[t] = "failing" /\ \A i \in Instances : ~Working(i, t)
  BY WhoWrites DEF StickyInv, AnsweredInv, Published
<1> QED BY <1>1, FailingEnds DEF StickyInv

\* No handler ever overwrites a saved answer, and SubmitChatTask does only
\* when it reports failure, when Redis answers and keys do not expire;
\* processes may crash, connections drop, and publishes get lost or fail with
\* the message in the queue.
THEOREM AnswerIsFinal ==
  ASSUME Faults \cap {"redis", "expire"} = {}
  PROVE  Spec => AnswerSticks
<1>1. StickyInv /\ [Next]_vars =>
        [\A t \in Tasks : record[t] = "succeeded" =>
           record'[t] = "succeeded" \/ submit'[t] = "rejected"]_vars
  BY AnswerKept
<1> QED BY <1>1, StickyInvariance, PTL DEF Spec, AnswerSticks

----------------------------------------------------------------------------
(* The promise to the client *)

\* What promiseOf looks at stays as it is for a task.
Untouched(t) ==
  record'[t] = record[t] /\ submit'[t] = submit[t]
    /\ (Copies("dlq", t)' <=> Copies("dlq", t))

\* A step concerns one task at most.
LEMMA OneTaskAStep ==
  ASSUME TypeInv, [Next]_vars
  PROVE  \E t : \A u \in Tasks \ {t} : Untouched(u)
<1> USE DEF TypeInv, TypeOK, Untouched, Copies, QueueNames
<1>1. ASSUME NEW t \in Tasks, Submission(t)
      PROVE  \A u \in Tasks \ {t} : Untouched(u)
  BY <1>1, MessageLemma DEF Submission, SubmitSave, SubmitNotReady,
       SubmitPublish, SubmitMarkFailed, SaveRecord, Publish, Enqueue
<1>2. ASSUME NEW i \in Instances, StartRun(i) \/ SaveOutcome(i)
      PROVE  \E t \in Tasks : \A u \in Tasks \ {t} : Untouched(u)
  <2>1. event[i].task \in Tasks
    BY <1>2 DEF StartRun, SaveOutcome, DecodedInv
  <2>2. \A u \in Tasks \ {event[i].task} : Untouched(u)
    BY <1>2 DEF StartRun, SaveOutcome, SaveRecord
  <2> QED BY <2>1, <2>2
<1>3. ASSUME NEW i \in Instances, PublishDLQ(i)
      PROVE  \A u \in Tasks \ {event[i].task} : Untouched(u)
  <2>1. UNCHANGED <<record, submit>>
    BY <1>3 DEF PublishDLQ
  <2>2. PICK ok \in BOOLEAN : Publish("dlq", event[i], ok)
    BY <1>3 DEF PublishDLQ
  <2>3. \A m \in Messages \ {event[i]} : queue'["dlq"][m] = queue["dlq"][m]
    BY <2>2 DEF Publish, Enqueue
  <2> QED BY <2>1, <2>3
<1>4. ASSUME NEW i \in Instances, Deliver(i)
      PROVE  \A u \in Tasks : Untouched(u)
  BY <1>4 DEF Deliver
<1>5. ASSUME NEW i \in Instances, PublishRetry(i)
      PROVE  \A u \in Tasks : Untouched(u)
  BY <1>5, NextAttemptType DEF PublishRetry, Publish, Enqueue
<1>6. ASSUME NEW i \in Instances,
             \/ NackRequeue(i) \/ DropConnection(i) \/ Crash(i)
      PROVE  \A u \in Tasks : Untouched(u)
  BY <1>6 DEF NackRequeue, DropConnection, Crash, Requeued, Enqueue
<1>7. ASSUME NEW i \in Instances,
             \/ ClaimRedis(i) \/ ClaimLocal(i) \/ Execute(i) \/ GiveUp(i)
             \/ ReleaseRedis(i) \/ ReleaseLocal(i) \/ Ack(i)
      PROVE  \A u \in Tasks : Untouched(u)
  BY <1>7 DEF ClaimRedis, ClaimLocal, Execute, GiveUp, ReleaseRedis,
              ReleaseLocal, Ack
<1>8. ASSUME NEW m \in Messages, RetryExpire(m)
      PROVE  \A u \in Tasks : Untouched(u)
  BY <1>8 DEF RetryExpire
<1>9. CASE \/ \E t \in Tasks : ExpireClaim(t)
           \/ \E i \in Instances, t \in Tasks : ForgetLocal(i, t)
           \/ UNCHANGED vars
  BY <1>9 DEF ExpireClaim, ForgetLocal, vars
<1> HIDE DEF Untouched
<1> QED
  BY <1>1, <1>2, <1>3, <1>4, <1>5, <1>6, <1>7, <1>8, <1>9 DEF Next, Handler

\* A rejection and an acceptance are final, and dead letters stay.
LEMMA NeverUndone ==
  ASSUME TypeInv, [Next]_vars, NEW t \in Tasks
  PROVE  /\ submit[t] \in {"submitted", "rejected"} => submit'[t] = submit[t]
         /\ Copies("dlq", t) => Copies("dlq", t)'
<1> USE DEF TypeInv, TypeOK, Copies, QueueNames
<1>1. ASSUME NEW u \in Tasks, Submission(u)
      PROVE  /\ submit[t] \in {"submitted", "rejected"} => submit'[t] = submit[t]
             /\ queue'["dlq"] = queue["dlq"]
  BY <1>1, MessageLemma DEF Submission, SubmitSave, SubmitNotReady,
       SubmitPublish, SubmitMarkFailed, Publish, Enqueue
<1>2. ASSUME NEW i \in Instances, PublishDLQ(i)
      PROVE  /\ submit' = submit
             /\ Copies("dlq", t) => Copies("dlq", t)'
  BY <1>2 DEF PublishDLQ, Publish, Enqueue
<1>3. ASSUME NEW i \in Instances, Handler(i), ~PublishDLQ(i)
      PROVE  submit' = submit /\ queue'["dlq"] = queue["dlq"]
  BY <1>3, NextAttemptType
     DEF Handler, Deliver, ClaimRedis, ClaimLocal, StartRun, Execute,
         SaveOutcome, PublishRetry, GiveUp, ReleaseRedis, ReleaseLocal, Ack,
         NackRequeue, Publish, Enqueue, Requeued
<1>4. CASE \/ \E u \in Tasks : ExpireClaim(u)
           \/ \E i \in Instances : DropConnection(i) \/ Crash(i)
           \/ \E i \in Instances, u \in Tasks : ForgetLocal(i, u)
           \/ \E m \in Messages : RetryExpire(m)
           \/ UNCHANGED vars
  BY <1>4 DEF ExpireClaim, ForgetLocal, DropConnection, Crash, RetryExpire,
              Requeued, Enqueue, vars
<1> QED
  BY <1>1, <1>2, <1>3, <1>4 DEF Next

\* A step that leaves a task's record, submission and dead letters alone
\* leaves what its client sees alone.
LEMMA UntouchedPromise ==
  ASSUME NEW t \in Tasks, Untouched(t)
  PROVE  promiseOf'[t] = promiseOf[t]
BY DEF Untouched, promiseOf

\* One task's promise only moves along the actions of TaskPromise.
LEMMA PromiseMoves ==
  ASSUME TypeInv, [Next]_vars, NEW t \in Tasks,
         \/ Faults \cap {"redis", "expire"} # {}
         \/ record[t] = "succeeded" =>
              record'[t] = "succeeded" \/ submit'[t] = "rejected",
         promiseOf'[t] # promiseOf[t]
  PROVE  LET p == promiseOf[t]  q == promiseOf'[t]
         IN  \/ p = "new" /\ q = "open"
             \/ p \in {"new", "open", "dead"} /\ q = "answered"
             \/ p \in {"new", "open"} /\ q = "dead"
             \/ p # "refused" /\ q = "refused"
             \/ /\ Faults \cap {"redis", "expire"} # {}
                /\ p = "answered"
                /\ q \in {"new", "open", "dead"}
<1>1. /\ submit[t] \in {"submitted", "rejected"} => submit'[t] = submit[t]
      /\ Copies("dlq", t) => Copies("dlq", t)'
  BY NeverUndone
<1> QED BY <1>1 DEF promiseOf

\* One step of the pipeline is a step of TaskPromise or changes nothing a
\* client sees.
LEMMA PromiseStep ==
  ASSUME TypeInv, [Next]_vars,
         \/ Faults \cap {"redis", "expire"} # {}
         \/ \A t \in Tasks : record[t] = "succeeded" =>
              record'[t] = "succeeded" \/ submit'[t] = "rejected"
  PROVE  [Promise!Next]_promiseOf
<1>1. PICK t : \A u \in Tasks \ {t} : Untouched(u)
  BY OneTaskAStep
<1>2. \A u \in Tasks \ {t} : promiseOf'[u] = promiseOf[u]
  BY <1>1, UntouchedPromise
<1>3. CASE t \notin Tasks \/ promiseOf'[t] = promiseOf[t]
  <2>1. \A u \in Tasks : promiseOf'[u] = promiseOf[u]
    BY <1>2, <1>3
  <2> QED BY <2>1 DEF promiseOf
<1>4. CASE t \in Tasks /\ promiseOf'[t] # promiseOf[t]
  <2>1. promiseOf' = [promiseOf EXCEPT ![t] = promiseOf'[t]]
    <3>1. /\ promiseOf = [u \in Tasks |-> promiseOf[u]]
          /\ promiseOf' = [u \in Tasks |-> promiseOf'[u]]
      BY DEF promiseOf
    <3> HIDE DEF promiseOf
    <3> QED BY <1>2, <1>4, <3>1
  <2>2. LET p == promiseOf[t]  q == promiseOf'[t]
        IN  \/ p = "new" /\ q = "open"
            \/ p \in {"new", "open", "dead"} /\ q = "answered"
            \/ p \in {"new", "open"} /\ q = "dead"
            \/ p # "refused" /\ q = "refused"
            \/ /\ Faults \cap {"redis", "expire"} # {}
               /\ p = "answered"
               /\ q \in {"new", "open", "dead"}
    BY <1>4, PromiseMoves
  <2>3. \/ Promise!Accept(t) \/ Promise!Answer(t) \/ Promise!GiveUp(t)
        \/ Promise!Refuse(t) \/ Promise!Reopen(t)
    <3> HIDE DEF promiseOf
    <3> QED BY <2>1, <2>2 DEF Promise!Accept, Promise!Answer, Promise!GiveUp,
                              Promise!Refuse, Promise!Reopen, Promise!Becomes
  <2> QED BY <1>4, <2>3 DEF Promise!Next
<1> QED BY <1>3, <1>4

\* The pipeline implements TaskPromise for every number of tasks, processes
\* and retries: under crashes, dropped connections and lost or doubtful
\* publishes an answer is final, and under expiring keys or failing Redis
\* commands only an answered task is ever opened again.
THEOREM KeptPromise == Spec => KeepsPromise
<1>1. Init => Promise!Init
  BY DEF Init, Promise!Init, promiseOf, Copies, QueueNames
<1>2. CASE Faults \cap {"redis", "expire"} = {}
  <2>1. Spec => []StickyInv
    BY <1>2, StickyInvariance
  <2>2. StickyInv /\ [Next]_vars => [Promise!Next]_promiseOf
    BY AnswerKept, PromiseStep DEF StickyInv
  <2> QED BY <1>1, <2>1, <2>2, PTL DEF Spec, KeepsPromise, Promise!Spec
<1>3. CASE Faults \cap {"redis", "expire"} # {}
  <2>1. TypeInv /\ [Next]_vars => [Promise!Next]_promiseOf
    BY <1>3, PromiseStep
  <2> QED BY <1>1, <2>1, TypeInvariance, PTL DEF Spec, KeepsPromise, Promise!Spec
<1> QED BY <1>2, <1>3


----------------------------------------------------------------------------
(* No accepted task is lost *)

\* A local entry without a Redis key of the same instance exists only between
\* the two halves of Release, and the second half of Claim always succeeds.
LocalInv ==
  /\ \A i \in Instances : \A t \in local[i] :
       claim[t] = i \/ (event[i].task = t /\ pc[i] = "releaseLocal")
  /\ \A i \in Instances : pc[i] = "claimLocal" => event[i].task \notin local[i]

\* While the publisher of a retry is still releasing, the retry waits.
RetryInv ==
  \A i \in Instances :
    pc[i] \in {"release", "releaseLocal"} => queue["retry"][event[i]] > 0

\* A key that makes others skip a task has a reason: the task is answered,
\* dead-lettered or worked on.
SupportInv ==
  \A t \in Tasks : claim[t] # NoOwner =>
    \/ record[t] = "succeeded"
    \/ Copies("dlq", t)
    \/ \E i \in Instances : Working(i, t)

NeverNack == \A i \in Instances : pc[i] # "nack"

CalmInv ==
  /\ TypeInv /\ OwnerInv /\ SubmittedInv
  /\ LocalInv /\ RetryInv /\ SupportInv /\ NeverNack /\ NoTaskLost

\* With no failures but dropped connections and expiring keys, Publish
\* succeeds and enqueues, and Redis answers.
LEMMA CalmPublish ==
  ASSUME Faults \subseteq {"conn", "expire"}, NEW q, NEW m, NEW ok \in BOOLEAN,
         Publish(q, m, ok)
  PROVE  ok /\ queue' = Enqueue(q, m)
BY DEF Publish, Fault

\* Adding a copy keeps all others and shows up.
LEMMA EnqueueKeeps ==
  ASSUME queue \in [QueueNames -> [Messages -> Nat]],
         NEW q \in QueueNames, NEW m \in Messages, queue' = Enqueue(q, m)
  PROVE  /\ \A r \in QueueNames, n \in Messages : queue[r][n] > 0 => queue'[r][n] > 0
         /\ \A r \in QueueNames, t \in Tasks : Copies(r, t) => Copies(r, t)'
         /\ queue'[q][m] > 0
         /\ Copies(q, m.task)'
<1>1. /\ \A r \in QueueNames, n \in Messages : queue[r][n] > 0 => queue'[r][n] > 0
      /\ queue'[q][m] > 0
  BY DEF Enqueue
<1> QED BY <1>1 DEF Copies

LEMMA RequeuedKeeps ==
  ASSUME TypeOK, NEW i \in Instances, queue' = Requeued(i)
  PROVE  /\ \A r \in QueueNames, n \in Messages : queue[r][n] > 0 => queue'[r][n] > 0
         /\ \A r \in QueueNames, t \in Tasks : Copies(r, t) => Copies(r, t)'
<1>1. CASE held[i]
  BY <1>1, EnqueueKeeps DEF Requeued, TypeOK, QueueNames
<1>2. CASE ~held[i]
  BY <1>2 DEF Requeued, Copies
<1> QED BY <1>1, <1>2

\* The local sets stay in step with the keys.
LEMMA LocalStep ==
  ASSUME Faults \subseteq {"conn", "expire"}, CalmInv, TypeInv', OwnerInv', [Next]_vars
  PROVE  LocalInv'
<1> USE DEF CalmInv, TypeInv, TypeOK
<1>1. ASSUME NEW t \in Tasks, Submission(t) PROVE LocalInv'
  BY <1>1 DEF Submission, SubmitSave, SubmitNotReady, SubmitPublish,
              SubmitMarkFailed, LocalInv
<1>2. ASSUME NEW i \in Instances, Deliver(i) PROVE LocalInv'
  <2>1. PICK m \in Messages :
          /\ event' = [event EXCEPT ![i] = m]
          /\ pc' = [pc EXCEPT ![i] = IF m.task = NoTask THEN "dlq" ELSE "claim"]
    BY <1>2 DEF Deliver, Goto
  <2>2. pc[i] = "idle" /\ UNCHANGED <<claim, local>>
    BY <1>2 DEF Deliver
  <2> QED BY <2>1, <2>2 DEF LocalInv
<1>3. ASSUME NEW i \in Instances, ClaimRedis(i) PROVE LocalInv'
  <2>1. event[i].task \in Tasks /\ pc[i] = "claim" /\ UNCHANGED <<event, local>>
    BY <1>3 DEF ClaimRedis, DecodedInv
  <2>2. \/ /\ claim[event[i].task] = NoOwner
           /\ claim' = [claim EXCEPT ![event[i].task] = i]
           /\ pc' = [pc EXCEPT ![i] = "claimLocal"]
        \/ claim' = claim /\ pc' = [pc EXCEPT ![i] = "ack"]
    BY <1>3 DEF ClaimRedis, ClaimFree, Fault, Goto
  <2>3. claim[event[i].task] = NoOwner => event[i].task \notin local[i]
    BY <2>1 DEF LocalInv
  <2> QED BY <2>1, <2>2, <2>3 DEF LocalInv
<1>4. ASSUME NEW i \in Instances, ClaimLocal(i) PROVE LocalInv'
  <2>1. event[i].task \in Tasks /\ claim[event[i].task] = i /\ event[i].task \notin local[i]
    BY <1>4 DEF ClaimLocal, DecodedInv, OwnerInv, WorkingSteps, LocalInv
  <2>2. /\ pc' = [pc EXCEPT ![i] = "start"]
        /\ local' = [local EXCEPT ![i] = @ \cup {event[i].task}]
        /\ UNCHANGED <<event, claim>>
    BY <1>4, <2>1 DEF ClaimLocal, Goto
  <2> QED BY <1>4, <2>1, <2>2 DEF ClaimLocal, LocalInv
<1>5. ASSUME NEW i \in Instances, StartRun(i) PROVE LocalInv'
  BY <1>5 DEF StartRun, Goto, LocalInv
<1>6. ASSUME NEW i \in Instances, Execute(i) PROVE LocalInv'
  BY <1>6 DEF Execute, Goto, LocalInv
<1>7. ASSUME NEW i \in Instances, SaveOutcome(i) PROVE LocalInv'
  BY <1>7 DEF SaveOutcome, AfterRun, Goto, LocalInv
<1>8. ASSUME NEW i \in Instances, PublishRetry(i) PROVE LocalInv'
  <2>1. NextAttempt(i).task = event[i].task
    BY <1>8, NextAttemptType DEF PublishRetry
  <2> QED BY <1>8, <2>1 DEF PublishRetry, Goto, LocalInv
<1>9. ASSUME NEW i \in Instances, GiveUp(i) \/ PublishDLQ(i) \/ Ack(i) \/ NackRequeue(i)
      PROVE  LocalInv'
  BY <1>9 DEF GiveUp, PublishDLQ, Ack, NackRequeue, Goto, LocalInv
<1>10. ASSUME NEW i \in Instances, ReleaseRedis(i) PROVE LocalInv'
  <2>1. event[i].task \in Tasks /\ claim[event[i].task] = i
    BY <1>10 DEF ReleaseRedis, DecodedInv, OwnerInv, WorkingSteps
  <2>2. /\ claim' = [claim EXCEPT ![event[i].task] = NoOwner]
        /\ pc' = [pc EXCEPT ![i] = "releaseLocal"]
        /\ UNCHANGED <<event, local>>
    BY <1>10 DEF ReleaseRedis, ClaimDeleted, Fault, Goto
  <2> QED BY <1>10, <2>1, <2>2 DEF ReleaseRedis, LocalInv
<1>11. ASSUME NEW i \in Instances, ReleaseLocal(i) PROVE LocalInv'
  BY <1>11 DEF ReleaseLocal, Goto, LocalInv
<1>12. ASSUME NEW m \in Messages, RetryExpire(m) PROVE LocalInv'
  BY <1>12 DEF RetryExpire, LocalInv
<1>13. ASSUME NEW t \in Tasks, ExpireClaim(t) PROVE LocalInv'
  BY <1>13 DEF ExpireClaim, LocalInv
<1>14. ASSUME NEW i \in Instances, NEW t \in Tasks, ForgetLocal(i, t)
       PROVE  LocalInv'
  BY <1>14 DEF ForgetLocal, LocalInv
<1>15. ASSUME NEW i \in Instances, DropConnection(i) PROVE LocalInv'
  BY <1>15 DEF DropConnection, LocalInv
<1>16. CASE UNCHANGED vars
  BY <1>16 DEF vars, LocalInv
<1> QED
  BY <1>1, <1>2, <1>3, <1>4, <1>5, <1>6, <1>7, <1>8, <1>9, <1>10, <1>11, <1>12,
     <1>13, <1>14, <1>15, <1>16 DEF Next, Handler, Crash, Fault


\* What the last three parts of the invariant say after a step.
RestInv == RetryInv /\ SupportInv /\ NeverNack /\ NoTaskLost

\* A step that keeps keys, messages and submissions, and moves handler i
\* between working steps, preserves the rest of the invariant whatever it
\* writes into the record of i's task.
LEMMA WorkStep ==
  ASSUME CalmInv, NEW i \in Instances, NEW step \in WorkingSteps \ {"nack", "release"},
         pc[i] \in WorkingSteps \ {"release"}, event[i].task \in Tasks,
         pc' = [pc EXCEPT ![i] = step],
         \A t \in Tasks : t # event[i].task => record'[t] = record[t],
         UNCHANGED <<submit, queue, event, claim>>
  PROVE  RestInv'
<1> USE DEF CalmInv, TypeInv, TypeOK
<1>1. RetryInv' /\ NeverNack'
  BY DEF RetryInv, NeverNack, WorkingSteps
<1>2. \A t \in Tasks : (\E j \in Instances : Working(j, t)) =>
                       (\E j \in Instances : Working(j, t)')
  BY DEF Working
<1>3. Working(i, event[i].task)'
  BY DEF Working
<1>4. SupportInv'
  BY <1>2, <1>3 DEF SupportInv, Copies
<1>5. ASSUME NEW t \in Tasks, submit[t] = "submitted" PROVE Alive(t)'
  <2>1. CASE t = event[i].task
    BY <1>3, <2>1 DEF Alive, Working
  <2>2. CASE t # event[i].task
    BY <1>5, <2>2 DEF NoTaskLost, Alive, Copies
  <2> QED BY <2>1, <2>2
<1> QED BY <1>1, <1>4, <1>5 DEF RestInv, NoTaskLost

\* Every step preserves the rest of the invariant.
LEMMA RestStep ==
  ASSUME Faults \subseteq {"conn", "expire"}, CalmInv, TypeInv', SubmittedInv',
         [Next]_vars
  PROVE  RestInv'
<1> USE DEF CalmInv, TypeInv, TypeOK
<1>0. "redis" \notin Faults
  OBVIOUS
<1>1. ASSUME NEW t \in Tasks, SubmitSave(t) \/ SubmitMarkFailed(t) PROVE RestInv'
  <2>1. /\ submit[t] # "submitted" /\ submit'[t] # "submitted"
        /\ \A u \in Tasks : u # t => record'[u] = record[u] /\ submit'[u] = submit[u]
        /\ UNCHANGED <<queue, pc, event, claim>>
    BY <1>1 DEF SubmitSave, SubmitMarkFailed, SaveRecord
  <2>2. claim[t] = NoOwner
    BY <2>1 DEF SubmittedInv, Published
  <2> QED BY <2>1, <2>2 DEF RestInv, RetryInv, SupportInv, NeverNack, NoTaskLost,
                            Alive, Copies, Working
<1>2. ASSUME NEW t \in Tasks, SubmitNotReady(t) PROVE RestInv'
  <2>1. /\ submit'[t] # "submitted"
        /\ \A u \in Tasks : u # t => submit'[u] = submit[u]
        /\ UNCHANGED <<record, queue, pc, event, claim>>
    BY <1>2 DEF SubmitNotReady
  <2>2. RetryInv' /\ SupportInv' /\ NeverNack'
    BY <2>1 DEF RetryInv, SupportInv, NeverNack, Copies, Working
  <2>3. NoTaskLost'
    BY <2>1 DEF NoTaskLost, Alive, Copies
  <2> QED BY <2>2, <2>3 DEF RestInv
<1>3. ASSUME NEW t \in Tasks, SubmitPublish(t) PROVE RestInv'
  <2> DEFINE m == [task |-> t, attempt |-> 0]
  <2>0. m \in Messages /\ m.task = t
    BY MessageLemma
  <2> HIDE DEF m
  <2>1. /\ queue' = Enqueue("main", m)
        /\ submit' = [submit EXCEPT ![t] = "submitted"]
        /\ UNCHANGED <<record, pc, event, claim>>
    <3>1. PICK ok \in BOOLEAN :
            /\ Publish("main", m, ok)
            /\ submit' = [submit EXCEPT ![t] = IF ok THEN "submitted" ELSE "failing"]
      BY <1>3 DEF SubmitPublish, m
    <3>2. ok /\ queue' = Enqueue("main", m)
      BY <3>1, CalmPublish
    <3> QED BY <1>3, <3>1, <3>2 DEF SubmitPublish
  <2>2. /\ \A r \in QueueNames, n \in Messages : queue[r][n] > 0 => queue'[r][n] > 0
        /\ \A r \in QueueNames, u \in Tasks : Copies(r, u) => Copies(r, u)'
        /\ Copies("main", t)'
    BY <2>0, <2>1, EnqueueKeeps DEF QueueNames
  <2>3. RetryInv' /\ NeverNack'
    BY <2>1, <2>2 DEF RetryInv, NeverNack, QueueNames
  <2>4. SupportInv'
    BY <2>1, <2>2 DEF SupportInv, Working, QueueNames
  <2>5. NoTaskLost'
    BY <2>1, <2>2 DEF NoTaskLost, Alive, QueueNames
  <2> QED BY <2>3, <2>4, <2>5 DEF RestInv
<1>4. ASSUME NEW i \in Instances, Deliver(i) PROVE RestInv'
  <2>1. PICK m \in Messages :
          /\ queue["main"][m] > 0
          /\ queue' = [queue EXCEPT !["main"][m] = @ - 1]
          /\ event' = [event EXCEPT ![i] = m]
          /\ pc' = [pc EXCEPT ![i] = IF m.task = NoTask THEN "dlq" ELSE "claim"]
    BY <1>4 DEF Deliver, Goto
  <2>2. pc[i] = "idle" /\ UNCHANGED <<record, submit, claim>>
    BY <1>4 DEF Deliver
  <2>3. \A n \in Messages : /\ queue'["retry"][n] = queue["retry"][n]
                            /\ queue'["dlq"][n] = queue["dlq"][n]
                            /\ n # m => queue'["main"][n] = queue["main"][n]
    BY <2>1 DEF QueueNames
  <2>4. RetryInv' /\ NeverNack'
    BY <2>1, <2>2, <2>3 DEF RetryInv, NeverNack
  <2>5. SupportInv'
    <3>1. \A t \in Tasks, j \in Instances : Working(j, t) => Working(j, t)'
      BY <2>1, <2>2 DEF Working, WorkingSteps
    <3>2. \A t \in Tasks : Copies("dlq", t) => Copies("dlq", t)'
      BY <2>3 DEF Copies
    <3> QED BY <2>2, <3>1, <3>2 DEF SupportInv
  <2>6. ASSUME NEW t \in Tasks, submit[t] = "submitted" PROVE Alive(t)'
    <3>1. CASE t = m.task
      <4>1. pc'[i] = "claim" /\ event'[i].task = t
        BY <2>1, <3>1
      <4> QED BY <4>1 DEF Alive
    <3>2. CASE t # m.task
      <4>1. \A q \in QueueNames : Copies(q, t) => Copies(q, t)'
        BY <2>3, <3>2 DEF Copies, QueueNames
      <4>2. \A j \in Instances :
              event[j].task = t /\ pc[j] \in WorkingSteps \cup {"claim"}
              => event'[j].task = t /\ pc'[j] \in WorkingSteps \cup {"claim"}
        BY <2>1, <2>2 DEF WorkingSteps
      <4> QED BY <2>2, <2>6, <4>1, <4>2 DEF NoTaskLost, Alive
    <3> QED BY <3>1, <3>2
  <2> QED BY <2>2, <2>4, <2>5, <2>6 DEF RestInv, NoTaskLost
<1>5. ASSUME NEW i \in Instances, ClaimRedis(i) PROVE RestInv'
  <2> DEFINE t == event[i].task
  <2>1. t \in Tasks /\ pc[i] = "claim" /\ UNCHANGED <<record, submit, queue, event>>
    BY <1>5 DEF ClaimRedis, DecodedInv
  <2>2. CASE /\ claim[t] = NoOwner
             /\ claim' = [claim EXCEPT ![t] = i]
             /\ pc' = [pc EXCEPT ![i] = "claimLocal"]
    <3>1. RetryInv' /\ NeverNack'
      BY <2>1, <2>2 DEF RetryInv, NeverNack
    <3>2. \A u \in Tasks, j \in Instances : Working(j, u) => Working(j, u)'
      BY <2>1, <2>2 DEF Working, WorkingSteps
    <3>3. \A u \in Tasks, q \in QueueNames : Copies(q, u) => Copies(q, u)'
      BY <2>1 DEF Copies
    <3>4. Working(i, t)'
      BY <2>1, <2>2 DEF Working, WorkingSteps
    <3>5. SupportInv'
      BY <2>1, <2>2, <3>2, <3>3, <3>4 DEF SupportInv, QueueNames
    <3>6. \A u \in Tasks, j \in Instances :
            event[j].task = u /\ pc[j] \in WorkingSteps \cup {"claim"}
            => event'[j].task = u /\ pc'[j] \in WorkingSteps \cup {"claim"}
      BY <2>1, <2>2 DEF WorkingSteps
    <3>7. NoTaskLost'
      BY <2>1, <3>3, <3>6 DEF NoTaskLost, Alive
    <3> QED BY <3>1, <3>5, <3>7 DEF RestInv
  <2>3. CASE claim[t] # NoOwner /\ claim' = claim /\ pc' = [pc EXCEPT ![i] = "ack"]
    <3>1. RetryInv' /\ NeverNack'
      BY <2>1, <2>3 DEF RetryInv, NeverNack
    <3>2. \A u \in Tasks, j \in Instances : Working(j, u) => Working(j, u)'
      BY <2>1, <2>3 DEF Working, WorkingSteps
    <3>3. \A u \in Tasks, q \in QueueNames : Copies(q, u) => Copies(q, u)'
      BY <2>1 DEF Copies
    <3>4. SupportInv'
      BY <2>1, <2>3, <3>2, <3>3 DEF SupportInv, QueueNames
    <3>5. Alive(t)'
      BY <2>1, <2>3, <3>4 DEF SupportInv, Alive, Working, QueueNames
    <3>6. \A u \in Tasks : u # t /\ submit[u] = "submitted" => Alive(u)'
      BY <2>1, <2>3, <3>3 DEF NoTaskLost, Alive
    <3> QED BY <2>1, <3>1, <3>4, <3>5, <3>6 DEF RestInv, NoTaskLost
  <2> QED BY <1>5, <2>2, <2>3 DEF ClaimRedis, ClaimFree, Fault, Goto
<1>6. ASSUME NEW i \in Instances, ClaimLocal(i) PROVE RestInv'
  <2>1. event[i].task \in Tasks /\ event[i].task \notin local[i]
    BY <1>6 DEF ClaimLocal, DecodedInv, LocalInv
  <2>2. pc[i] = "claimLocal" /\ pc' = [pc EXCEPT ![i] = "start"]
    BY <1>6, <2>1 DEF ClaimLocal, Goto
  <2>3. UNCHANGED <<record, submit, queue, event, claim>>
    BY <1>6 DEF ClaimLocal
  <2> QED BY <2>1, <2>2, <2>3, WorkStep DEF WorkingSteps
<1>7. ASSUME NEW i \in Instances, StartRun(i) PROVE RestInv'
  <2>1. event[i].task \in Tasks
    BY <1>7 DEF StartRun, DecodedInv
  <2>2. PICK ok \in BOOLEAN :
          /\ SaveRecord(event[i].task, "running", ok)
          /\ pc' = [pc EXCEPT ![i] = IF ok THEN "exec" ELSE "failed"]
    BY <1>7 DEF StartRun, Goto
  <2>3. ok /\ record' = [record EXCEPT ![event[i].task] = "running"]
    BY <1>0, <2>2, SavedExactly
  <2>4. pc[i] = "start" /\ UNCHANGED <<submit, queue, event, claim>>
    BY <1>7 DEF StartRun
  <2> QED BY <2>1, <2>2, <2>3, <2>4, WorkStep DEF WorkingSteps
<1>8. ASSUME NEW i \in Instances, Execute(i) PROVE RestInv'
  <2>1. event[i].task \in Tasks
    BY <1>8 DEF Execute, DecodedInv
  <2>2. PICK step \in {"saveOk", "saveErr"} : pc' = [pc EXCEPT ![i] = step]
    BY <1>8 DEF Execute, Goto
  <2>3. pc[i] = "exec" /\ UNCHANGED <<record, submit, queue, event, claim>>
    BY <1>8 DEF Execute
  <2> QED BY <2>1, <2>2, <2>3, WorkStep DEF WorkingSteps
<1>9. ASSUME NEW i \in Instances, SaveOutcome(i) PROVE RestInv'
  <2> DEFINE t == event[i].task
  <2>1. /\ pc[i] \in {"saveOk", "saveErr"}
        /\ UNCHANGED <<submit, queue, event, claim>>
    BY <1>9 DEF SaveOutcome
  <2>2. t \in Tasks
    BY <2>1 DEF DecodedInv
  <2>3. PICK answered \in BOOLEAN, ok \in BOOLEAN :
          /\ SaveRecord(t, OutcomeStatus(answered), ok)
          /\ pc' = [pc EXCEPT ![i] = AfterRun(answered, ok)]
    BY <1>9 DEF SaveOutcome, Goto
  <2>4. ok /\ record' = [record EXCEPT ![t] = OutcomeStatus(answered)]
    BY <1>0, <2>3, SavedExactly
  <2>5. CASE ~answered
    <3>1. pc' = [pc EXCEPT ![i] = "failed"]
      BY <2>3, <2>5 DEF AfterRun
    <3> QED BY <2>1, <2>2, <2>4, <3>1, WorkStep DEF WorkingSteps
  <2>6. CASE answered
    <3>1. record' = [record EXCEPT ![t] = "succeeded"]
      BY <2>4, <2>6 DEF OutcomeStatus
    <3>2. pc' = [pc EXCEPT ![i] = "ack"]
      BY <2>3, <2>4, <2>6 DEF AfterRun
    <3>3. RetryInv' /\ NeverNack'
      BY <2>1, <3>2 DEF RetryInv, NeverNack
    <3>4. \A u \in Tasks, q \in QueueNames : Copies(q, u) => Copies(q, u)'
      BY <2>1 DEF Copies
    <3>5. \A u \in Tasks, j \in Instances : u # t /\ Working(j, u) => Working(j, u)'
      BY <2>1, <3>2 DEF Working
    <3>6. SupportInv'
      BY <2>1, <2>2, <3>1, <3>4, <3>5 DEF SupportInv, QueueNames
    <3>7. NoTaskLost'
      BY <2>1, <2>2, <3>1, <3>2, <3>4 DEF NoTaskLost, Alive
    <3> QED BY <3>3, <3>6, <3>7 DEF RestInv
  <2> QED BY <2>5, <2>6
<1>10. ASSUME NEW i \in Instances, PublishRetry(i) PROVE RestInv'
  <2> DEFINE m == NextAttempt(i)
  <2>0. m \in Messages /\ m.task = event[i].task /\ event[i].task \in Tasks
    BY <1>10, NextAttemptType DEF PublishRetry, DecodedInv
  <2> HIDE DEF m
  <2>1. /\ queue' = Enqueue("retry", m)
        /\ event' = [event EXCEPT ![i] = m]
        /\ pc' = [pc EXCEPT ![i] = "release"]
        /\ pc[i] = "failed"
        /\ UNCHANGED <<record, submit, claim>>
    <3>1. PICK ok \in BOOLEAN :
            /\ Publish("retry", m, ok)
            /\ pc' = [pc EXCEPT ![i] = IF ok THEN "release" ELSE "dlq"]
      BY <1>10 DEF PublishRetry, Goto, m
    <3>2. ok /\ queue' = Enqueue("retry", m)
      BY <3>1, CalmPublish
    <3> QED BY <1>10, <3>1, <3>2 DEF PublishRetry, m
  <2>2. /\ \A r \in QueueNames, n \in Messages : queue[r][n] > 0 => queue'[r][n] > 0
        /\ \A r \in QueueNames, u \in Tasks : Copies(r, u) => Copies(r, u)'
        /\ queue'["retry"][m] > 0
    BY <2>0, <2>1, EnqueueKeeps DEF QueueNames
  <2>3. RetryInv' /\ NeverNack'
    BY <2>1, <2>2 DEF RetryInv, NeverNack, QueueNames
  <2>4. \A u \in Tasks, j \in Instances : Working(j, u) => Working(j, u)'
    BY <2>0, <2>1 DEF Working, WorkingSteps
  <2>5. SupportInv'
    BY <2>1, <2>2, <2>4 DEF SupportInv, QueueNames
  <2>6. NoTaskLost'
    <3>1. \A u \in Tasks, j \in Instances :
            event[j].task = u /\ pc[j] \in WorkingSteps \cup {"claim"}
            => event'[j].task = u /\ pc'[j] \in WorkingSteps \cup {"claim"}
      BY <2>0, <2>1 DEF WorkingSteps
    <3> QED BY <2>1, <2>2, <3>1 DEF NoTaskLost, Alive
  <2> QED BY <2>3, <2>5, <2>6 DEF RestInv
<1>11. ASSUME NEW i \in Instances, GiveUp(i) PROVE RestInv'
  <2>1. event[i].task \in Tasks
    BY <1>11 DEF GiveUp, DecodedInv
  <2> QED BY <1>11, <2>1, WorkStep DEF GiveUp, Goto, WorkingSteps
<1>12. ASSUME NEW i \in Instances, PublishDLQ(i) PROVE RestInv'
  <2>1. /\ queue' = Enqueue("dlq", event[i])
        /\ pc' = [pc EXCEPT ![i] = "ack"]
        /\ pc[i] = "dlq"
        /\ UNCHANGED <<record, submit, event, claim>>
    <3>1. PICK ok \in BOOLEAN :
            /\ Publish("dlq", event[i], ok)
            /\ pc' = [pc EXCEPT ![i] = IF ok THEN "ack" ELSE "nack"]
      BY <1>12 DEF PublishDLQ, Goto
    <3>2. ok /\ queue' = Enqueue("dlq", event[i])
      BY <3>1, CalmPublish
    <3> QED BY <1>12, <3>1, <3>2 DEF PublishDLQ
  <2>2. /\ \A r \in QueueNames, n \in Messages : queue[r][n] > 0 => queue'[r][n] > 0
        /\ \A r \in QueueNames, u \in Tasks : Copies(r, u) => Copies(r, u)'
        /\ Copies("dlq", event[i].task)'
    BY <2>1, EnqueueKeeps DEF QueueNames
  <2>3. RetryInv' /\ NeverNack'
    BY <2>1, <2>2 DEF RetryInv, NeverNack, QueueNames
  <2>4. \A u \in Tasks, j \in Instances :
          u # event[i].task /\ Working(j, u) => Working(j, u)'
    BY <2>1 DEF Working
  <2>5. SupportInv'
    BY <2>1, <2>2, <2>4 DEF SupportInv, QueueNames
  <2>6. NoTaskLost'
    BY <2>1, <2>2 DEF NoTaskLost, Alive, QueueNames
  <2> QED BY <2>3, <2>5, <2>6 DEF RestInv
<1>13. ASSUME NEW i \in Instances, ReleaseRedis(i) PROVE RestInv'
  <2> DEFINE t == event[i].task
  <2>1. /\ claim' = [claim EXCEPT ![t] = NoOwner]
        /\ pc' = [pc EXCEPT ![i] = "releaseLocal"]
        /\ pc[i] = "release"
        /\ UNCHANGED <<record, submit, queue, event>>
    BY <1>13 DEF ReleaseRedis, ClaimDeleted, Fault, Goto
  <2>2. RetryInv' /\ NeverNack'
    BY <2>1 DEF RetryInv, NeverNack
  <2>3. Copies("retry", t)'
    BY <2>1 DEF RetryInv, Copies
  <2>4. \A u \in Tasks, q \in QueueNames : Copies(q, u) => Copies(q, u)'
    BY <2>1 DEF Copies
  <2>5. \A u \in Tasks, j \in Instances : u # t /\ Working(j, u) => Working(j, u)'
    BY <2>1 DEF Working
  <2>6. SupportInv'
    BY <2>1, <2>4, <2>5 DEF SupportInv, QueueNames
  <2>7. NoTaskLost'
    BY <2>1, <2>3, <2>4 DEF NoTaskLost, Alive, QueueNames
  <2> QED BY <2>2, <2>6, <2>7 DEF RestInv
<1>14. ASSUME NEW i \in Instances, ReleaseLocal(i) \/ Ack(i) PROVE RestInv'
  <2>1. PICK step \in {"ack", "idle"} : pc' = [pc EXCEPT ![i] = step]
    BY <1>14 DEF ReleaseLocal, Ack, Goto
  <2>2. /\ pc[i] \in {"releaseLocal", "ack"}
        /\ UNCHANGED <<record, submit, queue, event, claim>>
    BY <1>14 DEF ReleaseLocal, Ack
  <2>3. RetryInv' /\ NeverNack'
    BY <2>1, <2>2 DEF RetryInv, NeverNack
  <2>4. \A u \in Tasks, j \in Instances : Working(j, u) => Working(j, u)'
    BY <2>1, <2>2 DEF Working, WorkingSteps
  <2>5. \A u \in Tasks, q \in QueueNames : Copies(q, u) => Copies(q, u)'
    BY <2>2 DEF Copies
  <2>6. SupportInv'
    BY <2>2, <2>4, <2>5 DEF SupportInv, QueueNames
  <2>7. \A u \in Tasks, j \in Instances :
          event[j].task = u /\ pc[j] \in WorkingSteps \cup {"claim"}
          => event'[j].task = u /\ pc'[j] \in WorkingSteps \cup {"claim"}
    BY <2>1, <2>2 DEF WorkingSteps
  <2>8. NoTaskLost'
    BY <2>2, <2>5, <2>7 DEF NoTaskLost, Alive
  <2> QED BY <2>3, <2>6, <2>8 DEF RestInv
<1>15. ASSUME NEW i \in Instances, NackRequeue(i) PROVE RestInv'
  BY <1>15 DEF NackRequeue, NeverNack
<1>16. ASSUME NEW m \in Messages, RetryExpire(m) PROVE RestInv'
  <2>1. /\ \A i \in Instances : pc[i] \in {"release", "releaseLocal"} => event[i] # m
        /\ queue' = [queue EXCEPT !["retry"][m] = @ - 1, !["main"][m] = @ + 1]
        /\ UNCHANGED <<record, submit, pc, event, claim>>
    BY <1>16 DEF RetryExpire
  <2>2. \A n \in Messages : /\ n # m => queue'["retry"][n] = queue["retry"][n]
                            /\ queue'["dlq"][n] = queue["dlq"][n]
                            /\ queue["main"][n] > 0 => queue'["main"][n] > 0
                            /\ queue'["main"][m] > 0
    BY <2>1 DEF QueueNames
  <2>3. RetryInv' /\ NeverNack'
    BY <2>1, <2>2 DEF RetryInv, NeverNack
  <2>4. SupportInv'
    <3>1. \A u \in Tasks : Copies("dlq", u) => Copies("dlq", u)'
      BY <2>2 DEF Copies
    <3> QED BY <2>1, <3>1 DEF SupportInv, Working
  <2>5. \A u \in Tasks : (\E q \in QueueNames : Copies(q, u)) =>
                         (\E q \in QueueNames : Copies(q, u)')
    BY <2>2 DEF Copies, QueueNames
  <2>6. NoTaskLost'
    BY <2>1, <2>5 DEF NoTaskLost, Alive
  <2> QED BY <2>3, <2>4, <2>6 DEF RestInv
<1>17. ASSUME NEW t \in Tasks, ExpireClaim(t) PROVE RestInv'
  BY <1>17 DEF ExpireClaim, RestInv, RetryInv, SupportInv, NeverNack, NoTaskLost,
               Alive, Copies, Working
<1>18. ASSUME NEW i \in Instances, NEW t \in Tasks, ForgetLocal(i, t)
       PROVE  RestInv'
  BY <1>18 DEF ForgetLocal, RestInv, RetryInv, SupportInv, NeverNack, NoTaskLost,
               Alive, Copies, Working
<1>19. ASSUME NEW i \in Instances, DropConnection(i) PROVE RestInv'
  <2>1. queue' = Requeued(i) /\ UNCHANGED <<record, submit, pc, event, claim>>
    BY <1>19 DEF DropConnection
  <2>2. /\ \A r \in QueueNames, n \in Messages : queue[r][n] > 0 => queue'[r][n] > 0
        /\ \A r \in QueueNames, u \in Tasks : Copies(r, u) => Copies(r, u)'
    BY <2>1, RequeuedKeeps
  <2> QED BY <2>1, <2>2 DEF RestInv, RetryInv, SupportInv, NeverNack, NoTaskLost,
                            Alive, Working, QueueNames
<1>20. CASE UNCHANGED vars
  BY <1>20 DEF vars, RestInv, RetryInv, SupportInv, NeverNack, NoTaskLost, Alive,
               Copies, Working
<1> QED
  BY <1>1, <1>2, <1>3, <1>4, <1>5, <1>6, <1>7, <1>8, <1>9, <1>10, <1>11, <1>12,
     <1>13, <1>14, <1>15, <1>16, <1>17, <1>18, <1>19, <1>20
     DEF Next, Submission, Handler, Crash, Fault

\* No accepted task is lost, for any number of tasks, instances, retries and
\* dropped connections, when processes do not crash, Redis answers, publishes
\* reach the broker and a handler releases its claim within the retry delay.
THEOREM NothingLost ==
  ASSUME Faults \subseteq {"conn", "expire"}
  PROVE  Spec => []NoTaskLost
<1>0. "redis" \notin Faults /\ "ambiguous" \notin Faults
  OBVIOUS
<1> DEFINE Rest == OwnerInv /\ SubmittedInv /\ LocalInv /\ RestInv
<1>1. Init => Rest
  BY MessageLemma DEF Init, OwnerInv, SubmittedInv, LocalInv, RestInv, RetryInv,
                      SupportInv, NeverNack, NoTaskLost, WorkingSteps,
                      QueueNames, MalformedBody
<1>2. TypeInv /\ TypeInv' /\ Rest /\ [Next]_vars => Rest'
  <2> SUFFICES ASSUME TypeInv, TypeInv', Rest, [Next]_vars PROVE Rest'
    OBVIOUS
  <2>0. CalmInv
    BY DEF CalmInv, RestInv
  <2>1. OwnerInv'
    BY <1>0, OwnerStep
  <2>2. SubmittedInv'
    BY <1>0, SubmittedStep
  <2>3. LocalInv'
    BY <2>0, <2>1, LocalStep
  <2>4. RestInv'
    BY <2>0, <2>2, RestStep
  <2> QED BY <2>1, <2>2, <2>3, <2>4
<1>3. Rest => NoTaskLost
  BY DEF RestInv
<1> HIDE DEF Rest
<1> QED BY <1>1, <1>2, <1>3, TypeInvariance, PTL DEF Spec

----------------------------------------------------------------------------
(* Running records *)

LEMMA RunnerStep ==
  ASSUME TypeInv, RunningHasRunner, [Next]_vars,
         "crash" \notin Faults, "redis" \notin Faults
  PROVE  RunningHasRunner'
<1> USE DEF ExecutingSteps, Goto
\* Records that say running still do, or not, and their runners run on.
<1>1. ASSUME \A t \in Tasks : record'[t] = "running" => record[t] = "running",
             \A i \in Instances : pc[i] \in ExecutingSteps =>
               pc'[i] \in ExecutingSteps /\ event'[i] = event[i]
      PROVE  RunningHasRunner'
  BY <1>1 DEF RunningHasRunner
<1>2. ASSUME NEW t \in Tasks, Submission(t) PROVE RunningHasRunner'
  <2>1. UNCHANGED <<pc, event>>
    BY <1>2 DEF Submission, SubmitSave, SubmitNotReady, SubmitPublish,
                SubmitMarkFailed
  <2>2. \A u \in Tasks : record'[u] = "running" => record[u] = "running"
    BY <1>2 DEF Submission, SubmitSave, SubmitNotReady, SubmitPublish,
                SubmitMarkFailed, SaveRecord, TypeInv, TypeOK
  <2> QED BY <1>1, <2>1, <2>2
<1>3. ASSUME NEW i \in Instances, StartRun(i) PROVE RunningHasRunner'
  <2>1. /\ record' = [record EXCEPT ![event[i].task] = "running"]
        /\ pc' = [pc EXCEPT ![i] = "exec"] /\ event' = event
    BY <1>3 DEF StartRun, SaveRecord, Fault
  <2>2. /\ pc'[i] = "exec" /\ pc[i] = "start"
        /\ \A j \in Instances : j # i => pc'[j] = pc[j]
    BY <1>3, <2>1 DEF StartRun, TypeInv, TypeOK
  <2>3. \A t \in Tasks : record'[t] = "running" =>
          record[t] = "running" \/ event[i].task = t
    BY <2>1 DEF TypeInv, TypeOK
  <2> QED BY <2>1, <2>2, <2>3 DEF RunningHasRunner
<1>4. ASSUME NEW i \in Instances, Execute(i) PROVE RunningHasRunner'
  <2>1. UNCHANGED <<record, event>>
    BY <1>4 DEF Execute
  <2>2. \A j \in Instances : pc[j] \in ExecutingSteps => pc'[j] \in ExecutingSteps
    BY <1>4 DEF Execute, TypeInv, TypeOK
  <2> QED BY <1>1, <2>1, <2>2
<1>5. ASSUME NEW i \in Instances, SaveOutcome(i) PROVE RunningHasRunner'
  <2>1. PICK status \in {"succeeded", "failed"} :
          record' = [record EXCEPT ![event[i].task] = status]
    BY <1>5 DEF SaveOutcome, SaveRecord, OutcomeStatus, Fault
  <2>2. event' = event /\ \A j \in Instances : j # i => pc'[j] = pc[j]
    BY <1>5 DEF SaveOutcome, TypeInv, TypeOK
  <2>3. \A t \in Tasks : record'[t] = "running" =>
          record[t] = "running" /\ event[i].task # t
    BY <2>1 DEF TypeInv, TypeOK
  <2> QED BY <2>2, <2>3 DEF RunningHasRunner
<1>6. ASSUME NEW i \in Instances,
             \/ Deliver(i) \/ ClaimRedis(i) \/ ClaimLocal(i) \/ PublishRetry(i)
             \/ GiveUp(i) \/ PublishDLQ(i) \/ ReleaseRedis(i)
             \/ ReleaseLocal(i) \/ Ack(i) \/ NackRequeue(i)
      PROVE  RunningHasRunner'
  <2>1. /\ pc[i] \notin ExecutingSteps /\ record' = record
        /\ \A j \in Instances : j # i => pc'[j] = pc[j] /\ event'[j] = event[j]
    BY <1>6 DEF Deliver, ClaimRedis, ClaimLocal, PublishRetry, GiveUp, PublishDLQ,
                ReleaseRedis, ReleaseLocal, Ack, NackRequeue, TypeInv, TypeOK
  <2> QED BY <1>1, <2>1
<1>7. ASSUME UNCHANGED <<record, pc, event>> PROVE RunningHasRunner'
  BY <1>1, <1>7
<1>8. ASSUME NEW t \in Tasks, ExpireClaim(t) \/ \E i \in Instances : ForgetLocal(i, t)
      PROVE  UNCHANGED <<record, pc, event>>
  BY <1>8 DEF ExpireClaim, ForgetLocal
<1>9. ASSUME NEW i \in Instances, DropConnection(i) PROVE UNCHANGED <<record, pc, event>>
  BY <1>9 DEF DropConnection
<1>10. ASSUME NEW m \in Messages, RetryExpire(m) PROVE UNCHANGED <<record, pc, event>>
  BY <1>10 DEF RetryExpire
<1>11. \A i \in Instances : ~Crash(i)
  BY DEF Crash, Fault
<1>12. UNCHANGED vars => UNCHANGED <<record, pc, event>>
  BY DEF vars
<1> QED
  BY <1>2, <1>3, <1>4, <1>5, <1>6, <1>7, <1>8, <1>9, <1>10, <1>11, <1>12
     DEF Next, Handler

\* Pollers never wait for a task nobody runs, as long as no process dies in
\* the middle of a run and Redis saves its outcome; whatever becomes of
\* connections, publishes, claims and retries.
THEOREM RunningIsRun ==
  ASSUME "crash" \notin Faults, "redis" \notin Faults
  PROVE  Spec => []RunningHasRunner
<1>1. Init => RunningHasRunner
  BY DEF Init, RunningHasRunner
<1>2. TypeInv /\ RunningHasRunner /\ [Next]_vars => RunningHasRunner'
  BY RunnerStep
<1> QED BY <1>1, <1>2, TypeInvariance, PTL DEF Spec

----------------------------------------------------------------------------
(* The retry budget *)

\* Between the delivery of a task and the decision what becomes of it.
CarryingSteps ==
  {"claim", "claimLocal", "start", "exec", "saveOk", "saveErr", "failed"}

Carrying(i, t) == event[i].task = t /\ pc[i] \in CarryingSteps

Waiting(m) == queue["main"][m] > 0 \/ queue["retry"][m] > 0

\* The executor may have been called for the attempt at hand.
Called(i) == IF pc[i] \in {"saveOk", "saveErr", "failed"} THEN 1 ELSE 0

\* A task is in one place at a time: one message waits for it, or one handler
\* carries it.
OneToken ==
  /\ \A m \in Messages :
       m.task \in Tasks => queue["main"][m] + queue["retry"][m] <= 1
  /\ \A m, n \in Messages :
       m.task \in Tasks /\ m.task = n.task /\ Waiting(m) /\ Waiting(n) => m = n
  /\ \A m \in Messages, i \in Instances :
       m.task \in Tasks /\ Waiting(m) => ~Carrying(i, m.task)
  /\ \A i, j \in Instances, t \in Tasks :
       Carrying(i, t) /\ Carrying(j, t) => i = j

\* The executor was called no more often than the attempt the task is at says.
AttemptsCount ==
  /\ \A m \in Messages :
       m.task \in Tasks /\ Waiting(m) => execs[m.task] <= m.attempt
  /\ \A i \in Instances, t \in Tasks :
       Carrying(i, t) => execs[t] <= event[i].attempt + Called(i)
  /\ \A t \in Tasks : execs[t] > 0 => submit[t] = "submitted"

BudgetInv == OneToken /\ AttemptsCount /\ NeverNack /\ RetryBudget

\* Copies are counted.
LEMMA Counts ==
  ASSUME TypeOK, NEW m \in Messages
  PROVE  queue["main"][m] \in Nat /\ queue["retry"][m] \in Nat
BY DEF TypeOK, QueueNames

\* Failures after which the broker does not deliver a message again.
NoReruns == Faults \cap {"crash", "conn", "publish", "ambiguous"} = {}

\* Publish then succeeds, and enqueues the message or loses it.
LEMMA SteadyPublish ==
  ASSUME NoReruns, NEW q, NEW m, NEW ok \in BOOLEAN, Publish(q, m, ok)
  PROVE  ok /\ (queue' = Enqueue(q, m) \/ queue' = queue)
BY DEF NoReruns, Publish, Fault

\* A step that moves one handler among the steps of an attempt, or lets go of
\* it, and no message, keeps the invariant.
LEMMA MoveStep ==
  ASSUME TypeInv, BudgetInv, NEW i \in Instances, NEW step \in HandlerSteps,
         pc[i] \in CarryingSteps,
         pc' = [pc EXCEPT ![i] = step],
         step \notin {"nack"},
         step \in CarryingSteps /\ pc[i] \in {"saveOk", "saveErr", "failed"}
           => step \in {"saveOk", "saveErr", "failed"},
         UNCHANGED <<submit, queue, event, execs>>
  PROVE  BudgetInv'
<1> USE DEF TypeInv, TypeOK
<1>1. \A j \in Instances, t \in Tasks : Carrying(j, t)' => Carrying(j, t)
  BY DEF Carrying
<1>2. \A j \in Instances, t \in Tasks : Carrying(j, t)' => Called(j) <= Called(j)'
  BY DEF Carrying, Called
<1>3. OneToken'
  BY <1>1 DEF BudgetInv, OneToken, Waiting
<1>4. AttemptsCount'
  <2>1. ASSUME NEW j \in Instances, NEW t \in Tasks, Carrying(j, t)'
        PROVE  execs[t] <= event[j].attempt + Called(j)'
    <3>1. execs[t] <= event[j].attempt + Called(j)
      BY <1>1, <2>1 DEF BudgetInv, AttemptsCount
    <3>2. event[j].attempt \in Nat /\ Called(j) \in Nat /\ Called(j)' \in Nat
      BY DEF Messages, Called
    <3> QED  BY <1>2, <2>1, <3>1, <3>2
  <2> QED  BY <2>1 DEF BudgetInv, AttemptsCount, Waiting
<1>5. NeverNack' /\ RetryBudget'
  BY DEF BudgetInv, NeverNack, RetryBudget
<1> QED  BY <1>3, <1>4, <1>5 DEF BudgetInv

\* A step that neither moves a message nor a handler that carries a task keeps
\* the invariant.
LEMMA RestingStep ==
  ASSUME TypeInv, BudgetInv,
         \A i \in Instances : pc'[i] # "nack",
         \A i \in Instances : pc'[i] \in CarryingSteps =>
           pc'[i] = pc[i] /\ event'[i] = event[i],
         \A m \in Messages :
           /\ queue'["main"][m] = queue["main"][m]
           /\ queue'["retry"][m] = queue["retry"][m],
         \A t \in Tasks : submit[t] = "submitted" => submit'[t] = "submitted",
         UNCHANGED execs
  PROVE  BudgetInv'
<1>1. \A j \in Instances, t \in Tasks :
        Carrying(j, t)' => Carrying(j, t) /\ Called(j)' = Called(j)
  BY DEF Carrying, Called
<1>2. \A m \in Messages : Waiting(m)' = Waiting(m)
  BY DEF Waiting
<1>3. OneToken'
  BY <1>1, <1>2 DEF BudgetInv, OneToken
<1>4. AttemptsCount'
  BY <1>1, <1>2 DEF BudgetInv, AttemptsCount, Carrying
<1> QED  BY <1>3, <1>4 DEF BudgetInv, NeverNack, RetryBudget

\* The budget's invariant is inductive.
LEMMA BudgetStep ==
  ASSUME NoReruns, TypeInv, TypeInv', SubmittedInv, BudgetInv, [Next]_vars
  PROVE  BudgetInv'
<1> USE DEF TypeInv, TypeOK
<1>0. \A i \in Instances : pc[i] # "nack"
  BY DEF BudgetInv, NeverNack
<1>1. ASSUME NEW t \in Tasks,
             SubmitSave(t) \/ SubmitNotReady(t) \/ SubmitMarkFailed(t)
      PROVE  BudgetInv'
  BY <1>0, <1>1, RestingStep DEF SubmitSave, SubmitNotReady, SubmitMarkFailed
<1>2. ASSUME NEW t \in Tasks, SubmitPublish(t) PROVE BudgetInv'
  <2> DEFINE n == [task |-> t, attempt |-> 0]
  <2>1. n \in Messages /\ n.task = t /\ n.attempt = 0
    <3>1. 0 \in 0..MaxRetries  BY RetriesAssumption
    <3> QED  BY <3>1, MessageLemma
  <2>2. /\ submit[t] = "saved" /\ submit' = [submit EXCEPT ![t] = "submitted"]
        /\ queue' = Enqueue("main", n) \/ queue' = queue
        /\ UNCHANGED <<pc, event, execs>>
    <3>1. PICK ok \in BOOLEAN :
            /\ Publish("main", n, ok)
            /\ submit' = [submit EXCEPT ![t] = IF ok THEN "submitted" ELSE "failing"]
      BY <1>2 DEF SubmitPublish
    <3>2. ok /\ (queue' = Enqueue("main", n) \/ queue' = queue)
      BY <3>1, SteadyPublish
    <3> QED  BY <1>2, <3>1, <3>2 DEF SubmitPublish
  <2> HIDE DEF n
  <2>3. ~Published(t)  BY <2>2 DEF Published
  <2>4. /\ \A m \in Messages : m.task = t => ~Waiting(m)
        /\ \A i \in Instances : ~Carrying(i, t)
        /\ execs[t] = 0
    <3>1. \A m \in Messages : m.task = t => ~Waiting(m)
      BY <2>3 DEF SubmittedInv, Waiting, QueueNames
    <3>2. ASSUME NEW i \in Instances, Carrying(i, t) PROVE FALSE
      <4>1. body[i].task = t  BY <3>2 DEF SubmittedInv, Carrying
      <4> QED  BY <2>3, <4>1 DEF SubmittedInv
    <3>3. ~(execs[t] > 0) /\ execs[t] \in Nat
      BY <2>2 DEF BudgetInv, AttemptsCount
    <3> QED  BY <3>1, <3>2, <3>3
  <2>5. CASE queue' = queue
    BY <1>0, <2>2, <2>5, RestingStep
  <2>6. CASE queue' = Enqueue("main", n)
    <3>1. \A m \in Messages :
            /\ queue'["retry"][m] = queue["retry"][m]
            /\ m # n => queue'["main"][m] = queue["main"][m]
            /\ m = n => queue'["main"][m] = queue["main"][m] + 1
      BY <2>1, <2>6 DEF Enqueue, QueueNames
    <3>2. \A m \in Messages : /\ m # n => Waiting(m)' = Waiting(m)
                              /\ queue["main"][m] \in Nat /\ queue["retry"][m] \in Nat
      BY <3>1 DEF Waiting, QueueNames
    <3>3. queue["main"][n] = 0 /\ queue["retry"][n] = 0
      BY <2>1, <2>4, Counts DEF Waiting
    <3>4. \A j \in Instances, u \in Tasks :
        Carrying(j, u)' = Carrying(j, u) /\ Called(j)' = Called(j)
      BY <2>2 DEF Carrying, Called
    <3>5. OneToken'
      <4>1. \A m \in Messages : m.task \in Tasks =>
               queue'["main"][m] + queue'["retry"][m] <= 1
        <5> SUFFICES ASSUME NEW m \in Messages, m.task \in Tasks
                     PROVE  queue'["main"][m] + queue'["retry"][m] <= 1
          OBVIOUS
        <5>1. queue["main"][m] + queue["retry"][m] <= 1  BY DEF BudgetInv, OneToken
        <5> QED  BY <3>1, <3>3, <5>1
      <4>2. \A m, k \in Messages :
               m.task \in Tasks /\ m.task = k.task /\ Waiting(m)' /\ Waiting(k)' => m = k
        BY <2>1, <2>4, <3>2 DEF BudgetInv, OneToken
      <4>3. \A m \in Messages, i \in Instances :
               m.task \in Tasks /\ Waiting(m)' => ~Carrying(i, m.task)'
        BY <2>1, <2>4, <3>2, <3>4 DEF BudgetInv, OneToken
      <4>4. \A i, j \in Instances, u \in Tasks :
               Carrying(i, u)' /\ Carrying(j, u)' => i = j
        BY <3>4 DEF BudgetInv, OneToken
      <4> QED  BY <4>1, <4>2, <4>3, <4>4 DEF OneToken
    <3>6. AttemptsCount'
      <4>1. ASSUME NEW m \in Messages, m.task \in Tasks, Waiting(m)'
            PROVE  execs'[m.task] <= m.attempt
        <5>1. m.attempt \in Nat  BY DEF Messages
        <5>2. CASE m.task = t
          BY <2>2, <2>4, <5>1, <5>2
        <5>3. CASE m.task # t
          <6>1. Waiting(m)  BY <2>1, <3>2, <4>1, <5>3
          <6> QED  BY <2>2, <4>1, <6>1 DEF BudgetInv, AttemptsCount
        <5> QED  BY <5>2, <5>3
      <4>2. \A i \in Instances, u \in Tasks :
              Carrying(i, u)' => execs'[u] <= event'[i].attempt + Called(i)'
        BY <2>2, <3>4 DEF BudgetInv, AttemptsCount
      <4>3. \A u \in Tasks : execs'[u] > 0 => submit'[u] = "submitted"
        BY <2>2 DEF BudgetInv, AttemptsCount
      <4> QED  BY <4>1, <4>2, <4>3 DEF AttemptsCount
    <3> QED  BY <2>2, <3>5, <3>6 DEF BudgetInv, NeverNack, RetryBudget
  <2> QED  BY <2>2, <2>5, <2>6
<1>3. ASSUME NEW i \in Instances, Deliver(i) PROVE BudgetInv'
  <2>1. PICK m \in Messages :
          /\ queue["main"][m] > 0
          /\ queue' = [queue EXCEPT !["main"][m] = @ - 1]
          /\ event' = [event EXCEPT ![i] = m]
          /\ pc' = [pc EXCEPT ![i] = IF m.task = NoTask THEN "dlq" ELSE "claim"]
    BY <1>3 DEF Deliver, Goto
  <2>2. UNCHANGED <<submit, execs>> /\ pc[i] = "idle"
    BY <1>3 DEF Deliver
  <2>3. \A n \in Messages :
          /\ queue'["retry"][n] = queue["retry"][n]
          /\ n # m => queue'["main"][n] = queue["main"][n]
          /\ n = m => queue'["main"][n] = queue["main"][n] - 1
          /\ queue["main"][n] \in Nat /\ queue["retry"][n] \in Nat
          /\ queue'["main"][n] \in Nat
    BY <2>1 DEF QueueNames
  <2>4. \A n \in Messages : Waiting(n)' => Waiting(n)
    BY <2>3, <2>1 DEF Waiting
  <2>5. Waiting(m)  BY <2>1 DEF Waiting
  <2>6. m.task \in Tasks => ~Waiting(m)'
    BY <2>3, <2>1 DEF Waiting, BudgetInv, OneToken
  <2>7. \A j \in Instances, u \in Tasks :
          Carrying(j, u)' => IF j = i THEN u = m.task /\ pc'[i] = "claim"
                             ELSE Carrying(j, u) /\ Called(j)' = Called(j)
                                  /\ event'[j] = event[j]
    BY <2>1, NoTaskAssumption DEF Carrying, Called, CarryingSteps
  <2>8. OneToken'
    <3>1. \A n \in Messages : n.task \in Tasks =>
             queue'["main"][n] + queue'["retry"][n] <= 1
      <4> SUFFICES ASSUME NEW n \in Messages, n.task \in Tasks
                   PROVE  queue'["main"][n] + queue'["retry"][n] <= 1
        OBVIOUS
      <4>1. queue["main"][n] + queue["retry"][n] <= 1  BY DEF BudgetInv, OneToken
      <4>2. queue'["main"][n] <= queue["main"][n]  BY <2>3
      <4> QED  BY <2>3, <4>1, <4>2
    <3>2. \A n, k \in Messages :
             n.task \in Tasks /\ n.task = k.task /\ Waiting(n)' /\ Waiting(k)' => n = k
      BY <2>4 DEF BudgetInv, OneToken
    <3>3. ASSUME NEW n \in Messages, NEW j \in Instances,
                 n.task \in Tasks, Waiting(n)', Carrying(j, n.task)'
          PROVE  FALSE
      <4>1. CASE j = i
        <5>1. n.task = m.task  BY <2>7, <3>3, <4>1
        <5>2. n = m  BY <2>4, <2>5, <3>3, <5>1 DEF BudgetInv, OneToken
        <5> QED  BY <2>6, <3>3, <5>2
      <4>2. CASE j # i
        BY <2>4, <2>7, <3>3, <4>2 DEF BudgetInv, OneToken
      <4> QED  BY <4>1, <4>2
    <3>4. ASSUME NEW j \in Instances, NEW k \in Instances, NEW u \in Tasks,
                 Carrying(j, u)', Carrying(k, u)', j # k
          PROVE  FALSE
      <4>1. CASE j # i /\ k # i
        BY <2>7, <3>4, <4>1 DEF BudgetInv, OneToken
      <4>2. CASE j = i
        <5>1. u = m.task /\ Carrying(k, u)  BY <2>7, <3>4, <4>2
        <5> QED  BY <2>5, <5>1 DEF BudgetInv, OneToken
      <4>3. CASE k = i
        <5>1. u = m.task /\ Carrying(j, u)  BY <2>7, <3>4, <4>3
        <5> QED  BY <2>5, <5>1 DEF BudgetInv, OneToken
      <4> QED  BY <4>1, <4>2, <4>3
    <3> QED  BY <3>1, <3>2, <3>3, <3>4 DEF OneToken
  <2>9. AttemptsCount'
    <3>1. \A n \in Messages : n.task \in Tasks /\ Waiting(n)' => execs'[n.task] <= n.attempt
      BY <2>2, <2>4 DEF BudgetInv, AttemptsCount
    <3>2. ASSUME NEW j \in Instances, NEW u \in Tasks, Carrying(j, u)'
          PROVE  execs'[u] <= event'[j].attempt + Called(j)'
      <4>1. CASE j = i
        <5>1. u = m.task /\ event'[i] = m /\ Called(i)' = 0
          BY <2>1, <2>7, <3>2, <4>1 DEF Called
        <5>2. execs[u] <= m.attempt  BY <2>5, <5>1 DEF BudgetInv, AttemptsCount
        <5>3. m.attempt \in Nat  BY DEF Messages
        <5> QED  BY <2>2, <4>1, <5>1, <5>2, <5>3
      <4>2. CASE j # i
        BY <2>2, <2>7, <3>2, <4>2 DEF BudgetInv, AttemptsCount
      <4> QED  BY <4>1, <4>2
    <3> QED  BY <2>2, <3>1, <3>2 DEF BudgetInv, AttemptsCount
  <2>10. NeverNack'
    BY <2>1 DEF BudgetInv, NeverNack
  <2> QED  BY <2>2, <2>8, <2>9, <2>10 DEF BudgetInv, RetryBudget
<1>4. ASSUME NEW i \in Instances,
             ClaimRedis(i) \/ ClaimLocal(i) \/ StartRun(i) \/ SaveOutcome(i) \/ GiveUp(i)
      PROVE  BudgetInv'
  <2>1. PICK step \in HandlerSteps :
          /\ pc' = [pc EXCEPT ![i] = step]
          /\ step \in {"claimLocal", "start", "exec", "failed", "ack", "dlq"}
          /\ pc[i] = "claim" => step \in {"claimLocal", "ack"}
          /\ pc[i] = "claimLocal" => step \in {"start", "ack"}
          /\ pc[i] = "start" => step \in {"exec", "failed"}
          /\ pc[i] \in {"saveOk", "saveErr"} => step \in {"failed", "ack"}
          /\ pc[i] = "failed" => step = "dlq"
          /\ pc[i] \in {"claim", "claimLocal", "start", "saveOk", "saveErr", "failed"}
    BY <1>4 DEF ClaimRedis, ClaimLocal, StartRun, SaveOutcome, GiveUp, AfterRun,
                Goto, HandlerSteps
  <2>2. UNCHANGED <<submit, queue, event, execs>>
    BY <1>4 DEF ClaimRedis, ClaimLocal, StartRun, SaveOutcome, GiveUp
  <2>3. /\ pc[i] \in CarryingSteps /\ step # "nack"
        /\ step \in CarryingSteps /\ pc[i] \in {"saveOk", "saveErr", "failed"}
             => step \in {"saveOk", "saveErr", "failed"}
    BY <2>1 DEF CarryingSteps
  <2> QED  BY <2>1, <2>2, <2>3, MoveStep
<1>5. ASSUME NEW i \in Instances, Execute(i) PROVE BudgetInv'
  <2> DEFINE t == event[i].task
  <2>1. /\ pc[i] = "exec" /\ t \in Tasks
        /\ pc' \in {[pc EXCEPT ![i] = "saveOk"], [pc EXCEPT ![i] = "saveErr"]}
        /\ execs' = [execs EXCEPT ![t] = @ + 1]
        /\ UNCHANGED <<submit, queue, event>>
    BY <1>5 DEF Execute, Goto, DecodedInv
  <2>2. Carrying(i, t)  BY <2>1 DEF Carrying, CarryingSteps
  <2>3. /\ \A m \in Messages : m.task = t => ~Waiting(m)
        /\ \A j \in Instances : Carrying(j, t) => j = i
        /\ execs[t] <= event[i].attempt
        /\ event[i].attempt \in 0..MaxRetries
    <3>1. /\ \A m \in Messages : m.task = t => ~Waiting(m)
          /\ \A j \in Instances : Carrying(j, t) => j = i
      BY <2>1, <2>2 DEF BudgetInv, OneToken
    <3>2. event[i].attempt \in 0..MaxRetries  BY DEF Messages
    <3>3. execs[t] <= event[i].attempt + Called(i) /\ Called(i) = 0
      BY <2>1, <2>2 DEF BudgetInv, AttemptsCount, Called
    <3> QED  BY <3>1, <3>2, <3>3
  <2>4. \A j \in Instances, u \in Tasks :
          /\ Carrying(j, u)' => Carrying(j, u)
          /\ j # i => Called(j)' = Called(j)
    BY <2>1 DEF Carrying, Called, CarryingSteps
  <2>5. Called(i)' = 1  BY <2>1 DEF Called
  <2>6. OneToken'
    BY <2>1, <2>4 DEF BudgetInv, OneToken, Waiting
  <2>7. \A u \in Tasks : execs'[u] = IF u = t THEN execs[u] + 1 ELSE execs[u]
    BY <2>1
  <2>8. AttemptsCount'
    <3>1. \A m \in Messages : m.task \in Tasks /\ Waiting(m)' => execs'[m.task] <= m.attempt
      BY <2>1, <2>3, <2>7 DEF BudgetInv, AttemptsCount, Waiting
    <3>2. ASSUME NEW j \in Instances, NEW u \in Tasks, Carrying(j, u)'
          PROVE  execs'[u] <= event'[j].attempt + Called(j)'
      <4>1. CASE j = i
        <5>1. u = t  BY <2>1, <3>2, <4>1 DEF Carrying
        <5> QED  BY <2>1, <2>3, <2>5, <2>7, <4>1, <5>1
      <4>2. CASE j # i
        BY <2>1, <2>3, <2>4, <2>7, <3>2, <4>2 DEF BudgetInv, AttemptsCount
      <4> QED  BY <4>1, <4>2
    <3>3. Published(t) /\ submit[t] = "submitted"
      BY <2>1 DEF SubmittedInv, Published, NoReruns
    <3> QED  BY <2>1, <2>7, <3>1, <3>2, <3>3 DEF BudgetInv, AttemptsCount
  <2>9. RetryBudget'
    <3>1. execs[t] + 1 <= MaxRetries + 1
      <4>1. execs[t] \in Nat  BY <2>1
      <4> QED  BY <2>3, <4>1, RetriesAssumption
    <3> QED  BY <2>7, <3>1 DEF BudgetInv, RetryBudget
  <2> QED  BY <2>1, <2>6, <2>8, <2>9 DEF BudgetInv, NeverNack
<1>6. ASSUME NEW i \in Instances, PublishRetry(i) PROVE BudgetInv'
  <2> DEFINE n == NextAttempt(i)  t == event[i].task
  <2>1. /\ n \in Messages /\ n.task = t /\ t \in Tasks
        /\ n.attempt = event[i].attempt + 1
        /\ event[i].attempt \in Nat
    <3>1. n \in Messages /\ n.task = t
      BY <1>6, NextAttemptType DEF PublishRetry
    <3>2. t \in Tasks  BY <1>6 DEF PublishRetry, DecodedInv
    <3>3. event[i] \in Messages /\ event[i].attempt \in Nat  BY DEF Messages
    <3>4. n.attempt = event[i].attempt + 1
      BY <3>3 DEF NextAttempt, Messages
    <3> QED  BY <3>1, <3>2, <3>3, <3>4
  <2>2. /\ pc[i] = "failed" /\ pc' = [pc EXCEPT ![i] = "release"]
        /\ event' = [event EXCEPT ![i] = n]
        /\ queue' = Enqueue("retry", n) \/ queue' = queue
        /\ UNCHANGED <<submit, execs>>
    <3>1. PICK ok \in BOOLEAN :
            /\ Publish("retry", n, ok)
            /\ pc' = [pc EXCEPT ![i] = IF ok THEN "release" ELSE "dlq"]
      BY <1>6 DEF PublishRetry, Goto
    <3>2. ok /\ (queue' = Enqueue("retry", n) \/ queue' = queue)
      BY <3>1, SteadyPublish
    <3> QED  BY <1>6, <3>1, <3>2 DEF PublishRetry
  <2> HIDE DEF n
  <2>3. Carrying(i, t) /\ Called(i) = 1
    BY <2>2 DEF Carrying, CarryingSteps, Called
  <2>4. /\ \A m \in Messages : m.task = t => ~Waiting(m)
        /\ \A j \in Instances : Carrying(j, t) => j = i
        /\ execs[t] <= event[i].attempt + 1
    BY <2>1, <2>3 DEF BudgetInv, OneToken, AttemptsCount
  <2>5. \A j \in Instances, u \in Tasks :
          Carrying(j, u)' => j # i /\ Carrying(j, u) /\ Called(j)' = Called(j)
                             /\ event'[j] = event[j]
    BY <2>2 DEF Carrying, Called, CarryingSteps
  <2>6. \A j \in Instances, m \in Messages : m.task = t => ~Carrying(j, m.task)'
    BY <2>1, <2>4, <2>5
  <2>7. \A m \in Messages :
          /\ queue["main"][m] \in Nat /\ queue["retry"][m] \in Nat
          /\ queue'["main"][m] = queue["main"][m]
          /\ m # n => queue'["retry"][m] = queue["retry"][m]
          /\ m = n => queue'["retry"][m] \in {queue["retry"][m], queue["retry"][m] + 1}
    BY <2>1, <2>2 DEF Enqueue, QueueNames
  <2>8. /\ \A m \in Messages : m # n => Waiting(m)' = Waiting(m)
        /\ queue["main"][n] = 0 /\ queue["retry"][n] = 0
    BY <2>1, <2>4, <2>7 DEF Waiting
  <2>9. OneToken'
    <3>1. \A m \in Messages : m.task \in Tasks =>
             queue'["main"][m] + queue'["retry"][m] <= 1
      <4> SUFFICES ASSUME NEW m \in Messages, m.task \in Tasks
                   PROVE  queue'["main"][m] + queue'["retry"][m] <= 1
        OBVIOUS
      <4>1. queue["main"][m] + queue["retry"][m] <= 1  BY DEF BudgetInv, OneToken
      <4> QED  BY <2>7, <2>8, <4>1
    <3>2. \A m, k \in Messages :
             m.task \in Tasks /\ m.task = k.task /\ Waiting(m)' /\ Waiting(k)' => m = k
      BY <2>1, <2>4, <2>8 DEF BudgetInv, OneToken
    <3>3. \A m \in Messages, j \in Instances :
             m.task \in Tasks /\ Waiting(m)' => ~Carrying(j, m.task)'
      BY <2>1, <2>5, <2>6, <2>8 DEF BudgetInv, OneToken
    <3>4. \A j, k \in Instances, u \in Tasks :
             Carrying(j, u)' /\ Carrying(k, u)' => j = k
      BY <2>5 DEF BudgetInv, OneToken
    <3> QED  BY <3>1, <3>2, <3>3, <3>4 DEF OneToken
  <2>10. AttemptsCount'
    <3>1. \A m \in Messages : m.task \in Tasks /\ Waiting(m)' => execs'[m.task] <= m.attempt
      BY <2>1, <2>2, <2>4, <2>8 DEF BudgetInv, AttemptsCount
    <3>2. \A j \in Instances, u \in Tasks :
            Carrying(j, u)' => execs'[u] <= event'[j].attempt + Called(j)'
      BY <2>2, <2>5 DEF BudgetInv, AttemptsCount
    <3> QED  BY <2>2, <3>1, <3>2 DEF BudgetInv, AttemptsCount
  <2> QED  BY <2>2, <2>9, <2>10 DEF BudgetInv, NeverNack, RetryBudget
<1>7. ASSUME NEW i \in Instances, PublishDLQ(i) PROVE BudgetInv'
  <2>1. /\ pc' = [pc EXCEPT ![i] = "ack"]
        /\ queue' = Enqueue("dlq", event[i]) \/ queue' = queue
        /\ UNCHANGED <<submit, event, execs>>
    <3>1. PICK ok \in BOOLEAN :
            /\ Publish("dlq", event[i], ok)
            /\ pc' = [pc EXCEPT ![i] = IF ok THEN "ack" ELSE "nack"]
      BY <1>7 DEF PublishDLQ, Goto
    <3>2. ok /\ (queue' = Enqueue("dlq", event[i]) \/ queue' = queue)
      BY <3>1, SteadyPublish
    <3> QED  BY <1>7, <3>1, <3>2 DEF PublishDLQ
  <2>2. \A m \in Messages : /\ queue'["main"][m] = queue["main"][m]
                            /\ queue'["retry"][m] = queue["retry"][m]
    BY <2>1 DEF Enqueue, QueueNames
  <2>3. \A j \in Instances : pc'[j] \in CarryingSteps => pc'[j] = pc[j]
    BY <2>1 DEF CarryingSteps
  <2>4. \A j \in Instances : pc'[j] # "nack"  BY <1>0, <2>1
  <2> QED  BY <2>1, <2>2, <2>3, <2>4, RestingStep
<1>8. ASSUME NEW i \in Instances, ReleaseRedis(i) \/ ReleaseLocal(i) \/ Ack(i)
      PROVE  BudgetInv'
  <2>1. /\ pc' \in {[pc EXCEPT ![i] = "releaseLocal"], [pc EXCEPT ![i] = "ack"],
                    [pc EXCEPT ![i] = "idle"]}
        /\ UNCHANGED <<submit, queue, event, execs>>
    BY <1>8 DEF ReleaseRedis, ReleaseLocal, Ack, Goto
  <2>2. \A j \in Instances : /\ pc'[j] \in CarryingSteps => pc'[j] = pc[j]
                             /\ pc'[j] # "nack"
    BY <1>0, <2>1 DEF CarryingSteps
  <2> QED  BY <2>1, <2>2, RestingStep
<1>9. ASSUME NEW i \in Instances, NackRequeue(i) \/ DropConnection(i) \/ Crash(i)
      PROVE  FALSE
  BY <1>0, <1>9 DEF NackRequeue, DropConnection, Crash, Fault, NoReruns
<1>10. ASSUME NEW m \in Messages, RetryExpire(m) PROVE BudgetInv'
  <2>1. /\ queue["retry"][m] > 0
        /\ queue' = [queue EXCEPT !["retry"][m] = @ - 1, !["main"][m] = @ + 1]
        /\ UNCHANGED <<submit, pc, event, execs>>
    BY <1>10 DEF RetryExpire
  <2>2. \A n \in Messages :
          /\ queue["main"][n] \in Nat /\ queue["retry"][n] \in Nat
          /\ queue'["main"][n] + queue'["retry"][n]
               = queue["main"][n] + queue["retry"][n]
          /\ queue'["main"][n] \in Nat /\ queue'["retry"][n] \in Nat
    <3>1. \A n \in Messages :
            /\ n # m => /\ queue'["main"][n] = queue["main"][n]
                       /\ queue'["retry"][n] = queue["retry"][n]
            /\ n = m => /\ queue'["main"][n] = queue["main"][n] + 1
                       /\ queue'["retry"][n] = queue["retry"][n] - 1
      BY <2>1 DEF QueueNames
    <3>2. \A n \in Messages : queue["main"][n] \in Nat /\ queue["retry"][n] \in Nat
      BY DEF QueueNames
    <3>3. queue["retry"][m] > 0  BY <2>1
    <3> HIDE DEF TypeInv, TypeOK
    <3> QED  BY <3>1, <3>2, <3>3
  <2>3. \A n \in Messages : Waiting(n)' = Waiting(n)
    BY <2>2 DEF Waiting
  <2>4. \A j \in Instances, u \in Tasks :
          Carrying(j, u)' = Carrying(j, u) /\ Called(j)' = Called(j)
    BY <2>1 DEF Carrying, Called
  <2>5. OneToken'
    BY <2>2, <2>3, <2>4 DEF BudgetInv, OneToken
  <2>6. AttemptsCount'
    BY <2>1, <2>3, <2>4 DEF BudgetInv, AttemptsCount
  <2> QED  BY <2>1, <2>5, <2>6 DEF BudgetInv, NeverNack, RetryBudget
<1>11. ASSUME UNCHANGED <<submit, queue, pc, event, execs>> PROVE BudgetInv'
  BY <1>0, <1>11, RestingStep
<1> QED
  BY <1>1, <1>2, <1>3, <1>4, <1>5, <1>6, <1>7, <1>8, <1>9, <1>10, <1>11
     DEF Next, Submission, Handler, ExpireClaim, ForgetLocal, vars

\* max_retries bounds the executor calls, for any number of tasks, instances
\* and attempts, whatever Redis answers, whichever keys expire and whichever
\* publish is lost: a task is in one place at a time, whose attempt number
\* counts the calls.
THEOREM CallsAreBudgeted ==
  ASSUME Faults \cap {"crash", "conn", "publish", "ambiguous"} = {}
  PROVE  Spec => []RetryBudget
<1>0. NoReruns  BY DEF NoReruns
<1>1. Init => BudgetInv /\ SubmittedInv
  <2> SUFFICES ASSUME Init PROVE BudgetInv /\ SubmittedInv
    OBVIOUS
  <2>1. \A m \in Messages : m.task \in Tasks => queue["main"][m] = 0 /\ queue["retry"][m] = 0
    BY NoTaskAssumption DEF Init, QueueNames, MalformedBody
  <2>2. BudgetInv
    <3>1. \A m \in Messages : m.task \in Tasks => ~Waiting(m)
      BY <2>1 DEF Waiting
    <3>2. \A i \in Instances, t \in Tasks : ~Carrying(i, t)
      BY DEF Init, Carrying, CarryingSteps
    <3>3. OneToken  BY <2>1, <3>1, <3>2 DEF OneToken
    <3>4. AttemptsCount  BY <3>1, <3>2 DEF Init, AttemptsCount
    <3>5. NeverNack /\ RetryBudget
      BY RetriesAssumption DEF Init, NeverNack, RetryBudget
    <3> QED  BY <3>3, <3>4, <3>5 DEF BudgetInv
  <2>3. SubmittedInv
    BY NoTaskAssumption DEF Init, SubmittedInv, MalformedBody, QueueNames
  <2> QED  BY <2>2, <2>3
<1>2. TypeInv /\ TypeInv' /\ SubmittedInv /\ [Next]_vars => SubmittedInv'
  BY SubmittedStep
<1>3. TypeInv /\ TypeInv' /\ SubmittedInv /\ BudgetInv /\ [Next]_vars => BudgetInv'
  BY <1>0, BudgetStep
<1>4. BudgetInv => RetryBudget
  BY DEF BudgetInv
<1> QED  BY <1>1, <1>2, <1>3, <1>4, TypeInvariance, PTL DEF Spec

=============================================================================
