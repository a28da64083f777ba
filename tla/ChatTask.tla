------------------------------ MODULE ChatTask ------------------------------
(***************************************************************************)
(* The asynchronous chat task pipeline: SubmitChatTask writes a record to  *)
(* Redis and publishes an event; every process of the deployment runs one  *)
(* consumer goroutine whose handler claims the task in a two-layer         *)
(* deduplicator (Redis, then the process' own TTL set), executes it, and   *)
(* acknowledges, retries or dead-letters the delivery.                     *)
(*                                                                         *)
(*   internal/ai/service/chat_task_queue.go   submission                   *)
(*   internal/ai/service/chat_task_client.go  handleDelivery, processEvent *)
(*   internal/ai/service/chat_task_record.go  the Redis record             *)
(*   internal/infra/rabbitmq/deduper.go       Claim and Release            *)
(*   internal/infra/rabbitmq/client.go        Publish and reconnect        *)
(*   internal/infra/rabbitmq/topology.go      main, retry and dead letters *)
(*                                                                         *)
(* A message is a task and its attempt number; the broker's queues are     *)
(* bags, because redelivery gives no order.  Every step that talks to      *)
(* Redis or to the broker is an action of its own.  What may go wrong is   *)
(* the parameter Faults, so that each property can be stated for exactly   *)
(* the failures it survives.                                               *)
(***************************************************************************)
EXTENDS Naturals

CONSTANTS
  Tasks,        \* ids of the tasks clients submit (uuid.NewString)
  Instances,    \* processes with a running consumer
  MaxRetries,   \* rabbitmq.chat_task_max_retries
  NoTask,       \* the task of a body decodeChatTaskEvent refuses
  NoOwner,      \* the owner of a Redis claim key that does not exist
  Malformed,    \* malformed bodies waiting in the main queue at the start
  Faults,       \* the kinds of failure that may happen
  MaxFaults     \* bound: how many of the counted failures happen

FaultKinds == { "crash",        \* a process dies and is restarted
                "conn",         \* an AMQP connection (and its channels) drops
                "redis",        \* a Redis command returns an error
                "publish",      \* Publish fails, nothing was enqueued
                "ambiguous",    \* Publish fails, the broker has the message
                "unconfirmed",  \* Publish returns nil, the message is lost
                "slow",         \* Publish to Release takes over RetryDelay
                "expire" }      \* dedup keys reach their ten-minute TTL

ASSUME RetriesAssumption == MaxRetries \in Nat
ASSUME MalformedAssumption == Malformed \in Nat
ASSUME NoTaskAssumption == NoTask \notin Tasks
ASSUME NoOwnerAssumption == NoOwner \notin Instances
ASSUME FaultsAssumption == Faults \subseteq FaultKinds
ASSUME MaxFaultsAssumption == MaxFaults \in Nat

VARIABLES
  record,   \* Redis: status of the task's ChatTaskRecord
  submit,   \* progress of SubmitChatTask for each task
  queue,    \* broker: for each queue, the number of copies of each message
  pc,       \* where each instance's handler stands
  body,     \* the delivery each handler works on, as the broker sent it
  event,    \* the decoded event, whose Attempt the handler increments
  held,     \* the delivery's channel is open: the broker waits for its ack
  claim,    \* Redis dedup keys; which instance set one is kept for its TTL
  local,    \* each instance's in-memory TTL set
  execs,    \* how often the executor was called for each task (history)
  faults    \* failures so far

vars == <<record, submit, queue, pc, body, event, held, claim, local, execs,
          faults>>

Statuses == {"none", "queued", "running", "succeeded", "failed"}

QueueNames == {"main", "retry", "dlq"}

Messages == [task : Tasks \cup {NoTask}, attempt : 0..MaxRetries]

MalformedBody == [task |-> NoTask, attempt |-> 0]

SubmitSteps == {"new", "saved", "failing", "submitted", "rejected"}

HandlerSteps == {"idle", "claim", "claimLocal", "start", "exec", "saveOk",
                 "saveErr", "failed", "dlq", "nack", "release",
                 "releaseLocal", "ack"}

\* From a granted Redis claim until the handler gives it back or settles.
WorkingSteps == {"claimLocal", "start", "exec", "saveOk", "saveErr",
                 "failed", "dlq", "nack", "release"}

ExecutingSteps == {"exec", "saveOk", "saveErr"}

Working(i, t) == event[i].task = t /\ pc[i] \in WorkingSteps

----------------------------------------------------------------------------
(* Failures and the broker *)

\* A counted failure of kind k happens in this step.
Fault(k) == k \in Faults /\ faults < MaxFaults /\ faults' = faults + 1

NoFault == UNCHANGED faults

Enqueue(q, m) == [queue EXCEPT ![q][m] = @ + 1]

\* Client.Publish without publisher confirms: its result, and whether the
\* message got into the queue.  Its own reconnect and second try are inside;
\* the channel that reconnect closes is DropConnection's.
Publish(q, m, ok) ==
  \/ ok  /\ NoFault              /\ queue' = Enqueue(q, m)
  \/ ok  /\ Fault("unconfirmed") /\ queue' = queue
  \/ ~ok /\ Fault("publish")     /\ queue' = queue
  \/ ~ok /\ Fault("ambiguous")   /\ queue' = Enqueue(q, m)

\* saveChatTaskRecord: SETEX of the whole record; on an error the write may
\* or may not have been applied.
SaveRecord(t, status, ok) ==
  LET saved == [record EXCEPT ![t] = status] IN
    \/ ok  /\ NoFault        /\ record' = saved
    \/ ~ok /\ Fault("redis") /\ record' \in {record, saved}

----------------------------------------------------------------------------
(* SubmitChatTask *)

\* Save the queued record; an error is returned to the caller.
SubmitSave(t) ==
  /\ submit[t] = "new"
  /\ \E ok \in BOOLEAN :
       /\ SaveRecord(t, "queued", ok)
       /\ submit' = [submit EXCEPT ![t] = IF ok THEN "saved" ELSE "rejected"]
  /\ UNCHANGED <<queue, pc, body, event, held, claim, local, execs>>

\* The pipeline has no client yet, or no longer: nothing is published.
SubmitNotReady(t) ==
  /\ submit[t] = "saved"
  /\ submit' = [submit EXCEPT ![t] = "failing"]
  /\ UNCHANGED <<record, queue, pc, body, event, held, claim, local, execs,
                 faults>>

SubmitPublish(t) ==
  /\ submit[t] = "saved"
  /\ \E ok \in BOOLEAN :
       /\ Publish("main", [task |-> t, attempt |-> 0], ok)
       /\ submit' = [submit EXCEPT ![t] = IF ok THEN "submitted" ELSE "failing"]
  /\ UNCHANGED <<record, pc, body, event, held, claim, local, execs>>

\* The record is overwritten with failed, whatever it holds by now; the
\* result of this save is ignored.
SubmitMarkFailed(t) ==
  /\ submit[t] = "failing"
  /\ \E ok \in BOOLEAN : SaveRecord(t, "failed", ok)
  /\ submit' = [submit EXCEPT ![t] = "rejected"]
  /\ UNCHANGED <<queue, pc, body, event, held, claim, local, execs>>

----------------------------------------------------------------------------
(* handleDelivery and processEvent, on instance i *)

Goto(i, step) == pc' = [pc EXCEPT ![i] = step]

\* The consumer loop takes a delivery and decodes it.  A malformed body goes
\* to the dead letters without a claim.
Deliver(i) ==
  /\ pc[i] = "idle"
  /\ \E m \in Messages :
       /\ queue["main"][m] > 0
       /\ queue' = [queue EXCEPT !["main"][m] = @ - 1]
       /\ body' = [body EXCEPT ![i] = m]
       /\ event' = [event EXCEPT ![i] = m]
       /\ Goto(i, IF m.task = NoTask THEN "dlq" ELSE "claim")
  /\ held' = [held EXCEPT ![i] = TRUE]
  /\ UNCHANGED <<record, submit, claim, local, execs, faults>>

\* SET NX would set the key.
ClaimFreeM(t) == t \in Tasks
ClaimFree(t) == claim[t] = NoOwner

\* RedisDeduper.Claim, the first part of the composite: SET NX.  A Redis
\* error lets the delivery through without leaving a key.
ClaimRedis(i) ==
  /\ pc[i] = "claim"
  /\ LET t == event[i].task IN
       \/ /\ ClaimFree(t)
          /\ claim' = [claim EXCEPT ![t] = i]
          /\ Goto(i, "claimLocal")
          /\ NoFault
       \/ /\ ~ClaimFree(t)
          /\ Goto(i, "ack")
          /\ UNCHANGED <<claim, faults>>
       \/ /\ Fault("redis")
          /\ Goto(i, "claimLocal")
          /\ UNCHANGED claim
  /\ UNCHANGED <<record, submit, queue, body, event, held, local, execs>>

\* TTLSet.Claim, the second part.  If it refuses, the Redis key stays.
ClaimLocal(i) ==
  /\ pc[i] = "claimLocal"
  /\ IF event[i].task \in local[i]
       THEN Goto(i, "ack") /\ UNCHANGED local
       ELSE /\ Goto(i, "start")
            /\ local' = [local EXCEPT ![i] = @ \cup {event[i].task}]
  /\ UNCHANGED <<record, submit, queue, body, event, held, claim, execs,
                 faults>>

\* processEvent: load or rebuild the record, save it as running.
StartRun(i) ==
  /\ pc[i] = "start"
  /\ \E ok \in BOOLEAN :
       /\ SaveRecord(event[i].task, "running", ok)
       /\ Goto(i, IF ok THEN "exec" ELSE "failed")
  /\ UNCHANGED <<submit, queue, body, event, held, claim, local, execs>>

\* processEvent: the registered executor returns, with an answer or an error
\* (its own or the execution timeout's).
Execute(i) ==
  /\ pc[i] = "exec"
  /\ \E ok \in BOOLEAN : Goto(i, IF ok THEN "saveOk" ELSE "saveErr")
  /\ execs' = [execs EXCEPT ![event[i].task] = @ + 1]
  /\ UNCHANGED <<record, submit, queue, body, event, held, claim, local,
                 faults>>

\* The status a finished run leaves in its record.
OutcomeStatusM(answered) == IF answered THEN "succeeded" ELSE "running"
OutcomeStatus(answered) == IF answered THEN "succeeded" ELSE "failed"

\* Where the handler goes once the outcome is saved, or could not be.
AfterRunM(answered, saved) == IF answered /\ saved THEN "release" ELSE "failed"
AfterRun(answered, saved) == IF answered /\ saved THEN "ack" ELSE "failed"

\* processEvent: save the outcome.  A lost answer is an error like any other.
SaveOutcome(i) ==
  /\ pc[i] \in {"saveOk", "saveErr"}
  /\ LET answered == pc[i] = "saveOk" IN
       \E ok \in BOOLEAN :
         /\ SaveRecord(event[i].task, OutcomeStatus(answered), ok)
         /\ Goto(i, AfterRun(answered, ok))
  /\ UNCHANGED <<submit, queue, body, event, held, claim, local, execs>>

RetriesLeft(i) == event[i].attempt < MaxRetries

\* event.Attempt++
NextAttemptM(i) == event[i]
NextAttempt(i) == [event[i] EXCEPT !.attempt = @ + 1]

\* processEvent failed and attempts are left: event.Attempt++, publish to the
\* retry queue; if that fails the event goes to the dead letters.
PublishRetry(i) ==
  /\ pc[i] = "failed"
  /\ RetriesLeft(i)
  /\ event' = [event EXCEPT ![i] = NextAttempt(i)]
  /\ \E ok \in BOOLEAN :
       /\ Publish("retry", NextAttempt(i), ok)
       /\ Goto(i, IF ok THEN "release" ELSE "dlq")
  /\ UNCHANGED <<record, submit, body, held, claim, local, execs>>

GiveUpM(i) ==
  /\ pc[i] = "failed"
  /\ ~RetriesLeft(i)
  /\ Goto(i, "ack")
  /\ UNCHANGED <<record, submit, queue, body, event, held, claim, local,
                 execs, faults>>
GiveUp(i) ==
  /\ pc[i] = "failed"
  /\ ~RetriesLeft(i)
  /\ Goto(i, "dlq")
  /\ UNCHANGED <<record, submit, queue, body, event, held, claim, local,
                 execs, faults>>

\* The dead letter; if it cannot be published the delivery is requeued, and
\* the claim is kept.
PublishDLQ(i) ==
  /\ pc[i] = "dlq"
  /\ \E ok \in BOOLEAN :
       /\ Publish("dlq", event[i], ok)
       /\ Goto(i, IF ok THEN "ack" ELSE "nack")
  /\ UNCHANGED <<record, submit, body, event, held, claim, local, execs>>

\* DEL of the dedup key.
ClaimDeletedM(t) == [claim EXCEPT ![t] = claim[t]]
ClaimDeleted(t) == [claim EXCEPT ![t] = NoOwner]

\* CompositeDeduper.Release, after the retry was published: DEL the key (its
\* error is ignored), then forget the task locally.
ReleaseRedis(i) ==
  /\ pc[i] = "release"
  /\ \/ NoFault /\ claim' = ClaimDeleted(event[i].task)
     \/ Fault("redis") /\ UNCHANGED claim
  /\ Goto(i, "releaseLocal")
  /\ UNCHANGED <<record, submit, queue, body, event, held, local, execs>>

ReleaseLocal(i) ==
  /\ pc[i] = "releaseLocal"
  /\ local' = [local EXCEPT ![i] = @ \ {event[i].task}]
  /\ Goto(i, "ack")
  /\ UNCHANGED <<record, submit, queue, body, event, held, claim, execs,
                 faults>>

\* On a closed channel the ack fails and is only logged: the broker has
\* requeued the delivery.
Ack(i) ==
  /\ pc[i] = "ack"
  /\ Goto(i, "idle")
  /\ held' = [held EXCEPT ![i] = FALSE]
  /\ UNCHANGED <<record, submit, queue, body, event, claim, local, execs,
                 faults>>

\* The queues after the broker takes instance i's open delivery back.
Requeued(i) == IF held[i] THEN Enqueue("main", body[i]) ELSE queue

NackRequeue(i) ==
  /\ pc[i] = "nack"
  /\ queue' = Requeued(i)
  /\ held' = [held EXCEPT ![i] = FALSE]
  /\ Goto(i, "idle")
  /\ UNCHANGED <<record, submit, body, event, claim, local, execs, faults>>

----------------------------------------------------------------------------
(* The environment *)

\* The retry queue's x-message-ttl passes and m is dead-lettered to the main
\* queue.  Unless "slow" is allowed, the handler that published it has gone
\* through its Release within RetryDelay.
RetryExpire(m) ==
  /\ queue["retry"][m] > 0
  /\ \/ "slow" \in Faults
     \/ \A i \in Instances :
          pc[i] \in {"release", "releaseLocal"} => event[i] # m
  /\ queue' = [queue EXCEPT !["retry"][m] = @ - 1, !["main"][m] = @ + 1]
  /\ UNCHANGED <<record, submit, pc, body, event, held, claim, local, execs,
                 faults>>

\* The TTL of a dedup claim passes, in Redis and in the set of the instance
\* that made it within the same call.  The TTL exceeds the execution timeout,
\* so the owner is not working on the task any more.
ExpireClaim(t) ==
  /\ "expire" \in Faults
  /\ claim[t] # NoOwner
  /\ ~Working(claim[t], t)
  /\ claim' = [claim EXCEPT ![t] = NoOwner]
  /\ local' = [local EXCEPT ![claim[t]] = @ \ {t}]
  /\ UNCHANGED <<record, submit, queue, pc, body, event, held, execs, faults>>

\* A full TTL set evicts its oldest entry, and an entry made without a Redis
\* key expires by itself; never the task being handled.
ForgetLocal(i, t) ==
  /\ "expire" \in Faults
  /\ t \in local[i]
  /\ event[i].task = t => pc[i] \in {"idle", "ack"}
  /\ local' = [local EXCEPT ![i] = @ \ {t}]
  /\ UNCHANGED <<record, submit, queue, pc, body, event, held, claim, execs,
                 faults>>

\* The connection drops: the broker takes the open delivery back while the
\* handler carries on.
DropConnection(i) ==
  /\ held[i]
  /\ Fault("conn")
  /\ queue' = Requeued(i)
  /\ held' = [held EXCEPT ![i] = FALSE]
  /\ UNCHANGED <<record, submit, pc, body, event, claim, local, execs>>

\* The process dies and starts again with an empty TTL set.
Crash(i) ==
  /\ pc[i] # "idle"
  /\ Fault("crash")
  /\ queue' = Requeued(i)
  /\ held' = [held EXCEPT ![i] = FALSE]
  /\ local' = [local EXCEPT ![i] = {}]
  /\ Goto(i, "idle")
  /\ UNCHANGED <<record, submit, body, event, claim, execs>>

----------------------------------------------------------------------------

Init ==
  /\ record = [t \in Tasks |-> "none"]
  /\ submit = [t \in Tasks |-> "new"]
  /\ queue = [q \in QueueNames |-> [m \in Messages |->
                IF q = "main" /\ m = MalformedBody THEN Malformed ELSE 0]]
  /\ pc = [i \in Instances |-> "idle"]
  /\ body = [i \in Instances |-> MalformedBody]
  /\ event = [i \in Instances |-> MalformedBody]
  /\ held = [i \in Instances |-> FALSE]
  /\ claim = [t \in Tasks |-> NoOwner]
  /\ local = [i \in Instances |-> {}]
  /\ execs = [t \in Tasks |-> 0]
  /\ faults = 0

Submission(t) ==
  SubmitSave(t) \/ SubmitNotReady(t) \/ SubmitPublish(t) \/ SubmitMarkFailed(t)

Handler(i) ==
  \/ Deliver(i)
  \/ ClaimRedis(i)
  \/ ClaimLocal(i)
  \/ StartRun(i)
  \/ Execute(i)
  \/ SaveOutcome(i)
  \/ PublishRetry(i)
  \/ GiveUp(i)
  \/ PublishDLQ(i)
  \/ ReleaseRedis(i)
  \/ ReleaseLocal(i)
  \/ Ack(i)
  \/ NackRequeue(i)

Next ==
  \/ \E t \in Tasks : Submission(t) \/ ExpireClaim(t)
  \/ \E i \in Instances : Handler(i) \/ DropConnection(i) \/ Crash(i)
  \/ \E i \in Instances, t \in Tasks : ForgetLocal(i, t)
  \/ \E m \in Messages : RetryExpire(m)

Spec == Init /\ [][Next]_vars

\* The handler goroutine is scheduled, the executor returns (at the latest
\* with its timeout) and the broker expires retries; clients may stop.
Fairness ==
  /\ \A i \in Instances : WF_vars(Handler(i))
  /\ \A m \in Messages : WF_vars(RetryExpire(m))

LiveSpec == Spec /\ Fairness

----------------------------------------------------------------------------
(* Properties *)

\* The shape of the state.
TypeOK ==
  /\ record \in [Tasks -> Statuses]
  /\ submit \in [Tasks -> SubmitSteps]
  /\ queue \in [QueueNames -> [Messages -> Nat]]
  /\ pc \in [Instances -> HandlerSteps]
  /\ body \in [Instances -> Messages]
  /\ event \in [Instances -> Messages]
  /\ held \in [Instances -> BOOLEAN]
  /\ claim \in [Tasks -> Instances \cup {NoOwner}]
  /\ local \in [Instances -> SUBSET Tasks]
  /\ execs \in [Tasks -> Nat]
  /\ faults \in Nat

\* Whole-cluster mutual exclusion (deduper.go: the same task id is processed
\* by one instance of the cluster): two consumers never execute one task at
\* the same time, although the broker redelivers it while the first still
\* runs, and although a restarted process starts with an empty local set.
ExclusiveExecution ==
  \A i, j \in Instances :
    /\ pc[i] \in ExecutingSteps
    /\ pc[j] \in ExecutingSteps
    /\ event[i].task = event[j].task
    => i = j

Copies(q, t) == \E m \in Messages : m.task = t /\ queue[q][m] > 0

\* Something of the task is left in the pipeline, or it has its answer.
Alive(t) ==
  \/ record[t] = "succeeded"
  \/ \E q \in QueueNames : Copies(q, t)
  \/ \E i \in Instances : /\ event[i].task = t
                          /\ pc[i] \in WorkingSteps \cup {"claim"}

\* No accepted task vanishes: once SubmitChatTask returned without an error,
\* the task is answered, queued, dead-lettered or in the hands of a handler
\* that has yet to decide.  In particular a handler that acknowledges a
\* delivery because of the claim never takes the last copy away.
NoTaskLost == \A t \in Tasks : submit[t] = "submitted" => Alive(t)

\* A record that says running is being worked on by some process; pollers
\* (GetChatTask) never wait for a task nobody runs.
RunningHasRunner ==
  \A t \in Tasks : record[t] = "running" =>
    \E i \in Instances : pc[i] \in ExecutingSteps /\ event[i].task = t

\* max_retries bounds the executor calls for a task: the first and one for
\* each retry, however often claims expire or Redis errs in between.
RetryBudget == \A t \in Tasks : execs[t] <= MaxRetries + 1

\* A saved answer stays: no redelivery, crash or lost publish makes a handler
\* overwrite it.  Only SubmitChatTask does, when its publish reported an error
\* although the broker took the message, and then its caller is told.
AnswerSticks ==
  [][\A t \in Tasks : record[t] = "succeeded" =>
        record'[t] = "succeeded" \/ submit'[t] = "rejected"]_vars

\* What a task has come to, as its client may see it.
promiseOf ==
  [t \in Tasks |->
    IF submit[t] = "rejected" THEN "refused"
    ELSE IF record[t] = "succeeded" THEN "answered"
    ELSE IF Copies("dlq", t) THEN "dead"
    ELSE IF submit[t] = "submitted" THEN "open"
    ELSE "new"]

\* Only a claim that expires, or that Redis failed to set, lets a second copy
\* of an answered task be run.
Promise == INSTANCE TaskPromise WITH
  promise <- promiseOf, Reopens <- Faults \cap {"redis", "expire"} # {}

\* The pipeline keeps its promise to clients: it implements TaskPromise.
KeepsPromise == Promise!Spec

\* ... and settles it: every accepted task is answered or dead-lettered.
SettlesPromise == Promise!LiveSpec

=============================================================================
