-------------------------- MODULE MemoryExtraction --------------------------
(***************************************************************************)
(* What happens to a conversation turn after it was answered: the event    *)
(* for the memory agent goes to RabbitMQ, or, when it cannot be published, *)
(* to a goroutine of the process that answered, one of at most MaxJobs.    *)
(*                                                                         *)
(*   internal/ai/service/memory_service.go       PersistOutcome, slots     *)
(*   internal/ai/service/memory_queue.go         enqueue                   *)
(*   internal/ai/service/memory_queue_client.go  handleDelivery            *)
(*   internal/infra/rabbitmq/deduper.go          Claim and Release         *)
(*                                                                         *)
(* An event is identified by the hash of session, query and summary, so    *)
(* two identical turns are one event.  The broker, the two deduplication   *)
(* layers and the failures are those of ChatTask; a claim and a release    *)
(* are one step here, because nothing the other layer sees comes between.  *)
(* A body that does not decode is no message of the system's own; what     *)
(* becomes of one is in ChatTask.                                          *)
(***************************************************************************)
EXTENDS Naturals, FiniteSets

CONSTANTS
  Turns,        \* answered turns that PersistOutcome is called for
  Events,       \* hashes of session, query and summary
  EventOf,      \* the hash of each turn
  Instances,    \* processes, each with one consumer
  MaxRetries,   \* rabbitmq.max_retries
  MaxJobs,      \* memory.extract_max_concurrency
  NoOwner,      \* the owner of a claim key that does not exist
  Faults,       \* the kinds of failure that may happen
  MaxFaults     \* bound: how many failures happen

FaultKinds == { "crash",        \* a process dies and is restarted
                "conn",         \* the AMQP connection drops
                "redis",        \* a Redis command returns an error
                "publish",      \* Publish fails, nothing was enqueued
                "ambiguous",    \* Publish fails, the broker has the message
                "slow",         \* Publish to Release takes over RetryDelay
                "expire" }      \* claim keys reach their TTL

ASSUME TurnsAssumption == IsFiniteSet(Turns)
ASSUME EventsAssumption == Events # {}
ASSUME EventOfAssumption == EventOf \in [Turns -> Events]
ASSUME RetriesAssumption == MaxRetries \in Nat
ASSUME JobsAssumption == MaxJobs \in Nat \ {0}
ASSUME NoOwnerAssumption == NoOwner \notin Instances
ASSUME FaultsAssumption == Faults \subseteq FaultKinds
ASSUME MaxFaultsAssumption == MaxFaults \in Nat

VARIABLES
  turn,      \* progress of PersistOutcome and of its goroutine, per turn
  jobs,      \* slots taken in each instance's semaphore channel
  home,      \* the instance that answers each turn
  queue,     \* broker: for each queue, the number of copies of each message
  pc,        \* where each instance's handler stands
  body,      \* the delivery each handler works on, as the broker sent it
  event,     \* the decoded event, whose Attempt the handler increments
  held,      \* the delivery's channel is open: the broker waits for its ack
  claim,     \* Redis dedup keys: the instance that set each one
  seen,      \* each instance's in-memory TTL set
  runs,      \* how often the queue handlers ran the agent on each event
  copies,    \* messages put into the main queue for each event, by a turn
             \* or by the broker taking a delivery back (history)
  done,      \* events some run of the agent has finished (history)
  stranded,  \* events whose claim outlived the handler's interest (history)
  faults     \* failures so far

vars == <<turn, jobs, home, queue, pc, body, event, held, claim, seen, runs,
          copies, done, stranded, faults>>

brokerVars == <<pc, body, event, held, claim, seen, runs, done, stranded>>

QueueNames == {"main", "retry", "dlq"}

Messages == [id : Events, attempt : 0..MaxRetries]

TurnSteps == {"answered", "slot", "local", "queued", "skipped", "extracted",
              "dead"}

HandlerSteps == {"idle", "claim", "extract", "failed", "dlq", "release",
                 "ack", "nack"}

\* From a granted claim until the handler settles the delivery.
WorkingSteps == {"extract", "failed", "dlq", "release", "nack"}

Working(i, e) == event[i].id = e /\ pc[i] \in WorkingSteps

----------------------------------------------------------------------------
(* Failures and the broker *)

Fault(k) == k \in Faults /\ faults < MaxFaults /\ faults' = faults + 1

NoFault == UNCHANGED faults

Enqueue(q, m) == [queue EXCEPT ![q][m] = @ + 1]

\* publishEvent: the result, and whether the message got into the queue.
Publish(q, m, ok) ==
  \/ ok  /\ NoFault            /\ queue' = Enqueue(q, m)
  \/ ~ok /\ Fault("publish")   /\ queue' = queue
  \/ ~ok /\ Fault("ambiguous") /\ queue' = Enqueue(q, m)

----------------------------------------------------------------------------
(* PersistOutcome, for turn t on instance home[t] *)

TurnGoto(t, step) == turn' = [turn EXCEPT ![t] = step]

\* enqueueMemoryExtraction: publish the event; when that reports an error the
\* turn is extracted here instead, whether or not the broker has the event.
EnqueueEvent(t) ==
  /\ turn[t] = "answered"
  /\ \E ok \in BOOLEAN :
       /\ Publish("main", [id |-> EventOf[t], attempt |-> 0], ok)
       /\ TurnGoto(t, IF ok THEN "queued" ELSE "slot")
  /\ copies' = [copies EXCEPT ![EventOf[t]] = IF queue' = queue THEN @ ELSE @ + 1]
  /\ UNCHANGED <<jobs, home, brokerVars>>

\* The pipeline has no client yet, or no longer.
NotReady(t) ==
  /\ turn[t] = "answered"
  /\ TurnGoto(t, "slot")
  /\ UNCHANGED <<jobs, home, queue, copies, faults, brokerVars>>

SlotFree(i) == jobs[i] < MaxJobs

AcquireSlot(t) ==
  /\ turn[t] = "slot"
  /\ SlotFree(home[t])
  /\ jobs' = [jobs EXCEPT ![home[t]] = @ + 1]
  /\ TurnGoto(t, "local")
  /\ UNCHANGED <<home, queue, copies, faults, brokerVars>>

\* The wait for a slot, or the request itself, is over first.
SlotTimeout(t) ==
  /\ turn[t] = "slot"
  /\ TurnGoto(t, "skipped")
  /\ UNCHANGED <<jobs, home, queue, copies, faults, brokerVars>>

JobsAfter(i) == [jobs EXCEPT ![i] = @ - 1]

\* The goroutine extracts within its bounded context and releases its slot.
LocalExtract(t) ==
  /\ turn[t] = "local"
  /\ jobs' = JobsAfter(home[t])
  /\ TurnGoto(t, "extracted")
  /\ done' = done \cup {EventOf[t]}
  /\ UNCHANGED <<home, queue, pc, body, event, held, claim, seen, runs,
                 copies, stranded, faults>>

----------------------------------------------------------------------------
(* handleDelivery, on instance i *)

Goto(i, step) == pc' = [pc EXCEPT ![i] = step]

turnVars == <<turn, jobs, home>>

Deliver(i) ==
  /\ pc[i] = "idle"
  /\ \E m \in Messages :
       /\ queue["main"][m] > 0
       /\ queue' = [queue EXCEPT !["main"][m] = @ - 1]
       /\ body' = [body EXCEPT ![i] = m]
       /\ event' = [event EXCEPT ![i] = m]
  /\ held' = [held EXCEPT ![i] = TRUE]
  /\ Goto(i, "claim")
  /\ UNCHANGED <<turnVars, claim, seen, runs, copies, done, stranded, faults>>

\* CompositeDeduper.Claim: SET NX, then the local set.  A Redis error counts
\* as granted and leaves no key.
Claim(i) ==
  /\ pc[i] = "claim"
  /\ LET e == event[i].id IN
       /\ \/ claim[e] = NoOwner /\ claim' = [claim EXCEPT ![e] = i] /\ NoFault
          \/ claim[e] # NoOwner /\ UNCHANGED claim /\ NoFault
          \/ Fault("redis") /\ UNCHANGED claim
       /\ LET granted == claim[e] = NoOwner \/ faults' # faults IN
            IF granted /\ e \notin seen[i]
              THEN /\ Goto(i, "extract")
                   /\ seen' = [seen EXCEPT ![i] = @ \cup {e}]
              ELSE /\ Goto(i, "ack")
                   /\ UNCHANGED seen
  /\ UNCHANGED <<turnVars, queue, body, event, held, runs, copies, done,
                 stranded>>

\* consumeEvent: the agent returns in time, or the timeout or a panic makes
\* an error of it, after it applied its operations or before.
Extract(i) ==
  /\ pc[i] = "extract"
  /\ runs' = [runs EXCEPT ![event[i].id] = @ + 1]
  /\ \E ok \in BOOLEAN :
       /\ Goto(i, IF ok THEN "ack" ELSE "failed")
       /\ IF ok THEN done' = done \cup {event[i].id}
                ELSE done' \in {done, done \cup {event[i].id}}
  /\ UNCHANGED <<turnVars, queue, body, event, held, claim, seen, copies,
                 stranded, faults>>

RetriesLeft(i) == event[i].attempt < MaxRetries

NextAttemptM(i) == event[i]
NextAttempt(i) == [event[i] EXCEPT !.attempt = @ + 1]

\* Publish the retry.  If that fails, the event is claimed again, which the
\* standing claim makes a no-op, and goes to the dead letters.
PublishRetry(i) ==
  /\ pc[i] = "failed"
  /\ RetriesLeft(i)
  /\ event' = [event EXCEPT ![i] = NextAttempt(i)]
  /\ \E ok \in BOOLEAN :
       /\ Publish("retry", NextAttempt(i), ok)
       /\ Goto(i, IF ok THEN "release" ELSE "dlq")
  /\ UNCHANGED <<turnVars, body, held, claim, seen, runs, copies, done,
                 stranded>>

GiveUpM(i) ==
  /\ pc[i] = "failed"
  /\ ~RetriesLeft(i)
  /\ Goto(i, "ack")
  /\ UNCHANGED <<turnVars, queue, body, event, held, claim, seen, runs,
                 copies, done, stranded, faults>>
GiveUp(i) ==
  /\ pc[i] = "failed"
  /\ ~RetriesLeft(i)
  /\ Goto(i, "dlq")
  /\ UNCHANGED <<turnVars, queue, body, event, held, claim, seen, runs,
                 copies, done, stranded, faults>>

\* The dead letter; when it cannot be published either, the delivery is
\* requeued under a claim nobody gives back.
PublishDLQ(i) ==
  /\ pc[i] = "dlq"
  /\ \E ok \in BOOLEAN :
       /\ Publish("dlq", event[i], ok)
       /\ Goto(i, IF ok THEN "ack" ELSE "nack")
  /\ UNCHANGED <<turnVars, body, event, held, claim, seen, runs, copies, done,
                 stranded>>

\* Release after the retry was published: DEL, its error ignored, then the
\* local set.
Release(i) ==
  /\ pc[i] = "release"
  /\ LET e == event[i].id IN
       /\ \/ NoFault /\ claim' = [claim EXCEPT ![e] = NoOwner]
             /\ UNCHANGED stranded
          \/ Fault("redis") /\ UNCHANGED claim
             /\ stranded' = stranded \cup {e}
       /\ seen' = [seen EXCEPT ![i] = @ \ {e}]
  /\ Goto(i, "ack")
  /\ UNCHANGED <<turnVars, queue, body, event, held, runs, copies, done>>

Ack(i) ==
  /\ pc[i] = "ack"
  /\ Goto(i, "idle")
  /\ held' = [held EXCEPT ![i] = FALSE]
  /\ UNCHANGED <<turnVars, queue, body, event, claim, seen, runs, copies,
                 done, stranded, faults>>

\* The broker takes instance i's open delivery back.
TakeBack(i) ==
  /\ queue' = IF held[i] THEN Enqueue("main", body[i]) ELSE queue
  /\ copies' = IF held[i] THEN [copies EXCEPT ![body[i].id] = @ + 1] ELSE copies
  /\ held' = [held EXCEPT ![i] = FALSE]

\* nackRequeue: the claim of this very attempt stays.
NackRequeue(i) ==
  /\ pc[i] = "nack"
  /\ TakeBack(i)
  /\ stranded' = stranded \cup {event[i].id}
  /\ Goto(i, "idle")
  /\ UNCHANGED <<turnVars, body, event, claim, seen, runs, done, faults>>

----------------------------------------------------------------------------
(* The environment *)

\* The retry queue's TTL passes.  Unless "slow" is allowed, the handler that
\* published the retry has released its claim within the delay.
RetryExpire(m) ==
  /\ queue["retry"][m] > 0
  /\ LET early == \E i \in Instances : pc[i] = "release" /\ event[i] = m IN
       /\ early => "slow" \in Faults
       /\ stranded' = IF early THEN stranded \cup {m.id} ELSE stranded
  /\ queue' = [queue EXCEPT !["retry"][m] = @ - 1, !["main"][m] = @ + 1]
  /\ UNCHANGED <<turnVars, pc, body, event, held, claim, seen, runs, copies,
                 done, faults>>

\* A claim reaches its TTL, which exceeds the extraction timeout, in Redis
\* and in the set of the instance that made it.
ExpireClaim(e) ==
  /\ claim[e] # NoOwner
  /\ ~Working(claim[e], e)
  /\ Fault("expire")
  /\ claim' = [claim EXCEPT ![e] = NoOwner]
  /\ seen' = [seen EXCEPT ![claim[e]] = @ \ {e}]
  /\ UNCHANGED <<turnVars, queue, pc, body, event, held, runs, copies, done,
                 stranded>>

DropConnection(i) ==
  /\ held[i]
  /\ Fault("conn")
  /\ TakeBack(i)
  /\ UNCHANGED <<turnVars, pc, body, event, claim, seen, runs, done, stranded>>

\* The process dies: its goroutines and its local set are gone, the broker
\* takes the delivery back, a claim it had stays.
Crash(i) ==
  /\ Fault("crash")
  /\ TakeBack(i)
  /\ stranded' = IF pc[i] \in WorkingSteps
                   THEN stranded \cup {event[i].id} ELSE stranded
  /\ seen' = [seen EXCEPT ![i] = {}]
  /\ jobs' = [jobs EXCEPT ![i] = 0]
  /\ turn' = [t \in Turns |->
                IF home[t] = i /\ turn[t] \in {"answered", "slot", "local"}
                  THEN "dead" ELSE turn[t]]
  /\ Goto(i, "idle")
  /\ UNCHANGED <<home, body, event, claim, runs, done>>

----------------------------------------------------------------------------

Init ==
  /\ turn = [t \in Turns |-> "answered"]
  /\ jobs = [i \in Instances |-> 0]
  /\ home \in [Turns -> Instances]
  /\ queue = [q \in QueueNames |-> [m \in Messages |-> 0]]
  /\ pc = [i \in Instances |-> "idle"]
  /\ body \in [Instances -> {[id |-> CHOOSE e \in Events : TRUE, attempt |-> 0]}]
  /\ event = body
  /\ held = [i \in Instances |-> FALSE]
  /\ claim = [e \in Events |-> NoOwner]
  /\ seen = [i \in Instances |-> {}]
  /\ runs = [e \in Events |-> 0]
  /\ copies = [e \in Events |-> 0]
  /\ done = {}
  /\ stranded = {}
  /\ faults = 0

Persisting(t) ==
  \/ EnqueueEvent(t) \/ NotReady(t) \/ AcquireSlot(t) \/ SlotTimeout(t)
  \/ LocalExtract(t)

Handler(i) ==
  \/ Deliver(i) \/ Claim(i) \/ Extract(i) \/ PublishRetry(i) \/ GiveUp(i)
  \/ PublishDLQ(i) \/ Release(i) \/ Ack(i) \/ NackRequeue(i)

Next ==
  \/ \E t \in Turns : Persisting(t)
  \/ \E i \in Instances : Handler(i) \/ DropConnection(i) \/ Crash(i)
  \/ \E m \in Messages : RetryExpire(m)
  \/ \E e \in Events : ExpireClaim(e)

Spec == Init /\ [][Next]_vars

----------------------------------------------------------------------------
(* Properties *)

\* The shape of the state.
TypeOK ==
  /\ turn \in [Turns -> TurnSteps]
  /\ jobs \in [Instances -> 0..MaxJobs]
  /\ home \in [Turns -> Instances]
  /\ queue \in [QueueNames -> [Messages -> Nat]]
  /\ pc \in [Instances -> HandlerSteps]
  /\ body \in [Instances -> Messages]
  /\ event \in [Instances -> Messages]
  /\ held \in [Instances -> BOOLEAN]
  /\ claim \in [Events -> Instances \cup {NoOwner}]
  /\ seen \in [Instances -> SUBSET Events]
  /\ runs \in [Events -> Nat]
  /\ copies \in [Events -> Nat]
  /\ done \subseteq Events
  /\ stranded \subseteq Events
  /\ faults \in Nat

\* Every loss has one of the known causes: an event that reached the broker
\* is extracted, in a queue, with a handler, or it is one whose claim was
\* left standing (a crash, a requeued delivery, a failed or late release).
\* In particular a redelivery after a dropped connection, an expired claim,
\* a Redis error on Claim, an ambiguous publish and a single failed publish
\* lose nothing, whatever their order.
LossesAccounted ==
  \A e \in Events : copies[e] > 0 =>
    \/ e \in done \cup stranded
    \/ \E q \in QueueNames, m \in Messages : m.id = e /\ queue[q][m] > 0
    \/ \E i \in Instances : event[i].id = e /\ pc[i] \in WorkingSteps \cup {"claim"}

\* Every taken slot belongs to a goroutine that will give it back: slots do
\* not leak, not even when a process dies or a wait times out, and no more
\* than MaxJobs goroutines extract at once on one instance.
SlotsMatchJobs ==
  \A i \in Instances :
    /\ jobs[i] = Cardinality({t \in Turns : home[t] = i /\ turn[t] = "local"})
    /\ jobs[i] <= MaxJobs

\* The dead letters hold an event only after its last attempt, or after a
\* failed publish: no event is given up while attempts are left.
DeadLettersAreFinal ==
  faults = 0 =>
    \A m \in Messages : queue["dlq"][m] > 0 =>
      m.attempt = MaxRetries /\ runs[m.id] > MaxRetries

=============================================================================
