--------------------------- MODULE ChangeAnalysis ---------------------------
(***************************************************************************)
(* From a change event's webhook to the analysis card in the chat group.   *)
(* A sender may deliver one change several times, to any instance.  Ingest *)
(* reserves the change's dedupe key, saves the event and hands copies to   *)
(* handlers; the proactive analyzer debounces by service and starts an     *)
(* AIOps run, whose dispatch goroutine records task, trace index, status   *)
(* and result in the Redis ledger; the follow-up notifier polls the ledger *)
(* by trace id and posts one card.                                         *)
(*                                                                         *)
(*   internal/ai/changeevent/bus.go               Ingest                   *)
(*   internal/ai/changeevent/redis_store.go       dedupe key, Save         *)
(*   internal/ai/changeevent/proactive.go         analyzer, debounce       *)
(*   internal/ai/changeevent/analysis_tracker.go  event id -> trace id     *)
(*   internal/ai/service/ai_ops_service.go        RunAIOpsAsync            *)
(*   internal/ai/runtime/runtime.go               Dispatch                 *)
(*   internal/ai/runtime/redis_ledger.go          the ledger               *)
(*   internal/infra/notifier/feishu_analysis.go   pollAndSend              *)
(*                                                                         *)
(* Every delivery carries a fresh event id, so the delivery names the      *)
(* event, its analysis, its task and its trace.  All changes are about one *)
(* service.  Every Redis command is one action; reads that only decide to  *)
(* try again are stuttering steps.                                         *)
(***************************************************************************)
EXTENDS Naturals

CONSTANTS
  Deliveries,   \* webhook calls, redeliveries included
  Changes,      \* dedupe keys
  Instances,    \* processes
  NoDelivery,   \* a dedupe key that is not set
  CaFaults,       \* the kinds of failure that may happen
  MaxFaults     \* bound: how many do

CaFaultKinds == { "redis",      \* a command errs, applied or not
                "webhook",    \* the card is not accepted
                "slow",       \* the analyzer takes longer than the timer
                "impatient",  \* polling ends before the analysis does
                "crash" }     \* an instance dies and is restarted

ASSUME NoDeliveryAssumption == NoDelivery \notin Deliveries
ASSUME CaFaultsAssumption == CaFaults \subseteq CaFaultKinds
ASSUME MaxFaultsAssumption == MaxFaults \in Nat

VARIABLES
  change,    \* the change each delivery is about
  at,        \* the instance it reaches
  ingest,    \* where the call of Ingest stands
  key,       \* Redis: the dedupe key of each change
  muted,     \* the debounce window of each instance is running
  analyzer,  \* where ProactiveAnalyzer.Handle stands
  tracked,   \* events with a record in their instance's AnalysisTracker
  dispatch,  \* where the dispatch goroutine stands
  agent,     \* the agent's goroutine: idle, running, or what it returned
  reply,     \* what executeAgent gave the dispatch
  task,      \* Redis: the task's status, "none" if absent
  trace,     \* Redis: the trace index has the task
  stored,    \* Redis: the result's status, "none" if absent
  poller,    \* where the follow-up notifier stands
  card,      \* the card posted: none, timeout, or a result's status
  faults     \* failures so far

ingestVars == <<ingest, key>>
dispatchVars == <<dispatch, agent, reply, task, trace, stored>>
cardVars == <<poller, card>>
caVars == <<change, at, ingestVars, muted, analyzer, tracked, dispatchVars,
          cardVars, faults>>

\* The commands of RedisChangeEventStore.Save that end it when they fail.
SaveSteps == {"data", "time", "service", "key"}
AfterSaved(step) == CASE step = "data" -> "time"
                     [] step = "time" -> "service"
                     [] step = "service" -> "key"
                     [] step = "key" -> "fanout"

Results == {"succeeded", "degraded", "failed"}
Outcomes == Results \cup {"error"}
TaskStatuses == {"pending", "running", "succeeded", "failed"}

Ingesting == {"new", "lookup", "release", "fanout"} \cup SaveSteps
IngestEnds == {"accepted", "duplicate", "rejected", "dead"}
Analyzing == {"handle", "run", "store"}
AnalyzerEnds == {"skipped", "debounced", "untracked", "tracked", "dead"}
Dispatching == {"create", "index", "start", "agent", "append", "status"}
DispatchEnds == {"stopped", "ended", "dead"}
Polling == {"timer", "poll"}
PollerEnds == {"missed", "over", "dead"}

-----------------------------------------------------------------------------
\* Failures.

CanFail(kind) == kind \in CaFaults /\ faults < MaxFaults
Fault(kind) == CanFail(kind) /\ faults' = faults + 1
NoFault == UNCHANGED faults

\* A Redis command: its effect, or an error that may hide the effect.
RedisCommand(effect, nothing) ==
  \/ effect /\ NoFault
  \/ (effect \/ nothing) /\ Fault("redis")

-----------------------------------------------------------------------------
\* ChangeEventBus.Ingest.

\* SET NX on the dedupe key.
KeyTakenM(c) == key[c] # NoDelivery /\ ingest[key[c]] = "accepted"
KeyTaken(c) == key[c] # NoDelivery

Reserve(d) ==
  /\ ingest[d] = "new"
  /\ \/ /\ KeyTaken(change[d])
        /\ ingest' = [ingest EXCEPT ![d] = "lookup"]
        /\ UNCHANGED key /\ NoFault
     \/ /\ ~KeyTaken(change[d])
        /\ ingest' = [ingest EXCEPT ![d] = "data"]
        /\ key' = [key EXCEPT ![change[d]] = d]
        /\ NoFault
     \/ /\ ingest' = [ingest EXCEPT ![d] = "rejected"]
        /\ \/ UNCHANGED key
           \/ ~KeyTaken(change[d]) /\ key' = [key EXCEPT ![change[d]] = d]
        /\ Fault("redis")
  /\ UNCHANGED <<change, at, muted, analyzer, tracked, dispatchVars, cardVars>>

\* A duplicate is answered with the id under the key.
Lookup(d) ==
  /\ ingest[d] = "lookup"
  /\ \/ ingest' = [ingest EXCEPT ![d] = "duplicate"] /\ NoFault
     \/ ingest' = [ingest EXCEPT ![d] = "rejected"] /\ Fault("redis")
  /\ UNCHANGED <<change, at, key, muted, analyzer, tracked, dispatchVars, cardVars>>

\* Save writes the event, two indexes and the key again, in this order.
Save(d) ==
  /\ ingest[d] \in SaveSteps
  /\ LET written == IF ingest[d] = "key"
                      THEN key' = [key EXCEPT ![change[d]] = d]
                      ELSE UNCHANGED key
     IN \/ /\ ingest' = [ingest EXCEPT ![d] = AfterSaved(ingest[d])]
           /\ written /\ NoFault
        \/ /\ ingest' = [ingest EXCEPT ![d] = "release"]
           /\ written \/ UNCHANGED key
           /\ Fault("redis")
  /\ UNCHANGED <<change, at, muted, analyzer, tracked, dispatchVars, cardVars>>

\* A failed save gives the key back, errors ignored, and reports failure.
Release(d) ==
  /\ ingest[d] = "release"
  /\ RedisCommand(key' = [key EXCEPT ![change[d]] = NoDelivery], UNCHANGED key)
  /\ ingest' = [ingest EXCEPT ![d] = "rejected"]
  /\ UNCHANGED <<change, at, muted, analyzer, tracked, dispatchVars, cardVars>>

\* Each handler gets its copy in a goroutine; the notifier arms its timer.
FanOut(d) ==
  /\ ingest[d] = "fanout"
  /\ ingest' = [ingest EXCEPT ![d] = "accepted"]
  /\ analyzer' = [analyzer EXCEPT ![d] = "handle"]
  /\ poller' = [poller EXCEPT ![d] = "timer"]
  /\ UNCHANGED <<change, at, key, muted, tracked, dispatchVars, card, faults>>

Ingest(d) == Reserve(d) \/ Lookup(d) \/ Save(d) \/ Release(d) \/ FanOut(d)

-----------------------------------------------------------------------------
\* ProactiveAnalyzer.Handle.

\* shouldInspect turns the event away, or IsDuplicate checks and sets the
\* service's window under its mutex.
Inspect(d) ==
  /\ analyzer[d] = "handle"
  /\ \/ analyzer' = [analyzer EXCEPT ![d] = "skipped"] /\ UNCHANGED muted
     \/ /\ at[d] \in muted
        /\ analyzer' = [analyzer EXCEPT ![d] = "debounced"] /\ UNCHANGED muted
     \/ /\ at[d] \notin muted
        /\ muted' = muted \cup {at[d]}
        /\ analyzer' = [analyzer EXCEPT ![d] = "run"]
  /\ UNCHANGED <<change, at, ingestVars, tracked, dispatchVars, cardVars, faults>>

\* RunAIOpsAsync fails, answers without a trace (off, degraded, waiting for
\* approval), or returns the trace of a run its goroutine will dispatch.
RunAsync(d) ==
  /\ analyzer[d] = "run"
  /\ \/ analyzer' = [analyzer EXCEPT ![d] = "untracked"] /\ UNCHANGED dispatch
     \/ /\ analyzer' = [analyzer EXCEPT ![d] = "store"]
        /\ dispatch' = [dispatch EXCEPT ![d] = "create"]
  /\ UNCHANGED <<change, at, ingestVars, muted, tracked, agent, reply, task,
                 trace, stored, cardVars, faults>>

Track(d) ==
  /\ analyzer[d] = "store"
  /\ analyzer' = [analyzer EXCEPT ![d] = "tracked"]
  /\ tracked' = tracked \cup {d}
  /\ UNCHANGED <<change, at, ingestVars, muted, dispatchVars, cardVars, faults>>

Analyze(d) == Inspect(d) \/ RunAsync(d) \/ Track(d)

\* The debounce window of an instance passes.
WindowEnds(i) ==
  /\ i \in muted
  /\ muted' = muted \ {i}
  /\ UNCHANGED <<change, at, ingestVars, analyzer, tracked, dispatchVars, cardVars,
                 faults>>

-----------------------------------------------------------------------------
\* Runtime.Dispatch on the Redis ledger, in the goroutine of RunAIOpsAsync.

\* A task that cannot be created is not run and has no result.
CreateTask(d) ==
  /\ dispatch[d] = "create"
  /\ \/ /\ task' = [task EXCEPT ![d] = "pending"]
        /\ dispatch' = [dispatch EXCEPT ![d] = "index"] /\ NoFault
     \/ /\ task' = [task EXCEPT ![d] = "pending"] \/ UNCHANGED task
        /\ dispatch' = [dispatch EXCEPT ![d] = "stopped"] /\ Fault("redis")
  /\ UNCHANGED <<change, at, ingestVars, muted, analyzer, tracked, agent,
                 reply, trace, stored, cardVars>>

\* The index's error is dropped.
IndexTrace(d) ==
  /\ dispatch[d] = "index"
  /\ RedisCommand(trace' = trace \cup {d}, UNCHANGED trace)
  /\ dispatch' = [dispatch EXCEPT ![d] = "start"]
  /\ UNCHANGED <<change, at, ingestVars, muted, analyzer, tracked, agent,
                 reply, task, stored, cardVars>>

\* UpdateTaskStatus to running, then executeAgent starts the agent.
StartAgent(d) ==
  /\ dispatch[d] = "start"
  /\ RedisCommand(task' = [task EXCEPT ![d] = "running"], UNCHANGED task)
  /\ dispatch' = [dispatch EXCEPT ![d] = "agent"]
  /\ agent' = [agent EXCEPT ![d] = "running"]
  /\ UNCHANGED <<change, at, ingestVars, muted, analyzer, tracked, reply,
                 trace, stored, cardVars>>

\* The agent's goroutine puts its answer into the buffered channel, in time
\* or not.
AgentReturns(d) ==
  /\ agent[d] = "running"
  /\ \E o \in Outcomes : agent' = [agent EXCEPT ![d] = o]
  /\ UNCHANGED <<change, at, ingestVars, muted, analyzer, tracked, dispatch,
                 reply, task, trace, stored, cardVars, faults>>

\* executeAgent selects only while it has not returned.
ListeningM(d) == dispatch[d] \in {"agent", "ended"}
Listening(d) == dispatch[d] = "agent"

Receive(d) ==
  /\ Listening(d) /\ agent[d] \in Outcomes
  /\ reply' = [reply EXCEPT ![d] = agent[d]]
  /\ dispatch' = [dispatch EXCEPT ![d] = "append"]
  /\ UNCHANGED <<change, at, ingestVars, muted, analyzer, tracked, agent, task,
                 trace, stored, cardVars, faults>>

\* The context's deadline may win, the agent having answered or not.
DeadlineRunsM(d) == dispatch[d] = "agent" /\ agent[d] \in Outcomes
DeadlineRuns(d) == dispatch[d] = "agent"

Deadline(d) ==
  /\ DeadlineRuns(d)
  /\ reply' = [reply EXCEPT ![d] = "error"]
  /\ dispatch' = [dispatch EXCEPT ![d] = "append"]
  /\ UNCHANGED <<change, at, ingestVars, muted, analyzer, tracked, agent, task,
                 trace, stored, cardVars, faults>>

\* The failure of an error or a deadline is stored like a result.
ResultOf(o) == IF o = "error" THEN "failed" ELSE o

StatusOf(o) == IF ResultOf(o) = "failed" THEN "failed" ELSE "succeeded"

\* A result that cannot be appended ends the dispatch, a failure does not.
AfterAppendErrorM(o) == "status"
AfterAppendError(o) == IF o = "error" THEN "status" ELSE "stopped"

AppendResult(d) ==
  /\ dispatch[d] = "append"
  /\ LET appended == stored' = [stored EXCEPT ![d] = ResultOf(reply[d])]
     IN \/ /\ appended /\ NoFault
           /\ dispatch' = [dispatch EXCEPT ![d] = "status"]
        \/ /\ appended \/ UNCHANGED stored
           /\ dispatch' = [dispatch EXCEPT ![d] = AfterAppendError(reply[d])]
           /\ Fault("redis")
  /\ UNCHANGED <<change, at, ingestVars, muted, analyzer, tracked, agent,
                 reply, task, trace, cardVars>>

UpdateStatus(d) ==
  /\ dispatch[d] = "status"
  /\ RedisCommand(task' = [task EXCEPT ![d] = StatusOf(reply[d])], UNCHANGED task)
  /\ dispatch' = [dispatch EXCEPT ![d] = "ended"]
  /\ UNCHANGED <<change, at, ingestVars, muted, analyzer, tracked, agent,
                 reply, trace, stored, cardVars>>

Dispatch(d) ==
  \/ CreateTask(d) \/ IndexTrace(d) \/ StartAgent(d)
  \/ Receive(d) \/ Deadline(d) \/ AppendResult(d) \/ UpdateStatus(d)

-----------------------------------------------------------------------------
\* FeishuAnalysisNotifier.pollAndSend.

\* The timer fires three seconds after the fan-out, normally once the
\* analyzer is done; without a record there is nothing to follow up.
TimerFires(d) ==
  /\ poller[d] = "timer"
  /\ IF analyzer[d] \in Analyzing THEN Fault("slow") ELSE NoFault
  /\ poller' = [poller EXCEPT ![d] = IF d \in tracked THEN "poll" ELSE "missed"]
  /\ UNCHANGED <<change, at, ingestVars, muted, analyzer, tracked, dispatchVars, card>>

\* Post the card, once; the record is deleted whether or not it arrived.
Send(d, c) ==
  /\ \/ card' = [card EXCEPT ![d] = c] /\ NoFault
     \/ UNCHANGED card /\ Fault("webhook")
  /\ poller' = [poller EXCEPT ![d] = "over"]
  /\ tracked' = tracked \ {d}
  /\ UNCHANGED <<change, at, ingestVars, muted, analyzer, dispatchVars>>

\* ResultByTraceID: trace index, then task, then result.
ReachableM(d) == d \in trace /\ task[d] = "succeeded" /\ stored[d] # "none"
Reachable(d) == d \in trace /\ task[d] # "none" /\ stored[d] # "none"

Poll(d) == poller[d] = "poll" /\ Reachable(d) /\ Send(d, stored[d])

\* The deadline passes.  It is longer than the dispatch's timeout, so by then
\* the dispatch has ended and a result would have been found.
GiveUp(d) ==
  /\ poller[d] = "poll"
  /\ dispatch[d] \in DispatchEnds /\ ~Reachable(d)
  /\ Send(d, "timeout")

\* The deadline passes too early: the dispatch's timeout is configured above
\* it, or the polls that would have found the result could not read Redis.
Impatient(d) ==
  /\ poller[d] = "poll"
  /\ \/ dispatch[d] \in Dispatching /\ Fault("impatient")
     \/ Reachable(d) /\ Fault("redis")
  /\ card' = [card EXCEPT ![d] = "timeout"]
  /\ poller' = [poller EXCEPT ![d] = "over"]
  /\ tracked' = tracked \ {d}
  /\ UNCHANGED <<change, at, ingestVars, muted, analyzer, dispatchVars>>

FollowUp(d) == TimerFires(d) \/ Poll(d) \/ GiveUp(d)

-----------------------------------------------------------------------------
\* A process dies with its goroutines and its memory; Redis stays.
InstanceCrash(i) ==
  LET here == {d \in Deliveries : at[d] = i}
      Killed(f, alive) ==
        [d \in Deliveries |-> IF d \in here /\ f[d] \in alive THEN "dead" ELSE f[d]]
  IN /\ Fault("crash")
     /\ ingest' = Killed(ingest, Ingesting \ {"new"})
     /\ analyzer' = Killed(analyzer, Analyzing)
     /\ dispatch' = Killed(dispatch, Dispatching)
     /\ agent' = Killed(agent, {"running"})
     /\ poller' = Killed(poller, Polling)
     /\ muted' = muted \ {i}
     /\ tracked' = tracked \ here
     /\ UNCHANGED <<change, at, key, reply, task, trace, stored, card>>

CaInit ==
  /\ change \in [Deliveries -> Changes]
  /\ at \in [Deliveries -> Instances]
  /\ ingest = [d \in Deliveries |-> "new"]
  /\ key = [c \in Changes |-> NoDelivery]
  /\ muted = {}
  /\ analyzer = [d \in Deliveries |-> "none"]
  /\ tracked = {}
  /\ dispatch = [d \in Deliveries |-> "none"]
  /\ agent = [d \in Deliveries |-> "idle"]
  /\ reply = [d \in Deliveries |-> "none"]
  /\ task = [d \in Deliveries |-> "none"]
  /\ trace = {}
  /\ stored = [d \in Deliveries |-> "none"]
  /\ poller = [d \in Deliveries |-> "none"]
  /\ card = [d \in Deliveries |-> "none"]
  /\ faults = 0

CaNext ==
  \/ \E d \in Deliveries :
       \/ Ingest(d) \/ Analyze(d) \/ Dispatch(d) \/ AgentReturns(d)
       \/ FollowUp(d) \/ Impatient(d)
  \/ \E i \in Instances : WindowEnds(i) \/ InstanceCrash(i)

CaSpec == CaInit /\ [][CaNext]_caVars

\* The scheduler runs every goroutine that can run, deadlines and timers
\* fire; the agent need not ever return.
CaLiveSpec ==
  /\ CaSpec
  /\ \A d \in Deliveries :
       /\ WF_caVars(Ingest(d)) /\ WF_caVars(Analyze(d))
       /\ WF_caVars(Dispatch(d)) /\ WF_caVars(FollowUp(d))

-----------------------------------------------------------------------------
\* Every variable holds what the code may store in it; a task's status is
\* one of protocol.TaskStatus.
CaTypeOK ==
  /\ change \in [Deliveries -> Changes]
  /\ at \in [Deliveries -> Instances]
  /\ ingest \in [Deliveries -> Ingesting \cup IngestEnds]
  /\ key \in [Changes -> Deliveries \cup {NoDelivery}]
  /\ muted \subseteq Instances
  /\ analyzer \in [Deliveries -> {"none"} \cup Analyzing \cup AnalyzerEnds]
  /\ tracked \subseteq Deliveries
  /\ dispatch \in [Deliveries -> {"none"} \cup Dispatching \cup DispatchEnds]
  /\ agent \in [Deliveries -> {"idle", "running", "dead"} \cup Outcomes]
  /\ reply \in [Deliveries -> {"none"} \cup Outcomes]
  /\ task \in [Deliveries -> {"none"} \cup TaskStatuses]
  /\ trace \subseteq Deliveries
  /\ stored \in [Deliveries -> {"none"} \cup Results]
  /\ poller \in [Deliveries -> {"none"} \cup Polling \cup PollerEnds]
  /\ card \in [Deliveries -> {"none", "timeout"} \cup Results]
  /\ faults \in 0..MaxFaults

\* A change redelivered to any instance, its saves failing and its key being
\* released in between, is handed to the handlers at most once
\* (Ingest, ReserveDedupeKey, ReleaseDedupeKey).
OneFanOut ==
  \A d, e \in Deliveries :
    /\ d # e /\ change[d] = change[e]
    /\ ingest[d] = "accepted"
    => ingest[e] # "accepted"

\* A task shown as succeeded has a stored result that is not a failure:
\* Dispatch appends the result before the status and stops when it cannot.
SucceededHasResult ==
  \A d \in Deliveries :
    task[d] = "succeeded" => stored[d] \in {"succeeded", "degraded"}

\* The answer posted to the group is the one the ledger holds ever after: an
\* agent that answers past its deadline changes nothing (executeAgent).
CardStands ==
  \A d \in Deliveries : card[d] \in Results => card[d] = stored[d]

\* As long as nothing failed, an analysis that was tracked is followed up by
\* its result, never by a timeout card, even when the agent hangs: the
\* deadline's failure is stored and found by trace id.
NoFalseTimeout ==
  faults = 0 =>
    \A d \in Deliveries :
      poller[d] \in PollerEnds /\ analyzer[d] = "tracked" => card[d] \in Results

\* Every analysis that was tracked is followed up, whatever Redis does and
\* whether or not the agent returns; only a dead process or a timer that
\* fired before the analyzer was done keeps the notifier from posting.
FollowedUp ==
  \A d \in Deliveries :
    (analyzer[d] = "tracked") ~> (poller[d] \in PollerEnds)

=============================================================================
