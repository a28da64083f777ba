------------------------ MODULE ChangeAnalysisProofs ------------------------
(***************************************************************************)
(* Proofs about change ingestion and analysis, for every set of deliveries,*)
(* changes and instances and for every combination of failures.            *)
(***************************************************************************)
EXTENDS ChangeAnalysis, TLAPS

----------------------------------------------------------------------------
(* The inductive invariants *)

Holding == SaveSteps \cup {"release", "fanout", "accepted"}

\* A delivery that reserved its change and has not given it back is the one
\* under the key.
KeyInv == \A d \in Deliveries : ingest[d] \in Holding => key[change[d]] = d

\* A dispatch that passed executeAgent has its outcome.
OutcomeInv ==
  \A d \in Deliveries : dispatch[d] \in {"append", "status"} => reply[d] # "none"

TypeInv == CaTypeOK /\ OutcomeInv

\* The analyzer starts with the fan-out, the dispatch with the analyzer; a
\* result is stored after the agent's outcome and never again, a task
\* succeeds after its result.
ResultInv ==
  \A d \in Deliveries :
    /\ analyzer[d] # "none" => ingest[d] = "accepted"
    /\ analyzer[d] \in {"none", "handle", "run"} => dispatch[d] = "none"
    /\ stored[d] # "none" => dispatch[d] \in {"status"} \cup DispatchEnds
    /\ dispatch[d] = "status" /\ reply[d] # "error" => stored[d] = reply[d]
    /\ task[d] = "succeeded" => dispatch[d] \in {"ended", "dead"}

\* How far the notifier and the ledger are as long as nothing failed.
CalmInv ==
  \A d \in Deliveries :
    /\ poller[d] \in {"poll"} \cup PollerEnds =>
         analyzer[d] \notin {"none"} \cup Analyzing
    /\ poller[d] = "timer" => analyzer[d] # "none"
    /\ poller[d] \in {"none"} \cup Polling /\ analyzer[d] = "tracked" =>
         d \in tracked
    /\ poller[d] \in PollerEnds /\ analyzer[d] = "tracked" => card[d] \in Results
    /\ dispatch[d] \notin {"stopped", "dead"}
    /\ dispatch[d] \in (Dispatching \ {"create"}) \cup DispatchEnds =>
         task[d] # "none"
    /\ dispatch[d] \in (Dispatching \ {"create", "index"}) \cup DispatchEnds =>
         d \in trace
    /\ dispatch[d] \in {"status", "ended"} => stored[d] # "none"

----------------------------------------------------------------------------
(* Types *)

LEMMA TypeInit == CaInit => TypeInv
BY MaxFaultsAssumption
DEF CaInit, TypeInv, CaTypeOK, OutcomeInv, Ingesting, Dispatching

\* Every step counts a failure or leaves the count alone, within its bound.
LEMMA FaultsType ==
  ASSUME CaTypeOK, [CaNext]_caVars
  PROVE  faults' \in 0..MaxFaults /\ faults' >= faults
<1> USE MaxFaultsAssumption DEF CaTypeOK, Fault, CanFail, NoFault
<1>1. CASE UNCHANGED caVars
  BY <1>1 DEF caVars
<1>2. ASSUME NEW d \in Deliveries, Ingest(d)
      PROVE  faults' \in 0..MaxFaults /\ faults' >= faults
  BY <1>2 DEF Ingest, Reserve, Lookup, Save, Release, FanOut, RedisCommand
<1>3. ASSUME NEW d \in Deliveries, Analyze(d) \/ AgentReturns(d)
      PROVE  faults' \in 0..MaxFaults /\ faults' >= faults
  BY <1>3 DEF Analyze, Inspect, RunAsync, Track, AgentReturns
<1>4. ASSUME NEW d \in Deliveries, Dispatch(d)
      PROVE  faults' \in 0..MaxFaults /\ faults' >= faults
  BY <1>4 DEF Dispatch, CreateTask, IndexTrace, StartAgent, Receive, Deadline,
              AppendResult, UpdateStatus, RedisCommand
<1>5. ASSUME NEW d \in Deliveries, FollowUp(d) \/ Impatient(d)
      PROVE  faults' \in 0..MaxFaults /\ faults' >= faults
  BY <1>5 DEF FollowUp, TimerFires, Poll, GiveUp, Send, Impatient
<1>6. ASSUME NEW i \in Instances, WindowEnds(i) \/ InstanceCrash(i)
      PROVE  faults' \in 0..MaxFaults /\ faults' >= faults
  BY <1>6 DEF WindowEnds, InstanceCrash
<1> QED
  BY <1>1, <1>2, <1>3, <1>4, <1>5, <1>6 DEF CaNext

LEMMA IngestType ==
  ASSUME TypeInv, NEW d \in Deliveries, Ingest(d)
  PROVE  TypeInv'
<1> USE DEF TypeInv, CaTypeOK, OutcomeInv, dispatchVars, cardVars
<1>0. faults' \in 0..MaxFaults
  BY FaultsType DEF CaNext
<1>1. CASE Reserve(d)
  BY <1>0, <1>1 DEF Reserve, SaveSteps, Ingesting, IngestEnds
<1>2. CASE Lookup(d)
  BY <1>0, <1>2 DEF Lookup, IngestEnds
<1>3. CASE Save(d)
  <2>1. AfterSaved(ingest[d]) \in Ingesting
    BY <1>3 DEF Save, SaveSteps, AfterSaved, Ingesting
  <2>2. ingest' \in [Deliveries -> Ingesting \cup IngestEnds]
    BY <1>3, <2>1 DEF Save, Ingesting
  <2>3. key' \in [Changes -> Deliveries \cup {NoDelivery}]
    BY <1>3 DEF Save
  <2> QED
    BY <1>0, <1>3, <2>2, <2>3 DEF Save
<1>4. CASE Release(d)
  <2>1. key' \in [Changes -> Deliveries \cup {NoDelivery}]
    BY <1>4 DEF Release, RedisCommand
  <2> QED
    BY <1>0, <1>4, <2>1 DEF Release, IngestEnds
<1>5. CASE FanOut(d)
  BY <1>0, <1>5 DEF FanOut, IngestEnds, Analyzing, Polling
<1> QED
  BY <1>1, <1>2, <1>3, <1>4, <1>5 DEF Ingest

LEMMA AnalyzeType ==
  ASSUME TypeInv, NEW d \in Deliveries, Analyze(d)
  PROVE  TypeInv'
<1> USE DEF TypeInv, CaTypeOK, OutcomeInv, ingestVars, dispatchVars, cardVars,
            Analyzing, AnalyzerEnds
<1>1. CASE Inspect(d)
  BY <1>1 DEF Inspect
<1>2. CASE RunAsync(d)
  BY <1>2 DEF RunAsync, Dispatching
<1>3. CASE Track(d)
  BY <1>3 DEF Track
<1> QED
  BY <1>1, <1>2, <1>3 DEF Analyze

LEMMA DispatchType ==
  ASSUME TypeInv, NEW d \in Deliveries, Dispatch(d) \/ AgentReturns(d)
  PROVE  TypeInv'
<1> USE DEF TypeInv, CaTypeOK, OutcomeInv, ingestVars, cardVars,
            Dispatching, DispatchEnds, TaskStatuses, Outcomes, Results
<1>0. faults' \in 0..MaxFaults
  BY FaultsType DEF CaNext
<1>1. CASE CreateTask(d)
  BY <1>0, <1>1 DEF CreateTask
<1>2. CASE IndexTrace(d)
  BY <1>0, <1>2 DEF IndexTrace, RedisCommand
<1>3. CASE StartAgent(d)
  BY <1>0, <1>3 DEF StartAgent, RedisCommand
<1>4. CASE Receive(d)
  BY <1>4 DEF Receive, Listening
<1>5. CASE Deadline(d)
  BY <1>5 DEF Deadline
<1>6. CASE AppendResult(d)
  <2>1. ResultOf(reply[d]) \in Results
    BY <1>6 DEF AppendResult, ResultOf
  <2>2. stored' \in [Deliveries -> {"none"} \cup Results]
    BY <1>6, <2>1 DEF AppendResult
  <2>3. dispatch' \in [Deliveries -> {"none"} \cup Dispatching \cup DispatchEnds]
    BY <1>6 DEF AppendResult, AfterAppendError
  <2>4. \A e \in Deliveries : dispatch'[e] = "status" => reply[e] # "none"
    BY <1>6 DEF AppendResult
  <2>5. \A e \in Deliveries : dispatch'[e] = "append" => reply[e] # "none"
    BY <1>6 DEF AppendResult, AfterAppendError
  <2> QED
    BY <1>0, <1>6, <2>2, <2>3, <2>4, <2>5 DEF AppendResult
<1>7. CASE UpdateStatus(d)
  <2>1. task' \in [Deliveries -> {"none"} \cup TaskStatuses]
    BY <1>7 DEF UpdateStatus, RedisCommand, StatusOf
  <2> QED
    BY <1>0, <1>7, <2>1 DEF UpdateStatus
<1>8. CASE AgentReturns(d)
  BY <1>8 DEF AgentReturns
<1> QED
  BY <1>1, <1>2, <1>3, <1>4, <1>5, <1>6, <1>7, <1>8 DEF Dispatch

LEMMA FollowUpType ==
  ASSUME TypeInv, NEW d \in Deliveries, FollowUp(d) \/ Impatient(d)
  PROVE  TypeInv'
<1> USE DEF TypeInv, CaTypeOK, OutcomeInv, ingestVars, dispatchVars, Polling, PollerEnds
<1>0. faults' \in 0..MaxFaults
  BY FaultsType DEF CaNext
<1>1. CASE TimerFires(d)
  BY <1>0, <1>1 DEF TimerFires
<1>2. CASE Poll(d)
  BY <1>0, <1>2 DEF Poll, Send, Reachable
<1>3. CASE GiveUp(d)
  BY <1>0, <1>3 DEF GiveUp, Send
<1>4. CASE Impatient(d)
  BY <1>0, <1>4 DEF Impatient
<1> QED
  BY <1>1, <1>2, <1>3, <1>4 DEF FollowUp

LEMMA InstanceType ==
  ASSUME TypeInv, NEW i \in Instances, WindowEnds(i) \/ InstanceCrash(i)
  PROVE  TypeInv'
<1> USE DEF TypeInv, CaTypeOK, OutcomeInv
<1>0. faults' \in 0..MaxFaults
  BY FaultsType DEF CaNext
<1>1. CASE WindowEnds(i)
  BY <1>1 DEF WindowEnds, ingestVars, dispatchVars, cardVars
<1>2. CASE InstanceCrash(i)
  BY <1>0, <1>2 DEF InstanceCrash, IngestEnds, AnalyzerEnds, DispatchEnds, PollerEnds
<1> QED
  BY <1>1, <1>2

LEMMA TypeStep ==
  ASSUME TypeInv, [CaNext]_caVars
  PROVE  TypeInv'
<1>1. CASE UNCHANGED caVars
  BY <1>1 DEF caVars, ingestVars, dispatchVars, cardVars, TypeInv, CaTypeOK, OutcomeInv
<1> QED
  BY <1>1, IngestType, AnalyzeType, DispatchType, FollowUpType, InstanceType
  DEF CaNext

\* Tasks, results and cards only ever take the values the code gives them,
\* and failures stay within their bound (every handler of the module).
THEOREM TypeCorrect == CaSpec => []CaTypeOK
<1>1. TypeInv => CaTypeOK
  BY DEF TypeInv
<1> QED
  BY <1>1, TypeInit, TypeStep, PTL DEF CaSpec

LEMMA TypeInvariance == CaSpec => []TypeInv
BY TypeInit, TypeStep, PTL DEF CaSpec

----------------------------------------------------------------------------
(* One fan-out per change *)

LEMMA KeyStep ==
  ASSUME TypeInv, KeyInv, [CaNext]_caVars
  PROVE  KeyInv'
<1> USE DEF KeyInv, TypeInv, CaTypeOK
<1>1. CASE UNCHANGED caVars
  BY <1>1 DEF caVars, ingestVars
<1>2. ASSUME NEW d \in Deliveries, Ingest(d)
      PROVE  KeyInv'
  <2>1. CASE Reserve(d)
    BY <2>1, NoDeliveryAssumption
    DEF Reserve, KeyTaken, Holding, SaveSteps
  <2>2. CASE Lookup(d)
    BY <2>2 DEF Lookup, Holding, SaveSteps
  <2>3. CASE Save(d)
    <3>1. ingest[d] \in Holding /\ change' = change
      BY <2>3 DEF Save, Holding
    <3>2. key' = key
      BY <2>3, <3>1 DEF Save
    <3>3. \A e \in Deliveries : e # d => ingest'[e] = ingest[e]
      BY <2>3 DEF Save
    <3> QED
      BY <3>1, <3>2, <3>3
  <2>4. CASE Release(d)
    <3>1. ingest[d] \in Holding /\ ingest'[d] \notin Holding /\ change' = change
      BY <2>4 DEF Release, Holding, SaveSteps
    <3>2. \A c \in Changes : c # change[d] => key'[c] = key[c]
      BY <2>4 DEF Release, RedisCommand
    <3>3. \A e \in Deliveries : e # d => ingest'[e] = ingest[e]
      BY <2>4 DEF Release
    <3>4. \A e \in Deliveries \ {d} : ingest[e] \in Holding => change[e] # change[d]
      BY <3>1
    <3> QED
      BY <3>1, <3>2, <3>3, <3>4
  <2>5. CASE FanOut(d)
    BY <2>5 DEF FanOut, Holding
  <2> QED
    BY <1>2, <2>1, <2>2, <2>3, <2>4, <2>5 DEF Ingest
<1>3. ASSUME NEW i \in Instances, InstanceCrash(i)
      PROVE  KeyInv'
  <2>1. \A d \in Deliveries : ingest'[d] \in Holding => ingest'[d] = ingest[d]
    BY <1>3 DEF InstanceCrash, Holding, SaveSteps
  <2> QED
    BY <1>3, <2>1 DEF InstanceCrash
<1>4. ASSUME UNCHANGED <<change, ingestVars>>
      PROVE  KeyInv'
  BY <1>4 DEF ingestVars
<1>5. ASSUME NEW d \in Deliveries,
             Analyze(d) \/ Dispatch(d) \/ AgentReturns(d) \/ FollowUp(d) \/ Impatient(d)
      PROVE  UNCHANGED <<change, ingestVars>>
  BY <1>5
  DEF Analyze, Inspect, RunAsync, Track, Dispatch, CreateTask, IndexTrace,
      StartAgent, Receive, Deadline, AppendResult, UpdateStatus, AgentReturns,
      FollowUp, TimerFires, Poll, GiveUp, Send, Impatient
<1>6. ASSUME NEW i \in Instances, WindowEnds(i)
      PROVE  UNCHANGED <<change, ingestVars>>
  BY <1>6 DEF WindowEnds
<1> QED
  BY <1>1, <1>2, <1>3, <1>4, <1>5, <1>6 DEF CaNext

\* However often and wherever a change is delivered, and whatever fails, it
\* is handed to the handlers at most once (ReserveDedupeKey and Ingest).
THEOREM FannedOutOnce == CaSpec => []OneFanOut
<1>1. CaInit => KeyInv
  BY DEF CaInit, KeyInv, Holding, SaveSteps
<1>2. TypeInv /\ KeyInv => OneFanOut
  BY DEF TypeInv, CaTypeOK, KeyInv, OneFanOut, Holding
<1> QED
  BY <1>1, <1>2, TypeInvariance, KeyStep, PTL DEF CaSpec

----------------------------------------------------------------------------
(* Results, statuses and cards *)

\* What the invariants of this part keep through every step.
LEMMA ResultStep ==
  ASSUME TypeInv, ResultInv, CardStands, [CaNext]_caVars
  PROVE  ResultInv' /\ CardStands'
<1> USE DEF ResultInv, CardStands, TypeInv, CaTypeOK
<1>1. CASE UNCHANGED caVars
  BY <1>1 DEF caVars, ingestVars, dispatchVars, cardVars
<1>2. ASSUME NEW d \in Deliveries, Ingest(d)
      PROVE  ResultInv' /\ CardStands'
  <2>1. CASE Reserve(d) \/ Lookup(d) \/ Save(d) \/ Release(d)
    <3>1. ingest[d] # "accepted"
      BY <2>1 DEF Reserve, Lookup, Save, SaveSteps, Release
    <3>2. \A e \in Deliveries : e # d => ingest'[e] = ingest[e]
      BY <2>1 DEF Reserve, Lookup, Save, Release
    <3>3. UNCHANGED <<analyzer, dispatchVars, cardVars>>
      BY <2>1 DEF Reserve, Lookup, Save, Release
    <3> QED
      BY <3>1, <3>2, <3>3 DEF dispatchVars, cardVars
  <2>2. CASE FanOut(d)
    BY <2>2 DEF FanOut, dispatchVars
  <2> QED
    BY <1>2, <2>1, <2>2 DEF Ingest
<1>3. ASSUME NEW d \in Deliveries, Analyze(d)
      PROVE  ResultInv' /\ CardStands'
  <2>1. CASE Inspect(d)
    BY <2>1 DEF Inspect, ingestVars, dispatchVars, cardVars
  <2>2. CASE RunAsync(d)
    BY <2>2 DEF RunAsync, ingestVars, cardVars, DispatchEnds
  <2>3. CASE Track(d)
    BY <2>3 DEF Track, ingestVars, dispatchVars, cardVars
  <2> QED
    BY <1>3, <2>1, <2>2, <2>3 DEF Analyze
<1>4. ASSUME NEW d \in Deliveries, Dispatch(d) \/ AgentReturns(d)
      PROVE  ResultInv' /\ CardStands'
  <2> USE DEF ingestVars, cardVars, DispatchEnds
  <2>1. CASE CreateTask(d)
    BY <2>1 DEF CreateTask
  <2>2. CASE IndexTrace(d)
    BY <2>2 DEF IndexTrace
  <2>3. CASE StartAgent(d)
    BY <2>3 DEF StartAgent, RedisCommand
  <2>4. CASE Receive(d)
    BY <2>4 DEF Receive, Listening
  <2>5. CASE Deadline(d)
    BY <2>5 DEF Deadline, DeadlineRuns
  <2>6. CASE AppendResult(d)
    <3>1. /\ dispatch[d] = "append" /\ stored[d] = "none"
          /\ task[d] # "succeeded" /\ card[d] \notin Results
          /\ analyzer[d] \notin {"none", "handle", "run"}
      BY <2>6 DEF AppendResult, Results
    <3>2. /\ dispatch'[d] \in {"status", "stopped"}
          /\ dispatch'[d] = "status" /\ reply[d] # "error" =>
               stored'[d] = reply[d]
      BY <2>6 DEF AppendResult, AfterAppendError, ResultOf
    <3>3. \A e \in Deliveries : e # d => /\ dispatch'[e] = dispatch[e]
                                         /\ stored'[e] = stored[e]
      BY <2>6 DEF AppendResult
    <3>4. UNCHANGED <<analyzer, ingest, reply, task, card>>
      BY <2>6 DEF AppendResult
    <3> QED
      BY <3>1, <3>2, <3>3, <3>4
  <2>7. CASE UpdateStatus(d)
    <3>1. task'[d] = "succeeded" =>
            task[d] = "succeeded" \/ StatusOf(reply[d]) = "succeeded"
      BY <2>7 DEF UpdateStatus, RedisCommand
    <3>2. \A e \in Deliveries : e # d => /\ dispatch'[e] = dispatch[e]
                                         /\ task'[e] = task[e]
      BY <2>7 DEF UpdateStatus, RedisCommand
    <3>3. dispatch[d] = "status" /\ dispatch'[d] = "ended"
      BY <2>7 DEF UpdateStatus
    <3>4. UNCHANGED <<analyzer, ingest, reply, stored, card>>
      BY <2>7 DEF UpdateStatus
    <3> QED
      BY <3>1, <3>2, <3>3, <3>4
  <2>8. CASE AgentReturns(d)
    BY <2>8 DEF AgentReturns
  <2> QED
    BY <1>4, <2>1, <2>2, <2>3, <2>4, <2>5, <2>6, <2>7, <2>8 DEF Dispatch
<1>5. ASSUME NEW d \in Deliveries, FollowUp(d) \/ Impatient(d)
      PROVE  ResultInv' /\ CardStands'
  <2>1. UNCHANGED <<analyzer, ingestVars, dispatchVars>>
    BY <1>5 DEF FollowUp, TimerFires, Poll, GiveUp, Send, Impatient
  <2>2. card'[d] \in Results => card'[d] \in {card[d], stored[d]}
    BY <1>5 DEF FollowUp, TimerFires, Poll, GiveUp, Send, Impatient, Results
  <2>3. \A e \in Deliveries : e # d => card'[e] = card[e]
    BY <1>5 DEF FollowUp, TimerFires, Poll, GiveUp, Send, Impatient
  <2> QED
    BY <2>1, <2>2, <2>3 DEF ingestVars, dispatchVars
<1>6. ASSUME NEW i \in Instances, WindowEnds(i)
      PROVE  ResultInv' /\ CardStands'
  BY <1>6 DEF WindowEnds, ingestVars, dispatchVars, cardVars
<1>7. ASSUME NEW i \in Instances, InstanceCrash(i)
      PROVE  ResultInv' /\ CardStands'
  <2>1. \A d \in Deliveries :
          /\ ingest[d] = "accepted" => ingest'[d] = "accepted"
          /\ analyzer'[d] = analyzer[d] \/ analyzer'[d] = "dead"
          /\ analyzer'[d] # "none" => analyzer[d] # "none"
          /\ dispatch'[d] = dispatch[d] \/ dispatch'[d] = "dead"
          /\ dispatch'[d] # "none" => dispatch[d] # "none"
    <3> TAKE d \in Deliveries
    <3>1. ingest[d] = "accepted" => ingest'[d] = "accepted"
      BY <1>7 DEF InstanceCrash, Ingesting, SaveSteps
    <3>2. analyzer'[d] = analyzer[d] \/ (analyzer[d] \in Analyzing /\ analyzer'[d] = "dead")
      BY <1>7 DEF InstanceCrash
    <3>3. dispatch'[d] = dispatch[d] \/ (dispatch[d] \in Dispatching /\ dispatch'[d] = "dead")
      BY <1>7 DEF InstanceCrash
    <3> QED
      BY <3>1, <3>2, <3>3 DEF Analyzing, Dispatching
  <2>2. UNCHANGED <<reply, task, stored, card>>
    BY <1>7 DEF InstanceCrash
  <2> QED
    BY <2>1, <2>2 DEF DispatchEnds
<1> QED
  BY <1>1, <1>2, <1>3, <1>4, <1>5, <1>6, <1>7 DEF CaNext

LEMMA ResultInit == CaInit => ResultInv /\ CardStands
BY DEF CaInit, ResultInv, CardStands, Results

\* A succeeded task has a result that can be read and is not a failure, and
\* it stays that way, whatever fails (Dispatch: result before status).
THEOREM SucceededIsStored == CaSpec => []SucceededHasResult
<1> DEFINE Good ==
      \A d \in Deliveries :
        task[d] = "succeeded" => stored[d] \in {"succeeded", "degraded"}
<1>1. CaInit => Good
  BY DEF CaInit
<1>2. TypeInv /\ ResultInv /\ Good /\ [CaNext]_caVars => Good'
  <2> SUFFICES ASSUME TypeInv, ResultInv, Good, [CaNext]_caVars
               PROVE  Good'
    OBVIOUS
  <2> USE DEF ResultInv, TypeInv, CaTypeOK
  <2>1. ASSUME NEW d \in Deliveries, AppendResult(d)
        PROVE  Good'
    <3>1. task[d] # "succeeded"
      BY <2>1 DEF AppendResult
    <3>2. \A e \in Deliveries : e # d => stored'[e] = stored[e]
      BY <2>1 DEF AppendResult
    <3>3. task' = task
      BY <2>1 DEF AppendResult
    <3> QED
      BY <3>1, <3>2, <3>3
  <2>2. ASSUME NEW d \in Deliveries, UpdateStatus(d)
        PROVE  Good'
    <3>1. reply[d] \in Outcomes /\ dispatch[d] = "status"
      BY <2>2 DEF UpdateStatus, OutcomeInv
    <3>2. task'[d] = "succeeded" =>
            task[d] = "succeeded" \/ StatusOf(reply[d]) = "succeeded"
      BY <2>2 DEF UpdateStatus, RedisCommand
    <3>3. StatusOf(reply[d]) = "succeeded" =>
            stored[d] \in {"succeeded", "degraded"}
      BY <3>1 DEF StatusOf, ResultOf, Outcomes, Results
    <3>4. \A e \in Deliveries : e # d => task'[e] = task[e]
      BY <2>2 DEF UpdateStatus, RedisCommand
    <3>5. stored' = stored
      BY <2>2 DEF UpdateStatus
    <3> QED
      BY <3>2, <3>3, <3>4, <3>5
  <2>3. ASSUME NEW d \in Deliveries, CreateTask(d) \/ StartAgent(d)
        PROVE  Good'
    <3>1. stored' = stored
      BY <2>3 DEF CreateTask, StartAgent
    <3>2. \A e \in Deliveries : task'[e] \in {task[e], "pending", "running"}
      BY <2>3 DEF CreateTask, StartAgent, RedisCommand
    <3> QED
      BY <3>1, <3>2
  <2>4. ASSUME UNCHANGED <<task, stored>>
        PROVE  Good'
    BY <2>4
  <2>5. ASSUME NEW d \in Deliveries,
               \/ Ingest(d) \/ Analyze(d) \/ AgentReturns(d)
               \/ IndexTrace(d) \/ Receive(d) \/ Deadline(d)
               \/ FollowUp(d) \/ Impatient(d)
        PROVE  UNCHANGED <<task, stored>>
    BY <2>5
    DEF Ingest, Reserve, Lookup, Save, Release, FanOut, Analyze, Inspect,
        RunAsync, Track, AgentReturns, IndexTrace, Receive, Deadline, FollowUp,
        TimerFires, Poll, GiveUp, Send, Impatient, dispatchVars
  <2>6. ASSUME NEW i \in Instances, WindowEnds(i) \/ InstanceCrash(i)
        PROVE  UNCHANGED <<task, stored>>
    BY <2>6 DEF WindowEnds, InstanceCrash, dispatchVars
  <2>7. CASE UNCHANGED caVars
    BY <2>7 DEF caVars, dispatchVars
  <2> QED
    BY <2>1, <2>2, <2>3, <2>4, <2>5, <2>6, <2>7 DEF CaNext, Dispatch
<1>3. Good <=> SucceededHasResult
  BY DEF SucceededHasResult
<1> HIDE DEF Good
<1> QED
  BY <1>1, <1>2, <1>3, TypeInvariance, ResultInit, ResultStep, PTL DEF CaSpec

\* The answer posted is the one the ledger keeps: an answer that comes after
\* the deadline replaces nothing (executeAgent, AppendResult, pollAndSend).
THEOREM AnswerStands == CaSpec => []CardStands
BY TypeInvariance, ResultInit, ResultStep, PTL DEF CaSpec

----------------------------------------------------------------------------
(* The follow-up while nothing fails *)

\* A step that leaves the count at zero is not a failure.
LEMMA CalmStep ==
  ASSUME TypeInv, ResultInv, CalmInv, faults = 0, faults' = 0, [CaNext]_caVars
  PROVE  CalmInv'
<1> USE DEF CalmInv, TypeInv, CaTypeOK
<1>0. \A kind \in CaFaultKinds : ~Fault(kind)
  BY DEF Fault
<1> USE <1>0 DEF CaFaultKinds
<1>1. CASE UNCHANGED caVars
  BY <1>1 DEF caVars, dispatchVars, cardVars
<1>2. ASSUME NEW d \in Deliveries, Ingest(d)
      PROVE  CalmInv'
  <2>1. CASE Reserve(d) \/ Lookup(d) \/ Save(d) \/ Release(d)
    <3>1. UNCHANGED <<analyzer, tracked, dispatchVars, cardVars>>
      BY <2>1 DEF Reserve, Lookup, Save, Release
    <3> QED
      BY <3>1 DEF dispatchVars, cardVars
  <2>2. CASE FanOut(d)
    <3>1. analyzer[d] = "none"
      BY <2>2 DEF FanOut, ResultInv
    <3> QED
      BY <2>2, <3>1 DEF FanOut, dispatchVars, Analyzing, Polling, PollerEnds
  <2> QED
    BY <1>2, <2>1, <2>2 DEF Ingest
<1>3. ASSUME NEW d \in Deliveries, Analyze(d)
      PROVE  CalmInv'
  <2>1. CASE Inspect(d)
    BY <2>1 DEF Inspect, dispatchVars, cardVars, Analyzing, Polling, PollerEnds
  <2>2. CASE RunAsync(d)
    BY <2>2 DEF RunAsync, cardVars, Analyzing, Polling, PollerEnds, Dispatching,
                DispatchEnds
  <2>3. CASE Track(d)
    BY <2>3 DEF Track, dispatchVars, cardVars, Analyzing, Polling, PollerEnds
  <2> QED
    BY <1>3, <2>1, <2>2, <2>3 DEF Analyze
<1>4. ASSUME NEW d \in Deliveries, Dispatch(d) \/ AgentReturns(d)
      PROVE  CalmInv'
  <2> USE DEF cardVars, Dispatching, DispatchEnds
  <2>0. UNCHANGED <<analyzer, tracked, cardVars>>
    BY <1>4 DEF Dispatch, CreateTask, IndexTrace, StartAgent, Receive, Deadline,
                AppendResult, UpdateStatus, AgentReturns
  <2>1. CASE CreateTask(d)
    BY <2>1, <2>0 DEF CreateTask
  <2>2. CASE IndexTrace(d)
    BY <2>2, <2>0 DEF IndexTrace, RedisCommand
  <2>3. CASE StartAgent(d)
    BY <2>3, <2>0 DEF StartAgent, RedisCommand
  <2>4. CASE Receive(d)
    BY <2>4, <2>0 DEF Receive, Listening
  <2>5. CASE Deadline(d)
    BY <2>5, <2>0 DEF Deadline, DeadlineRuns
  <2>6. CASE AppendResult(d)
    <3>1. ResultOf(reply[d]) \in Results
      BY <2>6 DEF AppendResult, ResultOf, OutcomeInv, Outcomes, Results
    <3>2. stored'[d] # "none" /\ dispatch'[d] = "status"
      BY <2>6, <3>1 DEF AppendResult, Results
    <3> QED
      BY <2>6, <2>0, <3>2 DEF AppendResult
  <2>7. CASE UpdateStatus(d)
    <3>1. StatusOf(reply[d]) # "none"
      BY DEF StatusOf
    <3> QED
      BY <2>7, <2>0, <3>1 DEF UpdateStatus, RedisCommand
  <2>8. CASE AgentReturns(d)
    BY <2>8, <2>0 DEF AgentReturns
  <2> QED
    BY <1>4, <2>1, <2>2, <2>3, <2>4, <2>5, <2>6, <2>7, <2>8 DEF Dispatch
<1>5. ASSUME NEW d \in Deliveries, FollowUp(d) \/ Impatient(d)
      PROVE  CalmInv'
  <2> USE DEF Polling, PollerEnds
  <2>1. CASE TimerFires(d)
    BY <2>1 DEF TimerFires, dispatchVars
  <2>2. CASE Poll(d)
    <3>1. stored[d] \in Results
      BY <2>2 DEF Poll, Reachable
    <3>2. card'[d] \in Results /\ poller'[d] = "over"
      BY <2>2, <3>1 DEF Poll, Send
    <3>3. \A e \in Deliveries : e # d => /\ card'[e] = card[e]
                                         /\ poller'[e] = poller[e]
                                         /\ e \in tracked' <=> e \in tracked
      BY <2>2 DEF Poll, Send
    <3>4. poller[d] = "poll" /\ UNCHANGED <<analyzer, dispatchVars>>
      BY <2>2 DEF Poll, Send
    <3> QED
      BY <3>2, <3>3, <3>4 DEF dispatchVars
  <2>3. CASE GiveUp(d)
    BY <2>3 DEF GiveUp, Reachable, DispatchEnds
  <2>4. CASE Impatient(d)
    BY <2>4 DEF Impatient
  <2> QED
    BY <1>5, <2>1, <2>2, <2>3, <2>4 DEF FollowUp
<1>6. ASSUME NEW i \in Instances, WindowEnds(i) \/ InstanceCrash(i)
      PROVE  CalmInv'
  BY <1>6 DEF WindowEnds, InstanceCrash, dispatchVars, cardVars
<1> QED
  BY <1>1, <1>2, <1>3, <1>4, <1>5, <1>6 DEF CaNext

\* As long as nothing failed a tracked analysis is answered, never timed
\* out, even when its agent hangs (executeAgent's deadline, ResultByTraceID).
THEOREM CalmIsAnswered == CaSpec => []NoFalseTimeout
<1> DEFINE Calm == faults = 0 => CalmInv
<1>1. CaInit => Calm
  BY DEF CaInit, CalmInv, Polling, PollerEnds, Dispatching, DispatchEnds
<1>2. TypeInv /\ ResultInv /\ Calm /\ [CaNext]_caVars => Calm'
  <2>1. TypeInv /\ [CaNext]_caVars /\ faults' = 0 => faults = 0
    BY FaultsType DEF TypeInv, CaTypeOK
  <2> QED
    BY <2>1, CalmStep
<1>3. Calm => NoFalseTimeout
  BY DEF CalmInv, NoFalseTimeout
<1> HIDE DEF Calm
<1> QED
  BY <1>1, <1>2, <1>3, TypeInvariance, ResultInit, ResultStep, PTL DEF CaSpec

=============================================================================
