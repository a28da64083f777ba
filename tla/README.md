# OpsCaptain: a TLA+ verification project

OpsCaptain (OpsCaptionAI) is an operations assistant written in Go. It has two
chains. A **chat** request goes through memory and context assembly to a ReAct
agent with tools and retrieval and comes back as JSON, as a stream, or through
an asynchronous task. An **AIOps** request goes through approval and
degradation checks to an agent runtime, which runs plan-execute-replan or the
graph-of-states engine and records task, trace and result. Redis, RabbitMQ,
Milvus and local files hold the state; several processes of the same binary may
run side by side.

What a test of this code hardly reaches is the coordination: deliveries that
come twice, claims nobody gives back, Redis commands that err half way, a
reviewer deciding while a turn is still being stored, a deadline that races the
answer, a file replaced while it is being indexed. This project models that
coordination, checks it with TLC on small instances and proves most of its
safety with TLAPS for every size.

Contents: [1 the system](#1-the-system), [2 the modules](#2-the-modules),
[3 the runs](#3-the-runs), [4 what the runs found](#4-disagreements-with-the-documentation),
[5 the proofs](#5-the-proofs), [6 limits](#6-abstractions-and-limits),
[7 what is left](#7-what-could-come-next). Paths below are relative to the
repository; `agent/`, `belief/`, `changeevent/`, `memory/`, `rag/`, `runtime/`
and `service/` stand for the directories of these names under `internal/ai/`.

Running: `tlc -config ChatTaskCalm.cfg MCChatTask`, `tlapm ChatTaskProofs.tla`,
and likewise for the other configurations (section 3) and proof modules.

## 1 The system

### 1.1 Components with coordination of their own

| Component | State | Operations | Talks to |
|---|---|---|---|
| Chat task pipeline (`service/chat_task_*.go`, `internal/infra/rabbitmq`) | Redis records with a status; main, retry and dead-letter queue; dedup keys in Redis and a TTL set per process | submit, deliver, claim, execute, retry, dead-letter, release, ack | chat service as executor; pollers (`GetChatTask`) |
| Session memory (`memory/session*.go`, `internal/app/chat_app.go`) | a map of conversations per process in front of a Redis copy; a counted lock per session; a response cache | lock, get, append, trim into a summary, save, evict, clean up | chat service, AIOps service |
| Rate limit (`utility/auth`) | a sorted set in Redis; a token bucket per process | allow, clean up idle buckets | middleware |
| Incident sessions and approvals (`service/ai_ops_incident*.go`, `approval_*.go`, `ai_ops_approval.go`) | one JSON file per incident, with its turns; approval records and index sets in Redis | create, append a turn, run it, queue a request, approve, reject, mark executed, write the outcome back | runtime; HTTP reviewers |
| Change ingestion and proactive analysis (`changeevent/`) | dedupe key, event and two indexes in Redis; a debounce map and a tracker in memory | ingest, fan out, inspect, start an analysis, track it | asynchronous AIOps runs, follow-up, cluster bus |
| Agent runtime and ledger (`runtime/`) | task, trace index, result, events in Redis, a file or memory | dispatch with a deadline, append a result, look it up by trace | agents |
| Analysis follow-up (`internal/infra/notifier/feishu_analysis.go`) | a timer, then a polling loop per event | poll the ledger, post one card | ledger, tracker, webhook |
| Model calls (`internal/ai/models/instrumented_chat_model.go`, `utility/resilience`, `service/token_audit.go`) | a circuit breaker; a channel of slots that a new limit replaces; a token count per session and day | check the budget, take a slot, ask the breaker, try, retry, stream, record, charge, release | providers |
| Tool calls (`internal/ai/tools/mcp_client_pool.go`) | one client per server, two mutexes | look up, connect, call, reconnect, call again | MCP servers |
| RabbitMQ client (`internal/infra/rabbitmq/client.go`) | one connection, two mutexes | publish, consume, reconnect, close | both pipelines |
| Start and shutdown (`main.go`, the connection loops, `utility/health`) | phase of main; loop and client of each pipeline | connect in the background, serve, drain, stop, close | all of the above |
| Memory extraction (`service/memory_queue*.go`, `memory_service.go`) | a second set of queues and dedup keys; a channel of slots | enqueue or fall back to a goroutine, deliver, claim, extract, retry | long-term memory |
| Long-term memory (`memory/long_term*.go`, `memory/agent_*.go`) | entries and a per-session index, written through to a file or Redis | decide, store, retire rivals, evict, promote, disable, delete, reload | extraction, context engine |
| Knowledge base (`internal/app/knowledge_app.go`, `internal/infra/filestore`, `rag/indexing_service.go`) | files with metadata files; chunks in Milvus; a keyword index in memory | upload, index, replace a version, delete, retry | retrieval |
| Graph-of-states engine (`agent/gos_engine`, `belief/`) | a belief graph; level, steps and counters of a diagnosis | ingest, plan, merge evidence and proposals, report, refine, backtrack, continue | experts, models |

The remaining components are listed with their reasons in `PROJECT.json` and in
section 6.2.

### 1.2 How the modelled parts interact

```
 client --rate limit--> SubmitChatTask--> Redis record + main queue
                                            |  deliver, claim, execute, save
                                            v
              retry queue <---- consumer of each process ----> dead letters
                  |  TTL                    |
                  +------> main queue       | session lock, conversation
                                            v
                       model calls, tool calls       memory event --> queues
                                                                        |
                                  long-term memory <--decisions-- extraction

 user --CreateIncident/AppendTurn--> incident file --goroutine--> approval gate
                                        ^                           |  high risk
                                        | RecordIncidentApproval    v
 reviewer --approve/reject--> approval record and index sets in Redis

 webhook --Ingest--> dedupe key, event --fan-out--> analyzer --> RunAIOpsAsync
                                           |            |             |
                                           v            v             v
                            follow-up timer, polling  tracker   Dispatch, ledger
                                           +------ result by trace ----+

 user --upload--> file, metadata --goroutine--> Milvus chunks, keyword index
```

### 1.3 What is hard, and what would be correct

`PROJECT.json` lists every hazard at the line where it bites. In short:

* **Chat tasks.** The broker redelivers while the first consumer still works;
  a process dies with its claim set; publishing reports an error although the
  message arrived; the retry overtakes the release of the claim; keys expire.
  Correct means: one executor at a time in the cluster, no accepted task
  vanishes, a task ends answered or dead-lettered, the retry limit bounds the
  executions, and the promise made to a client is not taken back.
* **Sessions and limits.** Processes hold copies of one conversation; locks are
  deleted while turns wait for them; each process passes its own clock to
  Redis. Correct means: one turn at a time, a turn sees the ones before it, and
  nobody gets more requests than the limit grants.
* **Incidents and approvals.** Nothing is transactional: a decision is a read,
  a SETEX, a SREM and a SADD, followed by a run and a file update. Correct
  means: one turn at a time, no high-risk run without its own saved approval,
  every waiting user has a request reviewers can see, decided requests leave
  the list, statuses move forward, decisions reach their turn, turns end.
* **Changes.** Webhooks are redelivered, each step may err with or without its
  effect, and three goroutines race on timers. Correct means: one fan-out per
  change, no success without its result, the posted answer is the stored one,
  no timeout card for an analysis that went well, every follow-up ends.
* **Model and tool calls.** Results of calls admitted in an earlier state of
  the circuit arrive late, the limit changes while slots are held, the budget
  is checked long before it is charged, several callers lose one client.
  Correct means: slots are conserved, overspending is bounded, a circuit closes
  again, a retry goes to a newer client, and calls return.
* **Broker client and shutdown.** Publishers, consumer and `Close` replace one
  connection under each other; every wait of the shutdown gives up. Correct
  means: no connection leaks, the consumer comes back, and things are taken
  down in the order of their use unless a wait was given up.
* **Memory.** Workers decide on listings that are old by the time they act, and
  failed writes and a store that cannot be read are only logged. Correct means:
  a loss has a known cause, memories of one type and group exclude each other
  where they are retrieved, store and memory agree, caps hold.
* **Documents.** A verdict, a rebuilt index and a clean-up follow each other in
  a goroutine that may fail anywhere. Correct means: what a user sees of a
  document is what retrieval finds.
* **Diagnosis.** Retractions and refinements must leave a graph that the
  engine's own checks accept, and a root cause with evidence of its own.

## 2 The modules

Each component has a specification; proof modules extend it; MC modules give
TLC its sets. Every step between two points where another actor can interfere
(a Redis command, a broker call, a file update, a mutex or channel operation)
is one action. `...Faults` constants name the kinds of failure a configuration
allows and `...MaxFaults` bounds how many happen, so that each property is
stated for exactly the failures it survives.

### 2.1 `ChatTask` and `TaskPromise`

| Variable | In the code |
|---|---|
| `record` | status in the `ChatTaskRecord` under the task's Redis key |
| `submit` | how far `SubmitChatTask` got, and what its caller was told |
| `queue` | copies of each message (task, attempt) in the main, retry and dead-letter queue: a bag, since redelivery gives no order |
| `pc` | where `handleDelivery` / `processEvent` of an instance stands |
| `body`, `event` | the delivery as sent, and the decoded event whose `Attempt` is incremented |
| `held` | the broker still waits for the ack of that delivery |
| `claim`, `local` | the two layers of `CompositeDeduper`: Redis keys, per-process TTL sets |
| `execs` | calls of the executor (history) |
| `faults` | failures so far |

* Submission: `SubmitSave`, `SubmitNotReady`, `SubmitPublish`,
  `SubmitMarkFailed` are `SubmitChatTask` with each of its returns.
* A delivery: `Deliver` (with decoding), `ClaimRedis`, `ClaimLocal`,
  `StartRun`, `Execute`, `SaveOutcome`, then `PublishRetry` or `GiveUp` and
  `PublishDLQ`, `ReleaseRedis`, `ReleaseLocal`, `Ack` or `NackRequeue`. The
  order is the code's: the retry is published before the claim is released, and
  the requeue after a failed dead letter keeps the claim.
* Environment: `RetryExpire` is the retry queue's TTL, `ExpireClaim` and
  `ForgetLocal` the TTLs and evictions of the claims, `DropConnection` a closed
  channel whose delivery the broker takes back, `Crash` a restart with an empty
  local set.

`Faults` names the failures a configuration allows (`crash`, `conn`, `redis`,
`publish`, `ambiguous`, `unconfirmed`, `slow`, `expire`), so that each property
is stated for exactly the failures it survives. A Redis save that errs may have
been applied. `MaxFaults` bounds the counted ones; `slow` and `expire` are not
counted, because a retry that comes back early and a key that expires do not
depend on a failing call.

`TaskPromise` is the abstract specification: per task a promise that is new,
open, answered, dead (lettered) or refused, and the moves between them.
`promiseOf` maps the pipeline's state to it: what the submitter was told, the
record, and the dead letters. Only where a claim can expire or Redis can err
may an answered task be reopened (`Reopens`).

### 2.2 `IncidentApproval`

| Variable | In the code |
|---|---|
| `file` | the incident's JSON file: absent, readable, or cut short by a failed write |
| `incident`, `turn`, `linked` | status of the session and of each turn; the turn has its `ApprovalRequestID` |
| `risky`, `runner`, `result` | the query needs approval; where the turn's goroutine stands; what it is about to store |
| `request`, `index` | the approval record's status, and the index set of each status, in Redis |
| `pc`, `op`, `target`, `outcome` | one concurrent HTTP decision: its step, which save it is in, its request, its run's outcome |
| `granted`, `ran` | approvals saved and runs dispatched by a call (history) |

* A turn: `StartTurn` (create or append, refused while one runs), `Begin`,
  `AnswerDegraded`, `PassGate`, `EnqueueSet`, `EnqueueAdd`, `EnqueueDisabled`,
  `EndRun`, `Finish`.
* A decision: `Decide` (the record is read, no status is compared), `SaveSet`,
  `SaveRemove`, `SaveAdd`, then for an approval `BeginApproved`,
  `AnswerApproved` or `FailApproved`, `EndApproved`, `Mark` and the three save
  steps again, and `Note`, which writes into the turn that stored the request's
  id, and passes over an absent one without an error.
* `Expire` is a record's TTL (the index sets have none), `Crash` a restart: no
  goroutine is resumed.

`Picks` are the lists reviewers choose requests from, and `Hasty` says whether
a request may be decided before its turn has stored the id. They are
assumptions about people, not about the code, and each property is checked
under the weakest ones it survives.

### 2.3 `ChangeAnalysis`

| Variable | In the code |
|---|---|
| `change`, `at`, `ingest` | what a delivery is about, which process it reaches, where `Ingest` stands |
| `key` | the dedupe key of each change in Redis |
| `muted`, `analyzer`, `tracked` | the analyzer's debounce window, where `Handle` stands, the tracker's records |
| `dispatch`, `agent`, `reply` | where the dispatch goroutine stands, what the agent's goroutine returned, what `executeAgent` took |
| `task`, `trace`, `stored` | the Redis ledger: status, trace index, result |
| `poller`, `card` | where the notifier stands, and what it posted |

* `Reserve`, `Lookup`, `Save` (four writes in the code's order), `Release`,
  `FanOut` are `ChangeEventBus.Ingest`; a failed save gives the key back.
* `Inspect`, `RunAsync`, `Track` are `ProactiveAnalyzer.Handle`; `WindowEnds`
  ends the debounce.
* `CreateTask`, `IndexTrace` (its error dropped), `StartAgent`, `Receive`,
  `Deadline`, `AppendResult`, `UpdateStatus` are `Runtime.Dispatch` on
  `RedisLedger`; `AgentReturns` may come before, after, or never.
* `TimerFires`, `Poll`, `GiveUp`, `Impatient` are the notifier. `GiveUp` is the
  deadline as configured by default: the dispatch times out after 120 seconds,
  polling after 180, so the dispatch has ended by then. `Impatient` is the
  other case, counted as a failure.

### 2.4 `SessionMemory`

| Variable | In the code |
|---|---|
| `at`, `where`, `podOf` | how far each request got, the process that serves it, the process its session is bound to |
| `map`, `heap`, `order` | `SessionManager.sessions` of each process, the `SimpleMemory` objects it points to, and their order of use |
| `memOf`, `snapshot` | the object a turn works on, and what it is about to write |
| `store`, `cache`, `caching` | the conversation in Redis; the response cache |
| `lockOf`, `lockIn`, `refs`, `holder` | `sessionLocks` with its counted entries and their mutexes |
| `completed`, `failed`, `overlaps` | history for the properties |

* `Arrive`, `Lock`, `Unlock`, `Unref` are `acquireSessionLock` and its release:
  the counter goes up under the map's mutex, the entry's own mutex is taken
  outside of it, and the last user deletes the entry. A turn of the AIOps
  runtime never takes the lock (`OpsTurns`).
* `GetSimpleMemory` (own copy, else the Redis copy, else a new one; evicts the
  least recently used sessions), `Read`, `Agent`, `Get`, `AddPair` with the
  trim, `Marshal`, `Set`, `StoreChatResponse` follow `HandleChat`.
* `IdleOut` is the clean-up of idle sessions, `PodCrash` a restart,
  `CacheExpires` the cache's TTL. Whether a session's requests always reach the
  same process is the constant `Affinity`.

### 2.5 `RateLimiter`

`zset` is the sorted set of grants in Redis, `bucket` the token bucket of each
process. `CheckInRedis` runs the script: prune by the caller's own clock, count,
add. The expiry of the key on the server's clock is left out: it may forget a
grant a little before a caller whose clock is ahead would prune it, and never
one that `SharedLimit` counts with a later one. A member is a time and a random
suffix; Redis seeds `math.random` the same way for every script, so that two
requests of one millisecond may collide, and the limit is stated for the
requests it can tell apart. `CheckInMemory` is the bucket, `ChooseBackend` the
choice a process makes once, `Cleanup` forgets buckets idle for `IdleLimit`,
`skew` is how far a clock runs ahead (at most `MaxSkew`), `Tick` and
`RedisFlips` the environment.

### 2.6 `LlmCall` and `McpPool`

`LlmCall` follows one call of a model: `Enforce` (the token limit of the
session and day), `GetSemaphore` and `AcquireLLMSlot` (the channel may have
been replaced in between by `Reload`, so slots have a generation), `Admit` (the
breaker's `Allow`), `Generate` or `OpenStream` and `ReadStream`, `Backoff`,
`Charge`, `ReleaseSlot`. `ResetTimeout` lets an open circuit try again; a result
is recorded in whatever state the breaker has reached by then.

`McpPool` is one URL of the MCP client pool with its two mutexes: `Lookup`,
`LockMap`, `ConnectFirst`, `DoCall`, `CallAnswered` or `CallBroken`, `MarkLost`,
`LockDial`, `DialSucceeds`, `DialFails` or `DialCancelled`, and `Fallback` to
plain HTTP. Clients are numbered as they are made, `sessions` are those the
server still knows, and `ServerRestart` forgets them.

### 2.7 `AmqpClient` and `Lifecycle`

`AmqpClient` has the goroutines that share one RabbitMQ connection: publishers
(`PublishBegin` to `PublishEnd`, with the resend after a reconnection), the
consumer loop (`ConsumerOpen` to `ConsumerWakes`), both of which go through
`ReconnectLook`, `ReconnectLock`, `ReconnectCheck`, `ReconnectDial`,
`ReconnectSwap`, `ReconnectDrop`, and `Close` (`CloseBegin` to `CloseSwap`).
Connections are numbered; `opened` are those the broker has, which is how a
leak shows. `Drop` is a connection the broker closes.

`Lifecycle` is `main`: the two loops that connect the pipelines in the
background (`LoopCheck`, `LoopConnect`, `LoopInstall`, `LoopSleep`), requests and
chat turns being served, and the shutdown `Signal`, `Drain`, `StopCleanup`,
`CancelLoop`, `WaitLoop`, `SwapClient`, `CloseClient`, `CloseResources`, `Exit`.
Each wait may be given up, which `overran` and `loopsLeft` remember.

### 2.8 `MemoryExtraction`

The pipeline has the shape of the chat tasks with a difference at each end. A
turn's `PersistOutcome` publishes an event, and when there is no queue takes a
slot and extracts in a goroutine (`AcquireSlot`, `SlotTimeout`,
`LocalExtract`). After a failed dead letter the message goes back to the queue
and the claim stays (`NackRequeue`). `claim` and `seen` are the two layers of
the deduplicator, `runs`, `copies`, `done` and `stranded` are history from which
`LossesAccounted` tells why an event was lost.

### 2.9 `LongTermMemory`

| Variable | In the code |
|---|---|
| `mem`, `byOwner` | `ltm.entries` and the per-session `ltm.index` |
| `disk` | the file or Redis store written through |
| `decided` | the decision an extraction worker has taken on a listing and not yet applied |
| `dirty`, `excused` | entries whose last write failed, or that the process could not read at its start; entries promoted, brought back or restated under another type (history) |

Each statement (`Statements`) names the place, the type, the conflict group and
the expiry of the memory, so the same content may come with others the next
time; the identifier is the pair of place and content.

`Store` is `StoreWithOptions`: reinforce a known memory (which takes the new
group but keeps its type: `Reinforced`) or create one, retire its rivals, the
others of the statement's type, group and place (`Rivals`, `Retired`), evict
beyond the caps (`Evictions`), keep the index (`Reindexed`) and write through
(`Persist`, whose error is only logged). `Disable`, `Promote`, `Delete` are the
users' calls; `Decide` and `Apply` the workers', which apply a decision to
whatever the target has become; targets are memories of the list the worker was
given. `Expire` lets entries run out. `Restart` reads the store anew and may
miss any part of it (`Loaded`): a `LoadAll` that fails leaves the new process
with an empty memory beside a full store, an entry that cannot be read is passed
over, and both are only logged. Retrieval changes nothing here: the server
retrieves read-only.

`GroupExclusive` says of two memories of one type and group that are retrieved
in one place that one of them was promoted there, came back from a restart
otherwise than it had been known, or was last stated under another type than the
one it keeps; in the last case its rivals were looked for under the wrong type.

### 2.10 `KnowledgeBase`

Each call (upload, delete, retry) and the goroutine it starts is a job with a
place `job[j]` in the code. An upload is `SaveUpload` (duplicate check and next
version), `Rename`, `MarkUploadStatus`, then in the goroutine `OpenMetadata` and
`WriteMetadata` (two steps, so that a crash leaves a cut file), `LoadFile`,
`InsertChunks`, `QueryChunks` and `PurgeChunks` (the other versions), `ListFiles`,
`ReadFile` and `SetSharedBM25Index` (rebuild of the keyword index), the verdict,
and `ListReplaced`, `LookupUpload`, `RemoveFile`, `RemoveMetadata` (clean-up of the
replaced versions). A deletion uses the same steps in its own order. `stored`
and `sidecar` are the directory, `chunks` Milvus, `lexical` the keyword index.
`Patient` says whether users wait for the jobs of a source to end.

`ReadyIsSearchable` holds of every version shown as ready, at every moment:
retrieval finds it or newer versions of its source, and none before it; if it is
the newest version that has a record, it alone is found. A newer version whose
indexing failed may have left its chunks beside an older ready version, or have
removed that one's already: that a ready version is found alone whenever
nothing runs (`ReadyIsFoundAlone`) is therefore false (section 4).

### 2.11 `GosEngine`

`graph` is the belief graph (hypotheses in the order of their creation, each with
its parent, level, score and status, and evidence), `level`, `levelSteps`,
`steps` and `idle` the counters, `called` and `broken` the history planning
looks at, `report` the result. One diagnosis is `IngestWithOutcome`, then rounds
of `PlanRound`, `RoundMerged` or `RoundRejected` (merging whole rounds:
`Acceptable`, `Fresh`, `Updates`) and a decision: `Conclude`, `Refine`, `Backtrack`
or `Continue` of the state converter, or `LegacyDecide` of the older machine.
`ValidGraph` is `validateBeliefGraph`. What models, experts and tools answer is
any member of `Roots` and `Findings`; scores are notches, of which only their
order matters.

### 2.12 Proof modules and instances

`<Component>Proofs` modules extend the components they are about: `ChatTaskProofs`
(with the abstract `TaskPromise`), `IncidentApprovalProofs`,
`ChangeAnalysisProofs`, `MemoryExtractionProofs`, `ConversationProofs` (session
locks and copies, rate limit), `OutboundProofs` (model and tool calls), `BrokerProofs`
(client, lifecycle), `KnowledgeProofs` (long-term memory, documents, diagnosis).

The `MC...` modules give constants their sets. Five of them hold several
components: `MCConversation` (chat tasks, sessions, rate limit), `MCOperations`
(incidents, diagnosis, documents), `MCAiops` (incidents, changes), `MCBroker`
(client, lifecycle, chat tasks, model and tool calls) and `MCKnowledge`
(extraction, long-term memory). These components share no variable: a variable
`focus`, chosen initially, says which one moves, while the others rest in an
initial state. Nothing is lost by it, as no property relates two of them, and
one component's state does not multiply another's.

Next to some definitions there is one with an `M` at the end of its name. It is
the same piece of code with a plausible mistake (a dropped guard, a swapped
order, a missing reset). `PROJECT.json` pairs each property of a passing run with
one of these: put in place of the original it makes the property fail.

## 3 The runs

| Run | Module and configuration | Checks |
|---|---|---|
| `chat_calm` | `MCChatTask`, `ChatTaskCalm.cfg` | `NoTaskLost`, `RunningHasRunner`, `SettlesPromise` |
| `chat_crash_loses_task` | `MCChatTask`, `ChatTaskCrash.cfg` | `NoTaskLost`, violated |
| `conversation` | `MCConversation`, `Conversation.cfg` | `ExclusiveExecution`, `KeepsPromise`, `SessionExclusive`, `TurnSeesPredecessors`, `SharedLimit`, `BurstLimit` |
| `session_memory_pods` | `MCSessionMemory`, `SessionMemoryPods.cfg` | `TurnSeesPredecessors`, violated |
| `operations` | `MCOperations`, `Operations.cfg` | `OneTurnAtATime`, `ApprovalBuysOneRun`, `WaitingIsListed`; `SelfChecksHold`, `RootCauseIsBacked`; `ReadyIsSearchable`, `SearchableIsListed`, `IndexingIsUnderWay` |
| `incident_concurrent_review` | `MCIncidentApproval`, `IncidentApprovalReviewed.cfg` | `StatusOrder`, violated |
| `aiops` | `MCAiops`, `Aiops.cfg` | `DecidedIsUnlisted`, `StatusOrder`, `DecisionReachesTurn`, `TurnsEnd`; `OneFanOut`, `SucceededHasResult`, `CardStands`, `NoFalseTimeout`, `FollowedUp` |
| `broker` | `MCBroker`, `Broker.cfg` | `NoConnectionLeak`, `ConsumerReturns`; `StoppedMeansClosed`, `ShutdownInOrder`; `RetryBudget`; `SlotsConserved`, `OverspendBounded`, `CircuitRecovers`; `RetriesOnNewerClient`, `CallsReturn` |
| `knowledge` | `MCKnowledge`, `Knowledge.cfg` | `LossesAccounted`; `GroupExclusive`, `StoreMirrorsMemory`, `CapsAfterStore` |
| `memory_restated` | `MCLongTermMemory`, `LongTermMemoryRestated.cfg` | `RestatedMemoryLives`, violated |
| `library_failed_version` | `MCKnowledgeBase`, `KnowledgeBaseFailed.cfg` | `ReadyIsFoundAlone`, violated |
| `library_index` | `MCKnowledgeBase`, `KnowledgeBaseIndex.cfg` | `LexicalFollowsFiles`, violated |

### 3.1 Bounds, and why they are enough

* **Chat tasks.** Two instances are what a race for a claim takes, one retry
  has both the case that retries and the one that gives up, and two or three
  counted failures allow a failure while another is being recovered from (a
  redelivery whose handler dies again). `conversation` has one task and a
  malformed body, under every failure but those that excuse a second execution
  (`redis`, `expire`); `chat_calm` two tasks, so that one may wait for the other's
  handler, the first submitted being called `t1` (its process never dies, so that
  `Crash` and `NackRequeue` happen in `conversation` only); `broker` all failures
  after which the broker delivers nothing again.
* **Sessions.** Three turns of one session on two processes that keep one
  session each (so that sessions evict each other), one pair of messages before
  the trim, an AIOps turn of another session, one failure.
* **Rate limit.** Two processes, rate and capacity 1, a window of 2 ticks, a
  skew of 1, two suffixes. The boundary cases (a grant just inside the window of
  a process whose clock is ahead, an idle bucket that comes back full) all occur.
* **Incidents.** `operations` has two turns and two reviewers with two
  decisions from any list and every failure; `aiops` three turns and three
  decisions of one reviewer, without failures, for the properties that need a
  reviewer who works in order.
* **Changes.** Two deliveries of one change on two instances, all failures, at
  most two.
* **Broker client, lifecycle.** One publisher beside the consumer and `Close`
  (three parties for two mutexes), two publishes, two failures; two pipelines,
  one request, one chat turn.
* **Documents.** Three uploads of which two are versions of one source, one user
  call, two failures.
* **Calls.** Two callers, a limit that goes from one slot to two, a threshold
  and a half-open quota of 2, one failed look-up; two tool callers, two dials,
  three failures.
* **Extraction.** Two turns with one event between them on two instances.
* **Diagnosis.** Two experts with findings of each kind, three levels of
  refinement, and two supporting sources for a root cause.
* **Long-term memory.** Two contents in two sessions and a place both see, one
  memory per session, three stores (two rivals and the one that meets them). As
  long as nothing fails there are two workers, so that a decision is applied
  after another one's and after users' calls, and two types. Two faults may
  happen, a restart and a failed write or read being one each: a failed deletion
  followed by a restart loads more than the cap of a session, which takes a
  store that evicts two. A behaviour with a fault keeps to one decision, one type
  and one session at a time (`LtmBound` in `MCKnowledge`); the theorems cover both
  together, for any number of each.

Deadlock is checked nowhere: every component may come to rest (its turns have
ended, its failures are used up). That it does not rest too early is what the
liveness properties say.

### 3.2 Fairness

* A goroutine that can run does: weak fairness on handlers, turns, calls and
  jobs. No fairness on failures, on submissions, or on reviewers, who need not
  decide anything; a call they began goes on.
* Brokers deliver and retry queues expire: weak fairness on `Deliver` and
  `RetryExpire`.
* Goroutines that wait for a mutex get it: strong fairness, since a Go mutex
  hands over to a waiter that has starved for a millisecond.
* Time passes: weak fairness on the breaker's `ResetTimeout`, on `NewDay` and on
  the notifier's timer. `CircuitRecovers` also takes calls to be made again and
  again, as a circuit closes only on calls, and is about a provider that has
  recovered for good.
* An agent need not ever return: `FollowedUp` rests on the dispatch's deadline.

## 4 Disagreements with the documentation

Where the code does not do what a document of the repository says, a run
violates the property that states the document, and `PROJECT.json` quotes both.

1. **A crash loses a chat task** (`chat_crash_loses_task`). Nothing gives a
   claim back when its process dies; the redelivered message is a duplicate for
   ten minutes and is acknowledged. The deduplicator's comment says it would
   rather process twice than lose a task.
2. **A session on two processes** (`session_memory_pods`). The Redis copy is
   read only when the process has none of its own, so without session affinity
   a turn does not see what another process was told, and overwrites it. The
   configuration says that the store shares conversations across pods.
3. **Two reviewers of one request** (`incident_concurrent_review`). `Approve`
   and `Reject` overwrite any status: an approved request may end rejected
   although it ran. The documents give the status one direction.
4. **A memory stated again** (`memory_restated`). A superseded memory that is
   stated again retires its rival but keeps its own past expiry: after A, B, A
   neither is retrieved.
5. **The keyword index keeps a replaced version** (`library_index`). The index
   is rebuilt before the files of the replaced version are removed, and not
   again afterwards.
6. **A failed version is retrieved** (`library_failed_version`). When the vector
   store reports an error for an insertion that it carried out, the new version
   is shown as failed, and its chunks are found beside those of the version shown
   as ready. The tutorial guarantees one version per document in the results;
   the design record admits that the switch is not transactional.

`Promote` is a further case: it moves a memory without looking for those of its
type and group where it goes, although the tutorial says that the members of a
group exclude each other. `GroupExclusive` excuses promoted memories for that
reason.

Two related cases are in the models and contradict no document. A submission
whose publish failed with the message in the queue is reported as failed and
runs all the same. Two versions of a source that are indexed at once (users who
do not wait, `Patient = FALSE`) may each remove the other.

## 5 The proofs

`tlapm` checks all of them; they hold for every value of the constants, under
the assumptions each module names (`...Assumption`) and those in the theorem.
TLC evaluates the assumptions in the runs.

The way is the same everywhere: the property is a consequence of an inductive
invariant, the invariant is a conjunction of named parts, and there is a lemma
for each part and group of actions.

| Theorem | States | Assumes of failures | Rests on |
|---|---|---|---|
| `ChatTaskProofs!Exclusion` | `ExclusiveExecution` | Redis answers | `OwnerInv`: whoever is past the claim owns the key |
| `AnswerIsFinal`, `KeptPromise` | `AnswerSticks`, `KeepsPromise` (refinement of `TaskPromise`, step by step) | none that reopens, then any | `SubmittedInv`, `AnsweredInv` |
| `NothingLost` | `NoTaskLost` | only dropped connections and expiring keys | `SupportInv`: a key that makes others skip a task has a reason; `RetryInv`, `LocalInv`, `NeverNack` |
| `RunningIsRun` | `RunningHasRunner` | no crash, Redis answers | `OwnerInv`, `LocalInv` |
| `CallsAreBudgeted` | `RetryBudget` | nothing redelivers | `BudgetInv`: a task is in one place, whose attempt number counts the calls |
| `IncidentApprovalProofs!OneTurn` | `OneTurnAtATime` | any | `TurnInv` |
| `OneRunPerApproval` | `ApprovalBuysOneRun` | any | `CallInv`, `GrantInv`: an unspent approval is held by the call that saved it |
| `WaitingVisible` | `WaitingIsListed` | any | `ListInv`: what unlists a request wrote its new status first |
| `DecidedUnlisted` | `DecidedIsUnlisted` | no Redis error, no crash | `UnlistInv`: who still has to unlist it |
| `StatusMovesOn` | `StatusOrder` | disk only; one call at a time, from the pending list | `OrderInv`: what a call finds in its record |
| `DecisionsReachTurns` | `DecisionReachesTurn` | expiry only; not before the turn stored its request | `ReachInv`: who still has to note it |
| `ChangeAnalysisProofs!FannedOutOnce` | `OneFanOut` | any | `KeyInv` |
| `SucceededIsStored`, `AnswerStands` | `SucceededHasResult`, `CardStands` | any | `OutcomeInv`, `ResultInv` |
| `CalmIsAnswered` | `NoFalseTimeout` | none yet | `CalmInv` |
| `BrokerProofs!NothingLeaks`, `StaysClosed` | `NoConnectionLeak`, `ClosedForGood` | any | `MutexInv`, `ReconnectInv`, `ClosedInv`, `ConnectionInv` |
| `NothingConnectsBehind`, `OrderlyShutdown` | `StoppedMeansClosed`, `ShutdownInOrder` | any | `LoopInv`, `WaitedInv`, `TurnInv`, `ServedInv` |
| `OutboundProofs!SlotsAreConserved`, `ProbesAreFew` | `SlotsConserved`, `ProbesHoldSlots` | any | `SlotsInv`, `ProbesInv` |
| `Overspend` | `OverspendBounded` | any | `SpendInv`: what is pending is paid for |
| `BelowThreshold` | `ClosedBelowThreshold` | any | `GoodBreaker` |
| `OnePool`, `NewerClient` | `OnePoolPerUrl`, `RetriesOnNewerClient` | any | `PoolMutexInv`, `NewerInv` |
| `ConversationProofs!OneChatTurn`, `EntriesLive` | `SessionExclusive`, `EntriesCountUsers` | any | `UsersAgree`, `EntriesAgree` |
| `TurnsSeeWhatWasSaid` | `TurnSeesPredecessors` | any; `Affinity` | `CopyInv`: which copies have all that was said |
| `LimitIsShared`, `BurstIsBounded` | `SharedLimit`, `BurstLimit` | any | `WindowInv` (grants are kept as long as they matter), `BucketInv` (a balance) |
| `MemoryExtractionProofs!LossesExplained` | `LossesAccounted` | any | `Standing`, `Behind`, `Carried`, `Undecoded`, `Spent` |
| `SlotsAreReturned`, `GivenUpLast` | `SlotsMatchJobs`, `DeadLettersAreFinal` | any | `Accounts`, `DeadLast` |
| `KnowledgeProofs!GroupsAreExclusive`, `StoreIsMirror`, `CapsHold`, `IndexSound` | `GroupExclusive`, `StoreMirrorsMemory`, `CapsAfterStore`, `IndexMatchesEntries` | any, a store read in part or not at all included | `LtmInv` |
| `IndexingGoesOn` | `IndexingIsUnderWay` | no failed file, no crash | `JudgedInv`: whoever shows a document as being indexed is about to judge it |
| `ChunksGoFirst` | `SearchableIsListed` | any; users wait | `OrderInv`: what a job has seen to when it comes to a step |
| `ReadyIsFound` | `ReadyIsSearchable` | any; users wait | `BegunInv`, `ServedInv`: what the newest record, the job about it and each older ready record say of the vector store |
| `SelfChecksPass` | `SelfChecksHold` | any | `GosInv`: the graph is a tree whose active part is closed upwards |
| `RootCauseHasBacking` | `RootCauseIsBacked` | any | `GosInv`, `PathFacts` |

`TypeCorrect`, `AmqpTypeCorrect`, `LtmTypeCorrect` and `KbTypeCorrect` are the
type invariants; the shapes the other modules need are part of their invariants.

Four arguments deserve a word.

* *What a property leaves out is who will repair it.* Most properties here are
  false in the middle of a handler. `UnlistInv`, `ReachInv`, `SupportInv`,
  `JudgedInv` and `ServedInv` name the one process that is on its way to make
  them true again, and the proof is that nobody takes the work from it.
* *Which copy of a conversation is up to date.* A session may be in the map of a
  process, in the hand of a turn whose copy has left the map, and in Redis.
  `CopyInv` says that, as long as the session is undisturbed, Redis and the map
  of its process both have all that was said, that one turn at most is about to
  write, and that this turn's copy is the one in the map unless there is none; an
  eviction or a clean-up then loses nothing. `AtHome` is where `Affinity` comes
  in: only one process has the session. `PairAdded` is the reason that a full
  window loses nothing either. Without `Affinity` the run
  `session_memory_pods` shows the counterexample.
* *`SharedLimit` counts in a window that moves with a clock that may be ahead.*
  `GrantsKept` says that a grant stays in Redis as long as any process may still
  count it; the bound then is one on a set of numbers, `Window - MaxSkew` long.
* *The graph of a diagnosis.* The hypotheses above one are defined by recursion,
  and neither that recursion nor an induction over it is available as it stands.
  `AncestorsUnfold` shows that the recursion has a solution (the least sets
  closed under "parent of"), and inductions are made by a first counterexample:
  `FirstOf` and `LargestExists` get it from the well-foundedness of the subsets
  of a finite set. From them `AncestorFacts` has one ancestor on each level,
  active with the hypothesis, which is why `Decide` never meets an orphan, why a
  retracted branch leaves a sound graph, and why `Conclude` reports the frontier
  it looked at.

Only model-checked:

* liveness (`SettlesPromise`, `TurnsEnd`, `FollowedUp`, `ConsumerReturns`,
  `CircuitRecovers`, `CallsReturn`): it takes fairness, which the provers here
  do not handle. Every other property of a passing run has its theorem.

## 6 Abstractions and limits

### 6.1 What the models leave out on purpose

* Contents. Tasks, messages, memories, documents and findings are names; what a
  model or a tool answers is a free choice among the outcomes the code tells
  apart. Scores are notches, versions and connections are counted from 1.
* Time is the order of events, except in the rate limit. TTLs and timers are
  actions that may happen whenever the code allows them to; where the length of
  two delays matters the guard says so (`GiveUp`, `RetryExpire`).
* Redis and Milvus execute one command at a time and read their own writes. A
  command that errs may have been applied. RabbitMQ keeps acknowledged messages.
* A single failing write to a file may leave the old file or a cut one; the
  atomic rename of the uploads leaves either the old or the new one.
* `cleanupStaleSessionLocks` (`internal/app/chat_app.go:228`) is not an action:
  it looks for entries without users, and the last user has always deleted the
  entry (`EntriesLive`). `ClearSession` has callers in tests only.
* An upload that is not Markdown has no document id and never enters the
  keyword index; the uploads of the model are Markdown.
* Model calls charge one unit each, so that the bound on overspending counts
  calls.

### 6.2 Components without a model

* **In-memory and file ledgers, artifacts, registry.** Maps and slices under
  one mutex: each operation is one atomic step, so nothing interleaves. The
  Redis ledger, whose operations are several commands, is the one modelled.
* **Incident life cycle.** A transition table over one record, used by one
  caller at a time; its unit tests walk the whole table.
* **Leader lease.** Acquire and RunIfLeader have no caller in the repository:
  only InstanceID is used.
* **Cluster bus and SSE notification of changes.** Best effort by design (its
  own comments say that events are lost while a subscriber is down): there is
  no delivery promise to check.
* **Change event adapters, ring buffer, RAG indexing.** Parsing of webhook
  bodies and formatting of documents; the ring buffer is the single-process
  alternative of the Redis store that is modelled.
* **Chat, planning and expert agents.** Graphs of language-model calls built on
  an external framework: what they compute is the model's output. To the
  modelled components an agent run is a step with three outcomes.
* **Action executor, alert correlation, chat operations.** Sequential
  computations on one request; no state is kept between calls except the
  executor's table of registered actions.
* **Context engine and context compression.** Selection and trimming of text
  under token budgets: pure functions whose result depends on text.
* **Retrieval and indexing.** Ranking and vector search: numeric and textual
  data, external stores.
* **Event emitters and SSE streaming.** Fan-out of progress messages within one
  request.
* **Tools and CMDB.** Mostly calls to external systems.
* **Skills, models, prompts.** Loading of definitions and construction of model
  clients.
* **Application services and controllers.** HTTP binding, validation and wiring
  of the components above; the session lock of chat_app.go is modelled with the
  session memory, the documents of knowledge_app.go with the knowledge base.
* **Authentication and middleware.** Parsing of tokens and headers, one request
  at a time; the revocation of a token is one Redis key. The rate limit it
  calls is modelled.
* **Feedback, analytics, collaboration.** Append and read of records.
* **Degradation switch.** A flag read from configuration or from one Redis key;
  the answers it leads to are branches of the modelled handlers.
* **Other infrastructure.** Clients of external services.
* **Health, metrics, tracing, logging, safety filters.** Observation and text
  filters: they change no state of the modelled components.
* **Evaluation harness and command-line tools.** Offline evaluation, not part
  of the running service.
* **Web frontend.** Pages; the start and the shutdown of the server are
  modelled.

Of the components modelled in part:

* **Session memory.** HandleChat and its stream under the per-session lock, the
  bounded map of copies, trimming, the Redis store, the idle clean-up and the
  response cache. ClearSession, the summariser's text and the answers
  themselves are left out.
* **Change event ingestion and proactive analysis.** Ingest down to single
  Redis commands, fan-out, the analyzer's debounce and tracker. Not modelled:
  queries, Cleanup and the cap of the store, the ring buffer, the tracker's
  eviction, expiry of keys.
* **Agent runtime and Redis task ledger.** Dispatch with its deadline and every
  error path, CreateTask, UpdateTaskStatus, AppendResult and the lookup by
  trace id. Not modelled: child tasks, the event list, artifacts, trimming at
  the cap.
* **Asynchronous AIOps runs.** RunAIOpsAsync starts the dispatch goroutine or
  answers without a trace, GetAIOpsResult reads the ledger; how the query is
  enriched is abstracted.
* **Start and shutdown of the server.** The connection loops of both pipelines
  and the orderly shutdown. The construction of the applications, the routes,
  the pprof server and tracing are left out; the loops are started once, as
  main does.
* **Memory extraction pipeline.** PersistOutcome with its fallback to a
  goroutine and the slots, delivery, claim, extraction, retry, dead letters and
  the requeue that keeps its claim. A resized semaphore, malformed bodies (as
  in ChatTask) and the choice of the agent are left out; the queue's start and
  stop are in Lifecycle.
* **Long-term memory.** Store with types, conflict groups and eviction, disable,
  promote, delete, the session index, the write-through and the reload, which
  may read the store in part or not at all, and the extraction workers that
  list, decide and apply. Forget, which nothing in the server calls, and access
  counts are left out.
* **Graph-of-states engine and belief graph.** A diagnosis from ingestion to
  report: planning, merging of evidence and proposals, state conversion with
  backtracking and refinement, and the older state machine. The graph's
  resource limits, its snapshots and the wording are left out; what models and
  tools answer is chosen freely.
* **Knowledge base documents.** Upload with its duplicate check and versions,
  status writes, indexing into the vector store and the keyword index, the
  cleanup of replaced versions, deletion and retry. Splitting, listing for
  display and files that are not Markdown are left out.

## 7 What could come next

* A theorem that weakens `Affinity`: what a session may still lose when its
  requests change process only between turns that have been written.
* The ring buffer and the tracker's eviction beside the change store, and child
  tasks in the ledger.
* The pools of retrieval: its cache and the parallel searches in
  `rag/hybrid.go` share results under deadlines.
