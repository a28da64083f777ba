----------------------------- MODULE Lifecycle -----------------------------
(***************************************************************************)
(* One server process from its start to its exit: the goroutines that      *)
(* connect the two pipeline clients in the background, the requests and    *)
(* the queued chat turn it serves meanwhile, and the orderly shutdown,     *)
(* every step of which waits for something and gives up after a while.     *)
(*                                                                         *)
(*   main.go                  main, configureChangeEvents, waitForShutdown *)
(*   internal/ai/service/     the connection loops of the two pipelines:   *)
(*                            memory_queue.go and chat_task_queue.go       *)
(*   utility/health/health.go                 CloseResources               *)
(*                                                                         *)
(* A client is installed at most once per process and reconnects by itself *)
(* afterwards (AmqpClient).  Starting its consumer cannot fail.            *)
(***************************************************************************)
EXTENDS Naturals

CONSTANTS
  Queues,       \* the two pipelines ...
  MemoryQueue,  \* ... the one shut down first ...
  ChatQueue,    \* ... and the one shut down last
  MaxRequests   \* bound: requests in flight at once

ASSUME QueuesAssumption ==
  Queues = {MemoryQueue, ChatQueue} /\ MemoryQueue # ChatQueue
ASSUME MaxRequestsAssumption == MaxRequests \in Nat

VARIABLES
  phase,      \* where main stands
  pipeline,   \* the pipeline it is starting or stopping
  loop,       \* where each pipeline's connection loop stands
  cancelled,  \* the context of each loop is cancelled
  conn,       \* what became of the client each loop connects
  overran,    \* waits of the shutdown that were given up
  loopsLeft,  \* the queues whose loop the shutdown did not wait out
  inflight,   \* HTTP requests being served
  task,       \* the chat consumer's handler
  redisOpen   \* the shared connections are open

lcVars == <<phase, pipeline, loop, cancelled, conn, overran, loopsLeft, inflight,
            task, redisOpen>>

LoopSteps == {"none", "check", "connect", "install", "sleep", "done"}

ConnStates == {"none",      \* not connected
               "hand",      \* connected, in the hands of the loop
               "installed", \* the client of the pipeline
               "taken",     \* swapped out by the shutdown, not closed yet
               "closed"}

\* Main's steps; a pipeline is stopped in up to four: cancel its loop, wait for
\* it, swap the client out, close it.
StopPhases == {"cancel", "wait", "swap", "close"}

Phases == StopPhases \cup
            {"start", "serve", "drain", "cleanup", "resources", "exited"}

Waits == {"drain", "cleanup", "consumer"}

\* What follows the stop of the pipeline.
AfterStop == IF pipeline = MemoryQueue THEN <<"cancel", ChatQueue>>
             ELSE <<"resources", pipeline>>

StoppedQueue(q) ==
  \/ phase \in {"resources", "exited"}
  \/ phase \in StopPhases /\ q = MemoryQueue /\ pipeline = ChatQueue

Running == phase # "exited"

mainFrame == <<phase, pipeline, overran, loopsLeft>>
loopsFrame == <<loop, cancelled, conn>>
servedFrame == <<inflight, task>>

----------------------------------------------------------------------------
(* Start-up *)

\* The pipeline's start only launches the loop: the server starts serving
\* whether or not the broker answers.
StartQueue(q) ==
  /\ phase = "start" /\ pipeline = q
  /\ loop' = [loop EXCEPT ![q] = "check"]
  /\ IF q = MemoryQueue
       THEN pipeline' = ChatQueue /\ UNCHANGED phase
       ELSE phase' = "serve" /\ UNCHANGED pipeline
  /\ UNCHANGED <<cancelled, conn, overran, loopsLeft, servedFrame, redisOpen>>

LoopCheck(q) ==
  /\ Running
  /\ loop[q] = "check"
  /\ loop' = [loop EXCEPT ![q] = IF cancelled[q] THEN "done" ELSE "connect"]
  /\ UNCHANGED <<mainFrame, cancelled, conn, servedFrame, redisOpen>>

\* Connect, with the consumer started; the context is not consulted again.
LoopConnect(q) ==
  /\ Running
  /\ loop[q] = "connect"
  /\ loop' = [loop EXCEPT ![q] = "install"]
  /\ conn' = [conn EXCEPT ![q] = "hand"]
  /\ UNCHANGED <<mainFrame, cancelled, servedFrame, redisOpen>>

LoopRefused(q) ==
  /\ Running
  /\ loop[q] = "connect"
  /\ loop' = [loop EXCEPT ![q] = "sleep"]
  /\ UNCHANGED <<mainFrame, cancelled, conn, servedFrame, redisOpen>>

LoopInstall(q) ==
  /\ Running
  /\ loop[q] = "install"
  /\ loop' = [loop EXCEPT ![q] = "done"]
  /\ conn' = [conn EXCEPT ![q] = "installed"]
  /\ UNCHANGED <<mainFrame, cancelled, servedFrame, redisOpen>>

\* The pause before the next attempt, which a cancellation cuts short.
LoopSleep(q) ==
  /\ Running
  /\ loop[q] = "sleep"
  /\ loop' = [loop EXCEPT ![q] = IF cancelled[q] THEN "done" ELSE "check"]
  /\ UNCHANGED <<mainFrame, cancelled, conn, servedFrame, redisOpen>>

LoopStep(q) ==
  \/ LoopCheck(q) \/ LoopConnect(q) \/ LoopRefused(q)
  \/ LoopInstall(q) \/ LoopSleep(q)

----------------------------------------------------------------------------
(* Serving *)

RequestArrives ==
  /\ phase = "serve"
  /\ inflight < MaxRequests
  /\ inflight' = inflight + 1
  /\ UNCHANGED <<mainFrame, loopsFrame, task, redisOpen>>

RequestEnds ==
  /\ Running
  /\ inflight > 0
  /\ inflight' = inflight - 1
  /\ UNCHANGED <<mainFrame, loopsFrame, task, redisOpen>>

\* The chat consumer runs from before the client is installed until the
\* client is closed.
TaskArrives ==
  /\ Running
  /\ conn[ChatQueue] \in {"hand", "installed"}
  /\ ~task
  /\ task' = TRUE
  /\ UNCHANGED <<mainFrame, loopsFrame, inflight, redisOpen>>

TaskEnds ==
  /\ Running
  /\ task
  /\ task' = FALSE
  /\ UNCHANGED <<mainFrame, loopsFrame, inflight, redisOpen>>

----------------------------------------------------------------------------
(* waitForShutdown *)

\* The server stops first: nothing below it is stopped under a request.
AfterSignalM == "cleanup"
AfterSignal == "drain"

PhaseGoto(p) == phase' = p /\ UNCHANGED pipeline

StopDone == phase' = AfterStop[1] /\ pipeline' = AfterStop[2]

\* A wait is over because what it waits for has happened, or because the time
\* for it is up.
WaitOrGiveUp(done, wait) ==
  overran' = IF done THEN overran ELSE overran \cup {wait}

Signal ==
  /\ phase = "serve"
  /\ PhaseGoto(AfterSignal)
  /\ UNCHANGED <<overran, loopsLeft, loopsFrame, servedFrame, redisOpen>>

\* The listener is closed and the requests in flight are waited for.
Drain ==
  /\ phase = "drain"
  /\ WaitOrGiveUp(inflight = 0, "drain")
  /\ PhaseGoto("cleanup")
  /\ UNCHANGED <<loopsLeft, loopsFrame, servedFrame, redisOpen>>

\* The periodic clean-up of change events is cancelled and waited for.
StopCleanup ==
  /\ phase = "cleanup"
  /\ \E done \in BOOLEAN : WaitOrGiveUp(done, "cleanup")
  /\ phase' = "cancel" /\ pipeline' = MemoryQueue
  /\ UNCHANGED <<loopsLeft, loopsFrame, servedFrame, redisOpen>>

CancelLoop(q) ==
  /\ phase = "cancel" /\ pipeline = q
  /\ cancelled' = [cancelled EXCEPT ![q] = TRUE]
  /\ PhaseGoto("wait")
  /\ UNCHANGED <<overran, loopsLeft, loop, conn, servedFrame, redisOpen>>

\* Two seconds at most.
Waited(q) == IF loop[q] = "done" THEN loopsLeft ELSE loopsLeft \cup {q}

WaitLoop(q) ==
  /\ phase = "wait" /\ pipeline = q
  /\ loopsLeft' = Waited(q)
  /\ PhaseGoto("swap")
  /\ UNCHANGED <<overran, loopsFrame, servedFrame, redisOpen>>

SwapOut(q) == [conn EXCEPT ![q] = "taken"]

SwapClient(q) ==
  /\ phase = "swap" /\ pipeline = q
  /\ IF conn[q] = "installed"
       THEN conn' = SwapOut(q) /\ PhaseGoto("close")
       ELSE StopDone /\ UNCHANGED conn
  /\ UNCHANGED <<overran, loopsLeft, loop, cancelled, servedFrame, redisOpen>>

ConsumerWaited(q) == q = ChatQueue => ~task

ClosedM(q) == conn
Closed(q) == [conn EXCEPT ![q] = "closed"]

CloseClient(q) ==
  /\ phase = "close" /\ pipeline = q
  /\ WaitOrGiveUp(ConsumerWaited(q), "consumer")
  /\ conn' = Closed(q)
  /\ StopDone
  /\ UNCHANGED <<loopsLeft, loop, cancelled, servedFrame, redisOpen>>

\* Redis, MySQL and Milvus.
CloseResources ==
  /\ phase = "resources"
  /\ redisOpen
  /\ redisOpen' = FALSE
  /\ UNCHANGED <<mainFrame, loopsFrame, servedFrame>>

Exit ==
  /\ phase = "resources"
  /\ ~redisOpen
  /\ PhaseGoto("exited")
  /\ UNCHANGED <<overran, loopsLeft, loopsFrame, servedFrame, redisOpen>>

StopQueue(q) == CancelLoop(q) \/ WaitLoop(q) \/ SwapClient(q) \/ CloseClient(q)

Shutdown ==
  \/ Drain \/ StopCleanup
  \/ \E q \in Queues : StopQueue(q)
  \/ CloseResources \/ Exit

----------------------------------------------------------------------------

LcInit ==
  /\ phase = "start"
  /\ pipeline = MemoryQueue
  /\ loop = [q \in Queues |-> "none"]
  /\ cancelled = [q \in Queues |-> FALSE]
  /\ conn = [q \in Queues |-> "none"]
  /\ overran = {}
  /\ loopsLeft = {}
  /\ inflight = 0
  /\ task = FALSE
  /\ redisOpen = TRUE

LcNext ==
  \/ \E q \in Queues : StartQueue(q) \/ LoopStep(q)
  \/ RequestArrives \/ RequestEnds
  \/ TaskArrives \/ TaskEnds
  \/ Signal
  \/ Shutdown

LcSpec == LcInit /\ [][LcNext]_lcVars

----------------------------------------------------------------------------
(* Properties *)

\* The shape of the state; the loop has a connected client in its hands
\* exactly between connecting and installing it.
LcTypeOK ==
  /\ phase \in Phases
  /\ pipeline \in Queues
  /\ loop \in [Queues -> LoopSteps]
  /\ cancelled \in [Queues -> BOOLEAN]
  /\ conn \in [Queues -> ConnStates]
  /\ overran \subseteq Waits
  /\ loopsLeft \subseteq Queues
  /\ inflight \in 0..MaxRequests
  /\ task \in BOOLEAN
  /\ redisOpen \in BOOLEAN
  /\ \A q \in Queues :
       /\ (conn[q] = "hand") <=> (loop[q] = "install")
       /\ (conn[q] = "taken") <=> (phase = "close" /\ pipeline = q)

\* Nothing connects behind the shutdown's back: once a pipeline is stopped no
\* client of it is left, unless its loop was still connecting when the wait
\* for it was given up.
StoppedMeansClosed ==
  \A q \in Queues :
    StoppedQueue(q) /\ q \notin loopsLeft =>
      loop[q] = "done" /\ conn[q] \in {"none", "closed"}

\* The shutdown takes things down in the order of their use: no pipeline is
\* stopped under a request that is still being served, and no chat turn is
\* left without Redis, unless a wait for them was given up.
ShutdownInOrder ==
  /\ inflight > 0 /\ "drain" \notin overran =>
       phase \in {"start", "serve", "drain"}
  /\ task /\ ~redisOpen =>
       "consumer" \in overran \/ ChatQueue \in loopsLeft

=============================================================================
