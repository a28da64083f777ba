---------------------------- MODULE BrokerProofs ----------------------------
(***************************************************************************)
(* Proofs about the AMQP client, for any number of publishers and failures,*)
(* and about the life of the process that owns two of them.                *)
(***************************************************************************)
EXTENDS AmqpClient, Lifecycle, TLAPS

USE ConsumerAssumption, NoActorAssumption, ClosingAssumption,
    AmqpBoundsAssumption, QueuesAssumption, MaxRequestsAssumption

----------------------------------------------------------------------------
(* The AMQP client: its type invariant *)

\* The shape of the state is kept.
LEMMA AmqpShapeStep ==
  ASSUME AmqpTypeOK, [AmqpNext]_amqpVars
  PROVE  AmqpTypeOK'
<1> USE DEF AmqpTypeOK, PubSteps, ReSteps, ConsSteps, CloserSteps, stateVars,
            loopVars, PubGoto, ReGoto, AmqpFault
<1>0. Consumer \in Actors
  BY DEF Actors
<1>1. ASSUME NEW a \in Actors, ReconnectLook(a) PROVE AmqpTypeOK'
  BY <1>0, <1>1 DEF ReconnectLook
<1>2. ASSUME NEW a \in Actors, ReconnectLock(a) PROVE AmqpTypeOK'
  BY <1>0, <1>2 DEF ReconnectLock
<1>3. ASSUME NEW a \in Actors, ReconnectCheck(a) PROVE AmqpTypeOK'
  BY <1>0, <1>3 DEF ReconnectCheck, Freed
<1>4. ASSUME NEW a \in Actors, ReconnectDial(a) PROVE AmqpTypeOK'
  <2>1. CASE UNCHANGED <<opened, dialed>>
    BY <1>4, <2>1 DEF ReconnectDial, Freed
  <2>2. CASE dialed' = dialed + 1 /\ opened' = opened \cup {dialed + 1}
    <3>1. 0..dialed \subseteq 0..dialed' /\ dialed' \in Nat \ {0}
      BY <2>2
    <3>2. opened' \subseteq 1..dialed'
      BY <2>2
    <3>3. re' \in [Actors -> ReSteps]
      BY <1>4 DEF ReconnectDial
    <3>4. /\ UNCHANGED <<current, using, old, closed, publishMu, pub, cons,
                          closer, published>>
          /\ reconnectMu' \in {reconnectMu, NoActor}
          /\ amqpFaults' \in {amqpFaults, amqpFaults + 1}
      BY <1>4 DEF ReconnectDial, Freed
    <3> QED BY <3>1, <3>2, <3>3, <3>4
  <2> QED BY <1>4, <2>1, <2>2 DEF ReconnectDial
<1>5. ASSUME NEW a \in Actors, ReconnectSwap(a) PROVE AmqpTypeOK'
  BY <1>0, <1>5 DEF ReconnectSwap
<1>6. ASSUME NEW a \in Actors, ReconnectDrop(a) PROVE AmqpTypeOK'
  <2>1. opened' \subseteq 1..dialed /\ dialed' = dialed
    BY <1>6 DEF ReconnectDrop, Dropped
  <2>2. old' \in [Actors -> 0..dialed] /\ re' \in [Actors -> ReSteps]
    BY <1>6 DEF ReconnectDrop
  <2>3. /\ UNCHANGED <<current, using, closed, publishMu, pub, cons, closer,
                        published, amqpFaults>>
        /\ reconnectMu' = NoActor
    BY <1>6 DEF ReconnectDrop
  <2> QED BY <2>1, <2>2, <2>3
<1>7. ASSUME NEW a \in Actors, PublishBegin(a) PROVE AmqpTypeOK'
  BY <1>0, <1>7 DEF PublishBegin
<1>8. ASSUME NEW a \in Actors, PublishLock(a) PROVE AmqpTypeOK'
  BY <1>0, <1>8 DEF PublishLock
<1>9. ASSUME NEW a \in Actors, PublishSend(a) PROVE AmqpTypeOK'
  BY <1>0, <1>9 DEF PublishSend
<1>10. ASSUME NEW a \in Actors, PublishTimeout(a) PROVE AmqpTypeOK'
  BY <1>0, <1>10 DEF PublishTimeout
<1>11. ASSUME NEW a \in Actors, PublishReconnected(a) PROVE AmqpTypeOK'
  BY <1>0, <1>11 DEF PublishReconnected
<1>12. ASSUME NEW a \in Actors, PublishResend(a) PROVE AmqpTypeOK'
  BY <1>0, <1>12 DEF PublishResend
<1>13. ASSUME NEW a \in Actors, PublishEnd(a) PROVE AmqpTypeOK'
  BY <1>0, <1>13 DEF PublishEnd
<1>14. CASE StartConsumer \/ Consuming
  <2>1. UNCHANGED frame /\ cons' \in ConsSteps
    BY <1>14 DEF StartConsumer, Consuming, ConsumerOpen, ConsumerConsume,
         ConsumerReopened, ConsumerReconsume, ConsumerSelect, ConsumerReplaced,
         HandlerReturns, ConsumerWakes, ConsGoto, AfterReplace
  <2>2. re' \in [Actors -> ReSteps]
    BY <1>14 DEF StartConsumer, Consuming, ConsumerOpen, ConsumerConsume,
         ConsumerReopened, ConsumerReconsume, ConsumerSelect, ConsumerReplaced,
         HandlerReturns, ConsumerWakes
  <2>3. using' \in [Actors -> 0..dialed]
    BY <1>14 DEF StartConsumer, Consuming, ConsumerOpen, ConsumerConsume,
         ConsumerReopened, ConsumerReconsume, ConsumerSelect, ConsumerReplaced,
         HandlerReturns, ConsumerWakes
  <2> QED BY <2>1, <2>2, <2>3 DEF frame
<1>15. CASE CloseBegin \/ CloseWait
  BY <1>0, <1>15 DEF CloseBegin, CloseWait, closeFrame
<1>16. CASE CloseLock
  BY <1>0, <1>16 DEF CloseLock, closeFrame
<1>17. CASE CloseSwap
  BY <1>0, <1>17 DEF CloseSwap, closeFrame
<1>18. CASE Drop \/ UNCHANGED amqpVars
  <2>1. opened' \subseteq 1..dialed /\ dialed' = dialed
    BY <1>18 DEF Drop, amqpVars
  <2> QED BY <1>18, <2>1 DEF Drop, amqpVars
<1> QED
  BY <1>1, <1>2, <1>3, <1>4, <1>5, <1>6, <1>7, <1>8, <1>9, <1>10, <1>11, <1>12,
     <1>13, <1>14, <1>15, <1>16, <1>17, <1>18
     DEF AmqpNext, Publishing, Reconnecting, CloseStep

\* A mutex is held by the goroutine that is between its Lock and its Unlock,
\* and by no other.
MutexInv ==
  /\ (reconnectMu = Closing) <=> (closer = "swap")
  /\ \A a \in Actors :
       /\ (reconnectMu = a) <=> (re[a] \in {"check", "dial", "swap", "drop"})
       /\ (publishMu = a) =>
            pub[a] \in {"send", "reconnect", "resend", "ok", "failed"}

\* Only a publish that lost its connection and a consumer that lost its own
\* are in reconnect, and the consumer's handler publishes only while it runs.
ReconnectInv ==
  /\ \A a \in Actors :
       re[a] # "none" => \/ pub[a] = "reconnect"
                         \/ a = Consumer /\ cons \in {"reopen", "replace"}
  /\ pub[Consumer] # "idle" => cons = "handling"

\* Who reconnects is kept.
LEMMA ReconnectStep ==
  ASSUME AmqpTypeOK, ReconnectInv, [AmqpNext]_amqpVars
  PROVE  ReconnectInv'
<1> USE DEF AmqpTypeOK, ReconnectInv, stateVars, loopVars, PubGoto, ReGoto
<1>0. Consumer \in Actors
  BY DEF Actors
<1>1. ASSUME NEW a \in Actors, ReconnectLook(a) PROVE ReconnectInv'
  BY <1>0, <1>1 DEF ReconnectLook
<1>2. ASSUME NEW a \in Actors, ReconnectLock(a) PROVE ReconnectInv'
  BY <1>0, <1>2 DEF ReconnectLock
<1>3. ASSUME NEW a \in Actors, ReconnectCheck(a) PROVE ReconnectInv'
  BY <1>0, <1>3 DEF ReconnectCheck, Freed
<1>4. ASSUME NEW a \in Actors, ReconnectDial(a) PROVE ReconnectInv'
  BY <1>0, <1>4 DEF ReconnectDial, Freed
<1>5. ASSUME NEW a \in Actors, ReconnectSwap(a) PROVE ReconnectInv'
  BY <1>0, <1>5 DEF ReconnectSwap
<1>6. ASSUME NEW a \in Actors, ReconnectDrop(a) PROVE ReconnectInv'
  BY <1>0, <1>6 DEF ReconnectDrop, Dropped
<1>7. ASSUME NEW a \in Actors, PublishBegin(a) PROVE ReconnectInv'
  BY <1>0, <1>7 DEF PublishBegin
<1>8. ASSUME NEW a \in Actors, PublishLock(a) PROVE ReconnectInv'
  BY <1>0, <1>8 DEF PublishLock
<1>9. ASSUME NEW a \in Actors, PublishSend(a) PROVE ReconnectInv'
  BY <1>0, <1>9 DEF PublishSend
<1>10. ASSUME NEW a \in Actors, PublishTimeout(a) PROVE ReconnectInv'
  BY <1>0, <1>10 DEF PublishTimeout
<1>11. ASSUME NEW a \in Actors, PublishReconnected(a) PROVE ReconnectInv'
  BY <1>0, <1>11 DEF PublishReconnected
<1>12. ASSUME NEW a \in Actors, PublishResend(a) PROVE ReconnectInv'
  BY <1>0, <1>12 DEF PublishResend
<1>13. ASSUME NEW a \in Actors, PublishEnd(a) PROVE ReconnectInv'
  BY <1>0, <1>13 DEF PublishEnd
<1>14. CASE StartConsumer \/ Consuming
  BY <1>0, <1>14 DEF StartConsumer, Consuming, ConsumerOpen, ConsumerConsume,
       ConsumerReopened, ConsumerReconsume, ConsumerSelect, ConsumerReplaced,
       HandlerReturns, ConsumerWakes, frame, ConsGoto, AfterReplace
<1>15. CASE CloseBegin \/ CloseWait
  BY <1>0, <1>15 DEF CloseBegin, CloseWait, closeFrame
<1>16. CASE CloseLock
  BY <1>0, <1>16 DEF CloseLock, closeFrame
<1>17. CASE CloseSwap
  BY <1>0, <1>17 DEF CloseSwap, closeFrame
<1>18. CASE Drop \/ UNCHANGED amqpVars
  BY <1>18 DEF Drop, amqpVars
<1> QED
  BY <1>1, <1>2, <1>3, <1>4, <1>5, <1>6, <1>7, <1>8, <1>9, <1>10, <1>11, <1>12,
     <1>13, <1>14, <1>15, <1>16, <1>17, <1>18
     DEF AmqpNext, Publishing, Reconnecting, CloseStep

\* The holders of the mutexes are kept.
LEMMA MutexStep ==
  ASSUME AmqpTypeOK, ReconnectInv, MutexInv, [AmqpNext]_amqpVars
  PROVE  MutexInv'
<1> USE DEF AmqpTypeOK, MutexInv, ReconnectInv, stateVars, loopVars, PubGoto,
            ReGoto
<1>0. /\ Consumer \in Actors
      /\ \A a \in Actors : a # Closing /\ a # NoActor
      /\ Closing # NoActor
  BY DEF Actors
<1>1. ASSUME NEW a \in Actors, ReconnectLook(a) PROVE MutexInv'
  BY <1>0, <1>1 DEF ReconnectLook
<1>2. ASSUME NEW a \in Actors, ReconnectLock(a) PROVE MutexInv'
  BY <1>0, <1>2 DEF ReconnectLock
<1>3. ASSUME NEW a \in Actors, ReconnectCheck(a) PROVE MutexInv'
  BY <1>0, <1>3 DEF ReconnectCheck, Freed
<1>4. ASSUME NEW a \in Actors, ReconnectDial(a) PROVE MutexInv'
  BY <1>0, <1>4 DEF ReconnectDial, Freed
<1>5. ASSUME NEW a \in Actors, ReconnectSwap(a) PROVE MutexInv'
  BY <1>0, <1>5 DEF ReconnectSwap
<1>6. ASSUME NEW a \in Actors, ReconnectDrop(a) PROVE MutexInv'
  BY <1>0, <1>6 DEF ReconnectDrop, Dropped
<1>7. ASSUME NEW a \in Actors, PublishBegin(a) PROVE MutexInv'
  BY <1>0, <1>7 DEF PublishBegin
<1>8. ASSUME NEW a \in Actors, PublishLock(a) PROVE MutexInv'
  BY <1>0, <1>8 DEF PublishLock
<1>9. ASSUME NEW a \in Actors, PublishSend(a) PROVE MutexInv'
  BY <1>0, <1>9 DEF PublishSend
<1>10. ASSUME NEW a \in Actors, PublishTimeout(a) PROVE MutexInv'
  BY <1>0, <1>10 DEF PublishTimeout
<1>11. ASSUME NEW a \in Actors, PublishReconnected(a) PROVE MutexInv'
  BY <1>0, <1>11 DEF PublishReconnected
<1>12. ASSUME NEW a \in Actors, PublishResend(a) PROVE MutexInv'
  BY <1>0, <1>12 DEF PublishResend
<1>13. ASSUME NEW a \in Actors, PublishEnd(a) PROVE MutexInv'
  BY <1>0, <1>13 DEF PublishEnd
<1>14. CASE StartConsumer \/ Consuming
  BY <1>0, <1>14 DEF StartConsumer, Consuming, ConsumerOpen, ConsumerConsume,
       ConsumerReopened, ConsumerReconsume, ConsumerSelect, ConsumerReplaced,
       HandlerReturns, ConsumerWakes, frame, ConsGoto, AfterReplace
<1>15. CASE CloseBegin \/ CloseWait
  BY <1>0, <1>15 DEF CloseBegin, CloseWait, closeFrame
<1>16. CASE CloseLock
  BY <1>0, <1>16 DEF CloseLock, closeFrame
<1>17. CASE CloseSwap
  BY <1>0, <1>17 DEF CloseSwap, closeFrame
<1>18. CASE Drop \/ UNCHANGED amqpVars
  BY <1>18 DEF Drop, amqpVars
<1> QED
  BY <1>1, <1>2, <1>3, <1>4, <1>5, <1>6, <1>7, <1>8, <1>9, <1>10, <1>11, <1>12,
     <1>13, <1>14, <1>15, <1>16, <1>17, <1>18
     DEF AmqpNext, Publishing, Reconnecting, CloseStep

AmqpTypeInv == AmqpTypeOK /\ ReconnectInv /\ MutexInv

\* The strengthened type invariant is inductive.
LEMMA AmqpTypeInvariance ==
  AmqpSpec => []AmqpTypeInv
<1>1. AmqpInit => AmqpTypeInv
  <2> SUFFICES ASSUME AmqpInit PROVE AmqpTypeInv
    OBVIOUS
  <2> USE DEF AmqpInit
  <2>1. AmqpTypeOK
    <3>1. dialed = 1 /\ opened \subseteq 1..1 /\ current \in 0..1 /\ 0 \in 0..1
      OBVIOUS
    <3>2. using \in [Actors -> 0..dialed] /\ old \in [Actors -> 0..dialed]
      BY <3>1
    <3>3. /\ pub \in [Actors -> PubSteps] /\ re \in [Actors -> ReSteps]
          /\ cons \in ConsSteps /\ closer \in CloserSteps /\ closed \in BOOLEAN
      BY DEF PubSteps, ReSteps, ConsSteps, CloserSteps
    <3>4. /\ publishMu \in Actors \cup {NoActor}
          /\ reconnectMu \in Actors \cup {NoActor, Closing}
          /\ published \in Nat /\ amqpFaults \in Nat /\ dialed \in Nat \ {0}
      OBVIOUS
    <3> HIDE DEF AmqpInit
    <3> QED BY <3>1, <3>2, <3>3, <3>4 DEF AmqpTypeOK
  <2>2. ReconnectInv
    BY DEF ReconnectInv, Actors
  <2>3. MutexInv
    BY DEF MutexInv, Actors
  <2> QED BY <2>1, <2>2, <2>3 DEF AmqpTypeInv
<1>2. AmqpTypeInv /\ [AmqpNext]_amqpVars => AmqpTypeInv'
  BY AmqpShapeStep, ReconnectStep, MutexStep DEF AmqpTypeInv
<1> QED BY <1>1, <1>2, PTL DEF AmqpSpec

\* The shape of the client's state, and that each mutex has one holder: for
\* any number of publishers.
THEOREM AmqpTypeCorrect ==
  AmqpSpec => [](AmqpTypeOK /\ MutexInv)
BY AmqpTypeInvariance, PTL DEF AmqpTypeInv

----------------------------------------------------------------------------
(* The AMQP client: its connections *)

\* Once Close has returned nothing is left of the connection, and nobody is
\* in reconnect with a new one.
ClosedInv ==
  /\ closed <=> (closer # "open")
  /\ closer = "closed" =>
       /\ current = 0 /\ opened = {}
       /\ \A a \in Actors : re[a] \notin {"dial", "swap", "drop"}

ConnectionInv == AmqpTypeInv /\ ClosedInv /\ NoConnectionLeak

\* A step of the client closes nothing for good with a connection left, and
\* forgets none.
LEMMA ConnectionStep ==
  ASSUME ConnectionInv, [AmqpNext]_amqpVars
  PROVE  ClosedInv' /\ NoConnectionLeak'
<1> USE DEF ConnectionInv, AmqpTypeInv, AmqpTypeOK, MutexInv, ReconnectInv,
            ClosedInv, NoConnectionLeak, stateVars, loopVars, PubGoto, ReGoto
<1>0. /\ Consumer \in Actors
      /\ \A a \in Actors : a # Closing /\ a # NoActor
      /\ Closing # NoActor
  BY DEF Actors
<1>1. ASSUME NEW a \in Actors, ReconnectLook(a) PROVE ClosedInv' /\ NoConnectionLeak'
  BY <1>0, <1>1 DEF ReconnectLook
<1>2. ASSUME NEW a \in Actors, ReconnectLock(a) PROVE ClosedInv' /\ NoConnectionLeak'
  BY <1>0, <1>2 DEF ReconnectLock
<1>3. ASSUME NEW a \in Actors, ReconnectCheck(a) PROVE ClosedInv' /\ NoConnectionLeak'
  BY <1>0, <1>3 DEF ReconnectCheck, StillOpen, Freed
<1>4. ASSUME NEW a \in Actors, ReconnectDial(a) PROVE ClosedInv' /\ NoConnectionLeak'
  BY <1>0, <1>4 DEF ReconnectDial, Freed
<1>5. ASSUME NEW a \in Actors, ReconnectSwap(a) PROVE ClosedInv' /\ NoConnectionLeak'
  BY <1>0, <1>5 DEF ReconnectSwap
<1>6. ASSUME NEW a \in Actors, ReconnectDrop(a) PROVE ClosedInv' /\ NoConnectionLeak'
  BY <1>0, <1>6 DEF ReconnectDrop, Dropped
<1>7. ASSUME NEW a \in Actors, PublishBegin(a) PROVE ClosedInv' /\ NoConnectionLeak'
  BY <1>0, <1>7 DEF PublishBegin
<1>8. ASSUME NEW a \in Actors, PublishLock(a) PROVE ClosedInv' /\ NoConnectionLeak'
  BY <1>0, <1>8 DEF PublishLock
<1>9. ASSUME NEW a \in Actors, PublishSend(a) PROVE ClosedInv' /\ NoConnectionLeak'
  BY <1>0, <1>9 DEF PublishSend
<1>10. ASSUME NEW a \in Actors, PublishTimeout(a) PROVE ClosedInv' /\ NoConnectionLeak'
  BY <1>0, <1>10 DEF PublishTimeout
<1>11. ASSUME NEW a \in Actors, PublishReconnected(a) PROVE ClosedInv' /\ NoConnectionLeak'
  BY <1>0, <1>11 DEF PublishReconnected
<1>12. ASSUME NEW a \in Actors, PublishResend(a) PROVE ClosedInv' /\ NoConnectionLeak'
  BY <1>0, <1>12 DEF PublishResend
<1>13. ASSUME NEW a \in Actors, PublishEnd(a) PROVE ClosedInv' /\ NoConnectionLeak'
  BY <1>0, <1>13 DEF PublishEnd
<1>14. CASE StartConsumer \/ Consuming
  <2>1. UNCHANGED <<current, opened, dialed, closed, old, closer>>
    BY <1>14 DEF StartConsumer, Consuming, ConsumerOpen, ConsumerConsume,
         ConsumerReopened, ConsumerReconsume, ConsumerSelect, ConsumerReplaced,
         HandlerReturns, ConsumerWakes, frame
  <2>2. \A a \in Actors : re'[a] = re[a]
                           \/ {re[a], re'[a]} \subseteq {"none", "look", "ok", "failed"}
    BY <1>0, <1>14 DEF StartConsumer, Consuming, ConsumerOpen, ConsumerConsume,
         ConsumerReopened, ConsumerReconsume, ConsumerSelect, ConsumerReplaced,
         HandlerReturns, ConsumerWakes, frame, ConsGoto
  <2>3. \A a \in Actors : \A step \in {"dial", "swap", "drop"} :
          re'[a] = step <=> re[a] = step
    BY <2>2
  <2>4. ClosedInv'
    BY <2>1, <2>3
  <2>5. NoConnectionLeak'
    BY <2>1, <2>3
  <2> QED BY <2>4, <2>5
<1>15. CASE CloseBegin \/ CloseWait
  BY <1>0, <1>15 DEF CloseBegin, CloseWait, closeFrame
<1>16. CASE CloseLock
  BY <1>0, <1>16 DEF CloseLock, closeFrame
<1>17. CASE CloseSwap
  BY <1>0, <1>17 DEF CloseSwap, closeFrame
<1>18. CASE Drop \/ UNCHANGED amqpVars
  <2>1. /\ UNCHANGED <<current, dialed, closed, re, old, closer>>
        /\ opened' \subseteq opened
    BY <1>18 DEF Drop, amqpVars
  <2> QED BY <2>1
<1> QED
  BY <1>1, <1>2, <1>3, <1>4, <1>5, <1>6, <1>7, <1>8, <1>9, <1>10, <1>11, <1>12,
     <1>13, <1>14, <1>15, <1>16, <1>17, <1>18
     DEF AmqpNext, Publishing, Reconnecting, CloseStep

\* The invariant of the connections holds throughout.
LEMMA ConnectionInvariance ==
  AmqpSpec => []ConnectionInv
<1>1. AmqpInit => ClosedInv /\ NoConnectionLeak
  BY DEF AmqpInit, ClosedInv, NoConnectionLeak
<1>2. ConnectionInv /\ [AmqpNext]_amqpVars => ClosedInv' /\ NoConnectionLeak'
  BY ConnectionStep
<1> QED BY <1>1, <1>2, AmqpTypeInvariance, PTL DEF AmqpSpec, ConnectionInv

\* No open connection is forgotten by the goroutines that replace each
\* other's connections.
THEOREM NothingLeaks ==
  AmqpSpec => []NoConnectionLeak
BY ConnectionInvariance, PTL DEF ConnectionInv

\* After Close has returned no connection comes back, whatever publishers and
\* the consumer were doing when it began.
THEOREM StaysClosed ==
  AmqpSpec => []ClosedForGood
<1>1. ConnectionInv => ClosedForGood
  BY DEF ConnectionInv, ClosedInv, ClosedForGood
<1> QED BY <1>1, ConnectionInvariance, PTL

----------------------------------------------------------------------------
(* The life of a process *)

\* A loop is started once, and a client is made by a loop that then ends.
LoopInv ==
  \A q \in Queues :
    /\ phase = "start" =>
         loop[q] = "none" \/ (q = MemoryQueue /\ pipeline = ChatQueue)
    /\ conn[q] # "none" => loop[q] \in {"install", "done"}

\* The type invariant of the process is inductive.
LEMMA LcTypeStep ==
  ASSUME LcTypeOK, LoopInv, [LcNext]_lcVars
  PROVE  LcTypeOK' /\ LoopInv'
<1> USE DEF LcTypeOK, LoopInv, Phases, StopPhases, LoopSteps, ConnStates, Waits,
            mainFrame, loopsFrame, servedFrame, Running, PhaseGoto
<1>1. ASSUME NEW q \in Queues, StartQueue(q) PROVE LcTypeOK' /\ LoopInv'
  BY <1>1 DEF StartQueue
<1>2. ASSUME NEW q \in Queues, LoopStep(q) PROVE LcTypeOK' /\ LoopInv'
  <2>1. CASE LoopCheck(q) \/ LoopRefused(q) \/ LoopSleep(q)
    <3>1. PICK step \in {"done", "connect", "sleep", "check"} :
            loop' = [loop EXCEPT ![q] = step]
      BY <2>1 DEF LoopCheck, LoopRefused, LoopSleep
    <3>2. /\ UNCHANGED <<mainFrame, cancelled, conn, servedFrame, redisOpen>>
          /\ loop[q] \in {"check", "connect", "sleep"}
      BY <2>1 DEF LoopCheck, LoopRefused, LoopSleep
    <3> QED BY <3>1, <3>2
  <2>2. CASE LoopConnect(q)
    BY <2>2 DEF LoopConnect
  <2>3. CASE LoopInstall(q)
    BY <2>3 DEF LoopInstall
  <2> QED BY <1>2, <2>1, <2>2, <2>3 DEF LoopStep
<1>3. CASE RequestArrives \/ RequestEnds \/ TaskArrives \/ TaskEnds
  <2>1. inflight' \in 0..MaxRequests
    BY <1>3 DEF RequestArrives, RequestEnds, TaskArrives, TaskEnds
  <2>3. task' \in BOOLEAN
    BY <1>3 DEF RequestArrives, RequestEnds, TaskArrives, TaskEnds
  <2>2. UNCHANGED <<mainFrame, loopsFrame, redisOpen>>
    BY <1>3 DEF RequestArrives, RequestEnds, TaskArrives, TaskEnds
  <2> QED BY <2>1, <2>2, <2>3
<1>4. CASE Signal \/ Drain \/ StopCleanup \/ CloseResources \/ Exit
  BY <1>4 DEF Signal, Drain, StopCleanup, CloseResources, Exit, AfterSignal,
              WaitOrGiveUp
<1>5. ASSUME NEW q \in Queues, CancelLoop(q) \/ WaitLoop(q) PROVE LcTypeOK' /\ LoopInv'
  BY <1>5 DEF CancelLoop, WaitLoop, Waited
<1>6. ASSUME NEW q \in Queues, SwapClient(q) PROVE LcTypeOK' /\ LoopInv'
  BY <1>6 DEF SwapClient, SwapOut, StopDone, AfterStop
<1>7. ASSUME NEW q \in Queues, CloseClient(q) PROVE LcTypeOK' /\ LoopInv'
  BY <1>7 DEF CloseClient, Closed, StopDone, AfterStop, WaitOrGiveUp
<1>8. CASE UNCHANGED lcVars
  BY <1>8 DEF lcVars
<1> QED
  BY <1>1, <1>2, <1>3, <1>4, <1>5, <1>6, <1>7, <1>8
     DEF LcNext, Shutdown, StopQueue

\* Once the loop was waited for it has ended, or was left behind.
WaitedInv ==
  \A q \in Queues :
    (phase \in {"swap", "close"} /\ pipeline = q) \/ StoppedQueue(q) =>
      loop[q] = "done" \/ q \in loopsLeft

\* A chat turn outlives its client only if the wait for it was given up, and
\* Redis is closed after both pipelines.
TurnInv ==
  /\ task /\ conn[ChatQueue] \in {"none", "closed"} => "consumer" \in overran
  /\ ~redisOpen => phase \in {"resources", "exited"}

ServedInv ==
  inflight > 0 /\ "drain" \notin overran => phase \in {"start", "serve", "drain"}

LifeInv ==
  /\ LcTypeOK /\ LoopInv
  /\ WaitedInv /\ TurnInv /\ ServedInv /\ StoppedMeansClosed

\* What the shutdown has waited for, stopped and closed stays so.
LEMMA LifeStep ==
  ASSUME LifeInv, LcTypeOK', [LcNext]_lcVars
  PROVE  (WaitedInv /\ TurnInv /\ ServedInv /\ StoppedMeansClosed)'
<1> USE DEF LifeInv, LcTypeOK, WaitedInv, TurnInv, ServedInv,
            StoppedMeansClosed, StoppedQueue, Phases, StopPhases, LoopSteps,
            ConnStates, mainFrame, loopsFrame, servedFrame, Running, PhaseGoto
<1> DEFINE Goal == (WaitedInv /\ TurnInv /\ ServedInv /\ StoppedMeansClosed)'
<1>1. ASSUME NEW q \in Queues, StartQueue(q) PROVE Goal
  BY <1>1 DEF StartQueue
<1>2. ASSUME NEW q \in Queues, LoopStep(q) PROVE Goal
  BY <1>2 DEF LoopStep, LoopCheck, LoopConnect, LoopRefused, LoopInstall,
              LoopSleep
<1>3. CASE RequestArrives \/ RequestEnds \/ TaskArrives \/ TaskEnds
  BY <1>3 DEF RequestArrives, RequestEnds, TaskArrives, TaskEnds
<1>4. CASE Signal \/ Drain \/ StopCleanup \/ CloseResources \/ Exit
  BY <1>4 DEF Signal, Drain, StopCleanup, CloseResources, Exit, AfterSignal,
              WaitOrGiveUp
<1>5. ASSUME NEW q \in Queues, CancelLoop(q) \/ WaitLoop(q) PROVE Goal
  BY <1>5 DEF CancelLoop, WaitLoop, Waited
<1>6. ASSUME NEW q \in Queues, SwapClient(q) PROVE Goal
  BY <1>6 DEF SwapClient, SwapOut, StopDone, AfterStop
<1>7. ASSUME NEW q \in Queues, CloseClient(q) PROVE Goal
  BY <1>7 DEF CloseClient, Closed, StopDone, AfterStop, WaitOrGiveUp,
              ConsumerWaited
<1>8. CASE UNCHANGED lcVars
  BY <1>8 DEF lcVars
<1> QED
  BY <1>1, <1>2, <1>3, <1>4, <1>5, <1>6, <1>7, <1>8
     DEF LcNext, Shutdown, StopQueue

\* The invariant of the process' life holds throughout.
LEMMA LifeInvariance == LcSpec => []LifeInv
<1>1. LcInit => LifeInv
  <2> SUFFICES ASSUME LcInit PROVE LifeInv
    OBVIOUS
  <2>1. LoopInv /\ inflight \in 0..MaxRequests
    BY DEF LcInit, LoopInv
  <2>3. LcTypeOK
    BY <2>1 DEF LcInit, LcTypeOK, Phases, LoopSteps, ConnStates, Waits
  <2>2. WaitedInv /\ TurnInv /\ ServedInv /\ StoppedMeansClosed
    BY DEF LcInit, WaitedInv, TurnInv, ServedInv, StoppedMeansClosed,
           StoppedQueue, StopPhases
  <2> QED BY <2>1, <2>2, <2>3 DEF LifeInv
<1>2. LifeInv /\ [LcNext]_lcVars => LifeInv'
  BY LcTypeStep, LifeStep DEF LifeInv
<1> QED BY <1>1, <1>2, PTL DEF LcSpec

\* A stopped pipeline has no client left, unless its loop was left behind.
THEOREM NothingConnectsBehind == LcSpec => []StoppedMeansClosed
BY LifeInvariance, PTL DEF LifeInv

\* The shutdown takes nothing away from a request or a chat turn before it
\* has waited for it.
THEOREM OrderlyShutdown == LcSpec => []ShutdownInOrder
<1>1. LifeInv => ShutdownInOrder
  BY DEF LifeInv, LcTypeOK, WaitedInv, TurnInv, ServedInv, StoppedMeansClosed,
         StoppedQueue, ShutdownInOrder
<1> QED BY <1>1, LifeInvariance, PTL
=============================================================================
