----------------------------- MODULE AmqpClient -----------------------------
(***************************************************************************)
(* The RabbitMQ client each pipeline has in each process: goroutines that  *)
(* publish, one consumer goroutine whose handler may publish too, and a    *)
(* Close at shutdown, all of which use, replace or close one connection.   *)
(*                                                                         *)
(*   internal/infra/rabbitmq/client.go    Publish, StartConsumer,          *)
(*                                        reconnect, Close                 *)
(*   internal/infra/rabbitmq/topology.go  OpenChannels                     *)
(*                                                                         *)
(* The publish and the consume channel of a connection open and close with *)
(* it, so a connection stands for both.  A reconnection does not ask       *)
(* whether somebody else has just made one: it replaces what it finds, and *)
(* takes the connection away from under whoever still uses it.             *)
(***************************************************************************)
EXTENDS Naturals

CONSTANTS
  Publishers,     \* goroutines that submit or enqueue
  Consumer,       \* the goroutine of StartConsumer
  NoActor,        \* the holder of a free mutex
  MaxPublishes,   \* bound: publishes there will be
  AmqpMaxFaults   \* bound: dropped connections, failed dials and time-outs

ASSUME ConsumerAssumption == Consumer \notin Publishers
ASSUME NoActorAssumption == NoActor \notin Publishers \cup {Consumer}
ASSUME AmqpBoundsAssumption == MaxPublishes \in Nat /\ AmqpMaxFaults \in Nat

VARIABLES
  current,     \* the connection in the client's state; 0 is nil
  opened,      \* connections the broker has open
  dialed,      \* connections made so far, numbered from 1
  closed,      \* Client.closed
  publishMu,   \* the actor holding publishMu
  reconnectMu, \* the actor holding reconnectMu, the closer included
  pub,         \* where each actor stands in Publish
  re,          \* where each actor stands in reconnect
  using,       \* the connection whose channel each actor has got hold of
  old,         \* the connection each actor has replaced and must close
  cons,        \* where the consumer loop stands
  closer,      \* progress of Close
  published,   \* publishes begun so far
  amqpFaults   \* failures so far

amqpVars == <<current, opened, dialed, closed, publishMu, reconnectMu, pub,
              re, using, old, cons, closer, published, amqpFaults>>

Actors == Publishers \cup {Consumer}

Closing == "Close"   \* the goroutine in Close, as a holder of reconnectMu

ASSUME ClosingAssumption == Closing \notin Actors \cup {NoActor}

PubSteps == {"idle", "lock", "send", "reconnect", "resend", "ok", "failed"}

ReSteps == {"none", "look", "lock", "check", "dial", "swap", "drop", "ok",
            "failed"}

ConsSteps == {"idle", "open", "consume", "reopen", "reconsume",
              "consuming", "handling", "sleep", "replace", "stopped"}

CloserSteps == {"open", "cancelled", "lock", "swap", "closed"}

AmqpFault == amqpFaults < AmqpMaxFaults /\ amqpFaults' = amqpFaults + 1

PubGoto(a, step) == pub' = [pub EXCEPT ![a] = step]
ReGoto(a, step) == re' = [re EXCEPT ![a] = step]

----------------------------------------------------------------------------
(* reconnect, for actor a *)

stateVars == <<current, opened, dialed, closed>>
loopVars == <<publishMu, pub, cons, closer, published>>

Freed == NoActor

\* The first look at closed.
ReconnectLook(a) ==
  /\ re[a] = "look"
  /\ ReGoto(a, IF closed THEN "failed" ELSE "lock")
  /\ UNCHANGED <<stateVars, reconnectMu, loopVars, using, old, amqpFaults>>

ReconnectLock(a) ==
  /\ re[a] = "lock"
  /\ reconnectMu = NoActor
  /\ reconnectMu' = a
  /\ ReGoto(a, "check")
  /\ UNCHANGED <<stateVars, loopVars, using, old, amqpFaults>>

\* The second look, under the mutex.
StillOpen == ~closed

ReconnectCheck(a) ==
  /\ re[a] = "check"
  /\ IF StillOpen
       THEN ReGoto(a, "dial") /\ UNCHANGED reconnectMu
       ELSE ReGoto(a, "failed") /\ reconnectMu' = Freed
  /\ UNCHANGED <<stateVars, loopVars, using, old, amqpFaults>>

\* OpenChannels: a new connection, or none: whatever a failed attempt had
\* opened by then it closes itself.
ReconnectDial(a) ==
  /\ re[a] = "dial"
  /\ \/ /\ dialed' = dialed + 1
        /\ opened' = opened \cup {dialed + 1}
        /\ ReGoto(a, "swap")
        /\ UNCHANGED <<reconnectMu, amqpFaults>>
     \/ /\ AmqpFault
        /\ ReGoto(a, "failed")
        /\ reconnectMu' = Freed
        /\ UNCHANGED <<opened, dialed>>
  /\ UNCHANGED <<current, closed, loopVars, using, old>>

\* swapAMQPState: the connection just dialed replaces the current one.
ReconnectSwap(a) ==
  /\ re[a] = "swap"
  /\ old' = [old EXCEPT ![a] = current]
  /\ current' = dialed
  /\ ReGoto(a, "drop")
  /\ UNCHANGED <<opened, dialed, closed, reconnectMu, loopVars, using,
                 amqpFaults>>

\* The replaced connection is closed, the mutex freed.
DroppedM(a) == opened
Dropped(a) == opened \ {old[a]}

ReconnectDrop(a) ==
  /\ re[a] = "drop"
  /\ opened' = Dropped(a)
  /\ old' = [old EXCEPT ![a] = 0]
  /\ reconnectMu' = NoActor
  /\ ReGoto(a, "ok")
  /\ UNCHANGED <<current, dialed, closed, loopVars, using, amqpFaults>>

Reconnecting(a) ==
  \/ ReconnectLook(a) \/ ReconnectLock(a) \/ ReconnectCheck(a)
  \/ ReconnectDial(a) \/ ReconnectSwap(a) \/ ReconnectDrop(a)

----------------------------------------------------------------------------
(* Publish, for actor a *)

\* Both looks at closed and publishMu; the closed client's error otherwise.
PublishBegin(a) ==
  /\ \/ a \in Publishers
     \/ a = Consumer /\ cons = "handling"
  /\ pub[a] = "idle"
  /\ published < MaxPublishes
  /\ published' = published + 1
  /\ PubGoto(a, "lock")
  /\ UNCHANGED <<stateVars, publishMu, reconnectMu, re, using, old, cons,
                 closer, amqpFaults>>

PublishLock(a) ==
  /\ pub[a] = "lock"
  /\ IF closed
       THEN PubGoto(a, "failed") /\ UNCHANGED <<publishMu, using>>
       ELSE /\ publishMu = NoActor
            /\ publishMu' = a
            /\ using' = [using EXCEPT ![a] = current]
            /\ PubGoto(a, "send")
  /\ UNCHANGED <<stateVars, reconnectMu, re, old, cons, closer, published,
                 amqpFaults>>

\* publishWithCurrentChannel succeeds on an open connection.  On any other
\* it fails and Publish reconnects, once.
PublishSend(a) ==
  /\ pub[a] = "send"
  /\ IF using[a] \in opened
       THEN PubGoto(a, "ok") /\ UNCHANGED re
       ELSE PubGoto(a, "reconnect") /\ ReGoto(a, "look")
  /\ UNCHANGED <<stateVars, publishMu, reconnectMu, using, old, cons, closer,
                 published, amqpFaults>>

\* The publish timeout is over before the send: no reconnection.
PublishTimeout(a) ==
  /\ pub[a] \in {"send", "resend"}
  /\ AmqpFault
  /\ PubGoto(a, "failed")
  /\ UNCHANGED <<stateVars, publishMu, reconnectMu, re, using, old, cons,
                 closer, published>>

PublishReconnected(a) ==
  /\ pub[a] = "reconnect"
  /\ re[a] \in {"ok", "failed"}
  /\ PubGoto(a, IF re[a] = "ok" THEN "resend" ELSE "failed")
  /\ using' = [using EXCEPT ![a] = current]
  /\ ReGoto(a, "none")
  /\ UNCHANGED <<stateVars, publishMu, reconnectMu, old, cons, closer,
                 published, amqpFaults>>

PublishResend(a) ==
  /\ pub[a] = "resend"
  /\ PubGoto(a, IF using[a] \in opened THEN "ok" ELSE "failed")
  /\ UNCHANGED <<stateVars, publishMu, reconnectMu, re, using, old, cons,
                 closer, published, amqpFaults>>

\* Publish returns, publishMu is freed.
PublishEnd(a) ==
  /\ pub[a] \in {"ok", "failed"}
  /\ publishMu' = IF publishMu = a THEN NoActor ELSE publishMu
  /\ PubGoto(a, "idle")
  /\ UNCHANGED <<stateVars, reconnectMu, re, using, old, cons, closer,
                 published, amqpFaults>>

Publishing(a) ==
  \/ PublishLock(a) \/ PublishSend(a) \/ PublishReconnected(a)
  \/ PublishResend(a) \/ PublishEnd(a) \/ Reconnecting(a)

----------------------------------------------------------------------------
(* The consumer loop *)

ConsGoto(step) == cons' = step

frame == <<stateVars, publishMu, reconnectMu, pub, old, closer, published,
           amqpFaults>>

\* The client's owner starts it once, right after Connect.
StartConsumer ==
  /\ cons = "idle"
  /\ ConsGoto("open")
  /\ UNCHANGED <<frame, using, re>>

\* openConsumerDeliveries: the current channel; a nil one is replaced first.
ConsumerOpen ==
  /\ cons = "open"
  /\ \/ closed /\ ConsGoto("stopped") /\ UNCHANGED <<using, re>>
     \/ /\ current # 0
        /\ ConsGoto("consume")
        /\ using' = [using EXCEPT ![Consumer] = current]
        /\ UNCHANGED re
     \/ /\ current = 0
        /\ ConsGoto("reopen")
        /\ ReGoto(Consumer, "look")
        /\ UNCHANGED using
  /\ UNCHANGED frame

\* Channel.Consume; on a closed one reconnect and consume again.
ConsumerConsume ==
  /\ cons = "consume"
  /\ IF using[Consumer] \in opened
       THEN ConsGoto("consuming") /\ UNCHANGED re
       ELSE ConsGoto("reopen") /\ ReGoto(Consumer, "look")
  /\ UNCHANGED <<frame, using>>

\* The reconnection of openConsumerDeliveries is over; an error is slept on.
ConsumerReopened ==
  /\ cons = "reopen"
  /\ re[Consumer] \in {"ok", "failed"}
  /\ ConsGoto(IF re[Consumer] = "ok" THEN "reconsume" ELSE "sleep")
  /\ using' = [using EXCEPT ![Consumer] = current]
  /\ ReGoto(Consumer, "none")
  /\ UNCHANGED frame

ConsumerReconsume ==
  /\ cons = "reconsume"
  /\ ConsGoto(IF using[Consumer] \in opened THEN "consuming" ELSE "sleep")
  /\ UNCHANGED <<frame, using, re>>

\* The inner select: a delivery goes to the handler, a closed stream of
\* deliveries to the pause before a reconnection, a cancelled context ends it.
ConsumerSelect ==
  /\ cons = "consuming"
  /\ \/ closed /\ ConsGoto("stopped") /\ UNCHANGED re
     \/ using[Consumer] \in opened /\ ConsGoto("handling") /\ UNCHANGED re
     \/ /\ using[Consumer] \notin opened
        /\ ConsGoto("replace")
        /\ ReGoto(Consumer, "look")
  /\ UNCHANGED <<frame, using>>

\* The reconnection after the stream closed; its error is only reported.
AfterReplaceM == IF re[Consumer] = "ok" THEN "open" ELSE "stopped"
AfterReplace == "open"

ConsumerReplaced ==
  /\ cons = "replace"
  /\ re[Consumer] \in {"ok", "failed"}
  /\ ConsGoto(AfterReplace)
  /\ ReGoto(Consumer, "none")
  /\ UNCHANGED <<frame, using>>

\* The handler returns; the connection it consumed from may be another one
\* than the current by now.
HandlerReturns ==
  /\ cons = "handling"
  /\ pub[Consumer] = "idle"
  /\ ConsGoto("consuming")
  /\ UNCHANGED <<frame, using, re>>

ConsumerWakes ==
  /\ cons = "sleep"
  /\ ConsGoto(IF closed THEN "stopped" ELSE "open")
  /\ UNCHANGED <<frame, using, re>>

Consuming ==
  \/ ConsumerOpen \/ ConsumerConsume \/ ConsumerReopened \/ ConsumerReconsume
  \/ ConsumerSelect \/ ConsumerReplaced \/ HandlerReturns \/ ConsumerWakes

----------------------------------------------------------------------------
(* Close *)

closeFrame == <<dialed, publishMu, pub, re, using, cons, published>>

\* closed is set and the consumer's context cancelled, under one lock.
CloseBegin ==
  /\ closer = "open"
  /\ closer' = "cancelled"
  /\ closed' = TRUE
  /\ UNCHANGED <<closeFrame, current, opened, reconnectMu, old, amqpFaults>>

\* The consumer has stopped, or a second has passed, whatever it is doing.
CloseWait ==
  /\ closer = "cancelled"
  /\ closer' = "lock"
  /\ UNCHANGED <<closeFrame, current, opened, closed, reconnectMu, old,
                 amqpFaults>>

CloseLock ==
  /\ closer = "lock"
  /\ reconnectMu = NoActor
  /\ reconnectMu' = Closing
  /\ closer' = "swap"
  /\ UNCHANGED <<closeFrame, current, opened, closed, old, amqpFaults>>

\* The state is emptied and the connection closed after the mutex is freed;
\* nobody else holds what was taken out, so this is one step.
CloseSwap ==
  /\ closer = "swap"
  /\ opened' = opened \ {current}
  /\ current' = 0
  /\ reconnectMu' = NoActor
  /\ closer' = "closed"
  /\ UNCHANGED <<closeFrame, closed, old, amqpFaults>>

CloseStep == CloseWait \/ CloseLock \/ CloseSwap

\* The broker or the network drops a connection.
Drop ==
  /\ \E n \in opened : opened' = opened \ {n}
  /\ AmqpFault
  /\ UNCHANGED <<current, dialed, closed, publishMu, reconnectMu, pub, re,
                 using, old, cons, closer, published>>

----------------------------------------------------------------------------

\* Connect has succeeded.
AmqpInit ==
  /\ current = 1
  /\ opened = {1}
  /\ dialed = 1
  /\ closed = FALSE
  /\ publishMu = NoActor
  /\ reconnectMu = NoActor
  /\ pub = [a \in Actors |-> "idle"]
  /\ re = [a \in Actors |-> "none"]
  /\ using = [a \in Actors |-> 0]
  /\ old = [a \in Actors |-> 0]
  /\ cons = "idle"
  /\ closer = "open"
  /\ published = 0
  /\ amqpFaults = 0

AmqpNext ==
  \/ \E a \in Actors : PublishBegin(a) \/ Publishing(a) \/ PublishTimeout(a)
  \/ StartConsumer \/ Consuming
  \/ CloseBegin \/ CloseStep
  \/ Drop

AmqpSpec == AmqpInit /\ [][AmqpNext]_amqpVars

----------------------------------------------------------------------------
(* Properties *)

\* The shape of the state.
AmqpTypeOK ==
  /\ current \in 0..dialed
  /\ opened \subseteq 1..dialed
  /\ dialed \in Nat \ {0}
  /\ closed \in BOOLEAN
  /\ publishMu \in Actors \cup {NoActor}
  /\ reconnectMu \in Actors \cup {NoActor, Closing}
  /\ pub \in [Actors -> PubSteps]
  /\ re \in [Actors -> ReSteps]
  /\ using \in [Actors -> 0..dialed]
  /\ old \in [Actors -> 0..dialed]
  /\ cons \in ConsSteps
  /\ closer \in CloserSteps
  /\ published \in Nat
  /\ amqpFaults \in Nat

\* No connection is forgotten: each open one is the client's current one or
\* in the hands of a goroutine in reconnect, which installs or closes it.
NoConnectionLeak ==
  \A n \in opened :
    \/ n = current
    \/ \E a \in Actors : re[a] = "swap" /\ n = dialed
    \/ \E a \in Actors : re[a] = "drop" /\ n = old[a]

\* A closed client stays closed: once Close has returned no reconnection
\* that was already under way brings a connection back, although Close does
\* not wait for publishers and only a second for the consumer.
ClosedForGood == closer = "closed" => current = 0 /\ opened = {}

\* The consumer comes back: however publishers and the consumer take the
\* connection away from each other, it consumes again or was told to stop.
ConsumerReturns ==
  (cons \notin {"idle", "consuming"}) ~>
    ((cons = "consuming" /\ using[Consumer] \in opened) \/ closed)

=============================================================================
