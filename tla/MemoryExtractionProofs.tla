----------------------- MODULE MemoryExtractionProofs -----------------------
(***************************************************************************)
(* Proofs about MemoryExtraction, for any number of turns, events,         *)
(* instances, retries, slots and failures.                                 *)
(*                                                                         *)
(* LossesAccounted is not inductive: a delivery is acknowledged as a       *)
(* duplicate on the strength of a claim, so the claims must be worth it.   *)
(* Standing says what a claim is worth (a run that finished, a dead        *)
(* letter, a handler still at work, or a claim known to be left over),     *)
(* Behind that a handler which gives its claim back has left a retry, and  *)
(* Carried that a handler which lost its channel before it claimed is      *)
(* nothing to rely on.                                                     *)
(***************************************************************************)
EXTENDS MemoryExtraction, FiniteSetTheorems, TLAPS

Resting(e) ==
  \/ e \in done \cup stranded
  \/ \E m \in Messages : m.id = e /\ queue["dlq"][m] > 0

\* A claim, in Redis or in a process, is not the last trace of its event.
Standing ==
  /\ \A e \in Events : claim[e] # NoOwner => Resting(e) \/ Working(claim[e], e)
  /\ \A i \in Instances : \A e \in seen[i] : Resting(e) \/ Working(i, e)

\* A handler about to give its claim back has a retry in the queue.
Behind ==
  \A i \in Instances : pc[i] = "release" =>
    queue["retry"][event[i]] > 0 \/ event[i].id \in stranded

\* Until the event is claimed the handler works on the delivery as it came.
Undecoded == \A i \in Instances : pc[i] = "claim" => event[i] = body[i]

InHand(i, e) ==
  event[i].id = e /\ (pc[i] \in WorkingSteps \/ (pc[i] = "claim" /\ held[i]))

Queued(e) == \E q \in QueueNames, m \in Messages : m.id = e /\ queue[q][m] > 0

Carried ==
  \A e \in Events : copies[e] > 0 =>
    Resting(e) \/ Queued(e) \/ \E i \in Instances : InHand(i, e)

LocalTurns(i) == {t \in Turns : home[t] = i /\ turn[t] = "local"}

\* Every attempt an event has used up was a run.
Spent ==
  /\ \A m \in Messages :
       queue["main"][m] > 0 \/ queue["retry"][m] > 0 => runs[m.id] >= m.attempt
  /\ \A i \in Instances :
       /\ held[i] => runs[body[i].id] >= body[i].attempt
       /\ pc[i] \in {"claim", "extract"} => runs[event[i].id] >= event[i].attempt
       /\ pc[i] = "failed" => runs[event[i].id] > event[i].attempt
       /\ pc[i] = "dlq" /\ faults = 0 =>
            event[i].attempt = MaxRetries /\ runs[event[i].id] > MaxRetries

----------------------------------------------------------------------------
(* The shape of the state, and the slots *)

LEMMA LocalFinite == \A i \in Instances : IsFiniteSet(LocalTurns(i))
<1> SUFFICES ASSUME NEW i \in Instances PROVE IsFiniteSet(LocalTurns(i))
  OBVIOUS
<1>1. LocalTurns(i) \subseteq Turns
  BY DEF LocalTurns
<1> QED BY <1>1, TurnsAssumption, FS_Subset

LEMMA InitType == Init => TypeOK
<1> SUFFICES ASSUME Init PROVE TypeOK
  OBVIOUS
<1> DEFINE first == [id |-> CHOOSE e \in Events : TRUE, attempt |-> 0]
<1>1. first \in Messages
  BY EventsAssumption, RetriesAssumption DEF Messages
<1>2. /\ body \in [Instances -> Messages]
      /\ event \in [Instances -> Messages]
  BY <1>1 DEF Init
<1>3. queue \in [QueueNames -> [Messages -> Nat]]
  BY DEF Init
<1> QED
  BY <1>2, <1>3, JobsAssumption DEF Init, TypeOK, TurnSteps, HandlerSteps

LEMMA InitSlots == Init => SlotsMatchJobs
<1> SUFFICES ASSUME Init, NEW i \in Instances
             PROVE  jobs[i] = Cardinality(LocalTurns(i)) /\ jobs[i] <= MaxJobs
  BY DEF SlotsMatchJobs, LocalTurns
<1>1. LocalTurns(i) = {} /\ jobs[i] = 0
  BY DEF Init, LocalTurns
<1> QED
  BY <1>1, FS_EmptySet, JobsAssumption

LEMMA PublishType ==
  ASSUME TypeOK, NEW q \in QueueNames, NEW m \in Messages, NEW ok \in BOOLEAN,
         Publish(q, m, ok)
  PROVE  queue' \in [QueueNames -> [Messages -> Nat]] /\ faults' \in Nat
BY DEF TypeOK, Publish, Enqueue, Fault, NoFault

LEMMA TakeBackType ==
  ASSUME TypeOK, NEW i \in Instances, TakeBack(i)
  PROVE  /\ queue' \in [QueueNames -> [Messages -> Nat]]
         /\ copies' \in [Events -> Nat]
         /\ held' \in [Instances -> BOOLEAN]
<1>1. body[i] \in Messages /\ "main" \in QueueNames
  BY DEF TypeOK, QueueNames
<1>2. Enqueue("main", body[i]) \in [QueueNames -> [Messages -> Nat]]
  BY <1>1 DEF TypeOK, Enqueue
<1>3. [copies EXCEPT ![body[i].id] = @ + 1] \in [Events -> Nat]
  BY <1>1 DEF TypeOK, Messages
<1> QED
  BY <1>2, <1>3 DEF TypeOK, TakeBack

\* LocalExtract releases a slot that was taken.
LEMMA SlotTaken ==
  ASSUME TypeOK, SlotsMatchJobs, NEW t \in Turns, turn[t] = "local"
  PROVE  jobs[home[t]] \in 1..MaxJobs
<1>1. home[t] \in Instances /\ t \in LocalTurns(home[t])
  BY DEF TypeOK, LocalTurns
<1>2. Cardinality(LocalTurns(home[t])) # 0
  BY <1>1, LocalFinite, FS_EmptySet
<1>3. jobs[home[t]] = Cardinality(LocalTurns(home[t])) /\ jobs[home[t]] <= MaxJobs
  BY <1>1 DEF SlotsMatchJobs, LocalTurns
<1> QED
  BY <1>1, <1>2, <1>3, JobsAssumption DEF TypeOK

LEMMA NextType ==
  ASSUME TypeOK, SlotsMatchJobs, [Next]_vars
  PROVE  TypeOK'
<1> USE DEF TypeOK, Goto, TurnGoto, TurnSteps, HandlerSteps, brokerVars, turnVars,
            NoFault, Fault
<1>1. ASSUME NEW t \in Turns, EnqueueEvent(t) PROVE TypeOK'
  <2>1. EventOf[t] \in Events /\ "main" \in QueueNames
        /\ [id |-> EventOf[t], attempt |-> 0] \in Messages
    BY EventOfAssumption, RetriesAssumption DEF QueueNames, Messages
  <2>2. queue' \in [QueueNames -> [Messages -> Nat]] /\ faults' \in Nat
    BY <1>1, <2>1, PublishType DEF EnqueueEvent
  <2>3. copies' \in [Events -> Nat] /\ turn' \in [Turns -> TurnSteps]
    BY <1>1, <2>1 DEF EnqueueEvent
  <2> QED BY <1>1, <2>2, <2>3 DEF EnqueueEvent
<1>2. ASSUME NEW t \in Turns, NotReady(t) \/ SlotTimeout(t) PROVE TypeOK'
  BY <1>2 DEF NotReady, SlotTimeout
<1>3. ASSUME NEW t \in Turns, AcquireSlot(t) PROVE TypeOK'
  BY <1>3, JobsAssumption DEF AcquireSlot, SlotFree
<1>4. ASSUME NEW t \in Turns, LocalExtract(t) PROVE TypeOK'
  <2>1. jobs[home[t]] \in 1..MaxJobs /\ EventOf[t] \in Events
    BY <1>4, SlotTaken, EventOfAssumption DEF LocalExtract
  <2> QED BY <1>4, <2>1, JobsAssumption DEF LocalExtract, JobsAfter
<1>5. ASSUME NEW i \in Instances, Deliver(i) PROVE TypeOK'
  <2>1. PICK m \in Messages :
          /\ queue["main"][m] > 0
          /\ queue' = [queue EXCEPT !["main"][m] = @ - 1]
          /\ body' = [body EXCEPT ![i] = m]
          /\ event' = [event EXCEPT ![i] = m]
    BY <1>5 DEF Deliver
  <2>2. queue' \in [QueueNames -> [Messages -> Nat]]
    BY <2>1 DEF QueueNames
  <2> QED BY <1>5, <2>1, <2>2 DEF Deliver
<1>6. ASSUME NEW i \in Instances, Claim(i) PROVE TypeOK'
  <2>1. event[i].id \in Events
    BY DEF Messages
  <2>2. claim' \in [Events -> Instances \cup {NoOwner}] /\ faults' \in Nat
    BY <1>6, <2>1 DEF Claim
  <2>3. /\ \/ seen' = seen
           \/ seen' = [seen EXCEPT ![i] = @ \cup {event[i].id}]
        /\ \/ pc' = [pc EXCEPT ![i] = "extract"]
           \/ pc' = [pc EXCEPT ![i] = "ack"]
    BY <1>6 DEF Claim
  <2>4. seen' \in [Instances -> SUBSET Events]
    BY <2>1, <2>3
  <2>5. pc' \in [Instances -> HandlerSteps]
    BY <2>3
  <2> QED BY <1>6, <2>2, <2>4, <2>5 DEF Claim
<1>7. ASSUME NEW i \in Instances, Extract(i) PROVE TypeOK'
  <2>1. event[i].id \in Events
    BY DEF Messages
  <2> QED BY <1>7, <2>1 DEF Extract
<1>8. ASSUME NEW i \in Instances, PublishRetry(i) PROVE TypeOK'
  <2>1. NextAttempt(i) \in Messages /\ "retry" \in QueueNames
    BY <1>8, RetriesAssumption
       DEF PublishRetry, RetriesLeft, NextAttempt, Messages, QueueNames
  <2>2. queue' \in [QueueNames -> [Messages -> Nat]] /\ faults' \in Nat
    BY <1>8, <2>1, PublishType DEF PublishRetry
  <2>3. event' \in [Instances -> Messages] /\ pc' \in [Instances -> HandlerSteps]
    BY <1>8, <2>1 DEF PublishRetry
  <2> QED BY <1>8, <2>2, <2>3 DEF PublishRetry
<1>9. ASSUME NEW i \in Instances, GiveUp(i) \/ Ack(i) PROVE TypeOK'
  BY <1>9 DEF GiveUp, Ack
<1>10. ASSUME NEW i \in Instances, PublishDLQ(i) PROVE TypeOK'
  <2>1. event[i] \in Messages /\ "dlq" \in QueueNames
    BY DEF QueueNames
  <2>2. queue' \in [QueueNames -> [Messages -> Nat]] /\ faults' \in Nat
    BY <1>10, <2>1, PublishType DEF PublishDLQ
  <2> QED BY <1>10, <2>2 DEF PublishDLQ
<1>11. ASSUME NEW i \in Instances, Release(i) PROVE TypeOK'
  <2>1. event[i].id \in Events
    BY DEF Messages
  <2> QED BY <1>11, <2>1 DEF Release
<1>12. ASSUME NEW i \in Instances, NackRequeue(i) PROVE TypeOK'
  <2>1. event[i].id \in Events
    BY DEF Messages
  <2> QED BY <1>12, <2>1, TakeBackType DEF NackRequeue
<1>13. ASSUME NEW m \in Messages, RetryExpire(m) PROVE TypeOK'
  <2>1. queue' \in [QueueNames -> [Messages -> Nat]]
    BY <1>13 DEF RetryExpire, QueueNames
  <2>2. stranded' \subseteq Events
    BY <1>13 DEF RetryExpire, Messages
  <2> QED BY <1>13, <2>1, <2>2 DEF RetryExpire
<1>14. ASSUME NEW e \in Events, ExpireClaim(e) PROVE TypeOK'
  <2>1. claim[e] \in Instances
    BY <1>14 DEF ExpireClaim
  <2> QED BY <1>14, <2>1 DEF ExpireClaim
<1>15. ASSUME NEW i \in Instances, DropConnection(i) PROVE TypeOK'
  BY <1>15, TakeBackType DEF DropConnection
<1>16. ASSUME NEW i \in Instances, Crash(i) PROVE TypeOK'
  <2>1. event[i].id \in Events
    BY DEF Messages
  <2>2. stranded' \subseteq Events /\ turn' \in [Turns -> TurnSteps]
    BY <1>16, <2>1 DEF Crash
  <2> QED BY <1>16, <2>2, TakeBackType, JobsAssumption DEF Crash
<1>17. CASE UNCHANGED vars
  BY <1>17 DEF vars
<1> QED
  BY <1>1, <1>2, <1>3, <1>4, <1>5, <1>6, <1>7, <1>8, <1>9, <1>10, <1>11, <1>12,
     <1>13, <1>14, <1>15, <1>16, <1>17 DEF Next, Persisting, Handler

LEMMA NextSlots ==
  ASSUME TypeOK, SlotsMatchJobs, [Next]_vars
  PROVE  SlotsMatchJobs'
<1> DEFINE Match == \A i \in Instances :
             /\ jobs'[i] = Cardinality(LocalTurns(i)')
             /\ jobs'[i] <= MaxJobs
<1>0. SUFFICES Match
  BY DEF SlotsMatchJobs, LocalTurns
<1>a. \A i \in Instances : /\ jobs[i] = Cardinality(LocalTurns(i))
                           /\ jobs[i] <= MaxJobs
                           /\ jobs[i] \in Nat
  BY JobsAssumption DEF SlotsMatchJobs, LocalTurns, TypeOK
<1> USE DEF TurnGoto
<1>1. ASSUME NEW t \in Turns, EnqueueEvent(t) \/ NotReady(t) \/ SlotTimeout(t)
      PROVE  Match
  <2>1. \A i \in Instances : LocalTurns(i)' = LocalTurns(i)
    <3>1. home' = home /\ turn[t] # "local"
      BY <1>1 DEF EnqueueEvent, NotReady, SlotTimeout
    <3>2. \E step \in TurnSteps \ {"local"} : turn' = [turn EXCEPT ![t] = step]
      BY <1>1 DEF EnqueueEvent, NotReady, SlotTimeout, TurnSteps
    <3> QED BY <3>1, <3>2 DEF LocalTurns, TypeOK
  <2>2. jobs' = jobs
    BY <1>1 DEF EnqueueEvent, NotReady, SlotTimeout
  <2> QED BY <1>a, <2>1, <2>2
<1>2. ASSUME NEW t \in Turns, NEW h \in Instances, h = home[t], AcquireSlot(t)
      PROVE  Match
  <2>1. \A i \in Instances : i # h =>
          LocalTurns(i)' = LocalTurns(i) /\ jobs'[i] = jobs[i]
    BY <1>2 DEF AcquireSlot, LocalTurns, TypeOK
  <2>2. LocalTurns(h)' = LocalTurns(h) \cup {t} /\ t \notin LocalTurns(h)
    BY <1>2 DEF AcquireSlot, LocalTurns, TypeOK
  <2>3. Cardinality(LocalTurns(h)') = Cardinality(LocalTurns(h)) + 1
    BY <2>2, LocalFinite, FS_AddElement
  <2>4. jobs'[h] = jobs[h] + 1 /\ jobs[h] < MaxJobs
    BY <1>2 DEF AcquireSlot, SlotFree, TypeOK
  <2> QED BY <1>a, <2>1, <2>3, <2>4, JobsAssumption
<1>3. ASSUME NEW t \in Turns, NEW h \in Instances, h = home[t], LocalExtract(t)
      PROVE  Match
  <2>1. \A i \in Instances : i # h =>
          LocalTurns(i)' = LocalTurns(i) /\ jobs'[i] = jobs[i]
    BY <1>3 DEF LocalExtract, JobsAfter, LocalTurns, TypeOK
  <2>2. LocalTurns(h)' = LocalTurns(h) \ {t} /\ t \in LocalTurns(h)
    BY <1>3 DEF LocalExtract, LocalTurns, TypeOK
  <2>3. Cardinality(LocalTurns(h)') = Cardinality(LocalTurns(h)) - 1
    BY <2>2, LocalFinite, FS_RemoveElement
  <2>4. jobs'[h] = jobs[h] - 1
    BY <1>3 DEF LocalExtract, JobsAfter, TypeOK
  <2> QED BY <1>a, <2>1, <2>3, <2>4, JobsAssumption
<1>4. ASSUME NEW j \in Instances, Crash(j) PROVE Match
  <2>1. \A i \in Instances : i # j =>
          LocalTurns(i)' = LocalTurns(i) /\ jobs'[i] = jobs[i]
    BY <1>4 DEF Crash, LocalTurns, TypeOK
  <2>2. LocalTurns(j)' = {} /\ jobs'[j] = 0
    BY <1>4 DEF Crash, LocalTurns, TypeOK
  <2> QED BY <1>a, <2>1, <2>2, FS_EmptySet, JobsAssumption
<1>5. ASSUME UNCHANGED <<turn, home, jobs>> PROVE Match
  BY <1>a, <1>5 DEF LocalTurns
<1>6. ASSUME NEW i \in Instances, Handler(i) \/ DropConnection(i)
      PROVE  UNCHANGED <<turn, home, jobs>>
  BY <1>6 DEF Handler, turnVars, Deliver, Claim, Extract, PublishRetry, GiveUp,
              PublishDLQ, Release, Ack, NackRequeue, DropConnection
<1>7. ASSUME NEW m \in Messages, RetryExpire(m) PROVE UNCHANGED <<turn, home, jobs>>
  BY <1>7 DEF RetryExpire, turnVars
<1>8. ASSUME NEW e \in Events, ExpireClaim(e) PROVE UNCHANGED <<turn, home, jobs>>
  BY <1>8 DEF ExpireClaim, turnVars
<1>9. UNCHANGED vars => UNCHANGED <<turn, home, jobs>>
  BY DEF vars
<1>10. \A t \in Turns : home[t] \in Instances
  BY DEF TypeOK
<1> QED
  BY <1>1, <1>2, <1>3, <1>4, <1>5, <1>6, <1>7, <1>8, <1>9, <1>10
     DEF Next, Persisting

\* Slots do not leak, whatever dies or times out, and the shape of the state.
THEOREM SlotsAreReturned == Spec => [](TypeOK /\ SlotsMatchJobs)
<1>1. Init => TypeOK /\ SlotsMatchJobs
  BY InitType, InitSlots
<1>2. TypeOK /\ SlotsMatchJobs /\ [Next]_vars => (TypeOK /\ SlotsMatchJobs)'
  BY NextType, NextSlots
<1> QED BY <1>1, <1>2, PTL DEF Spec

----------------------------------------------------------------------------
(* No extraction is lost without a cause *)

\* No queue loses a message, and a message is put into queue q.
LEMMA EnqueueGrows ==
  ASSUME TypeOK, NEW q \in QueueNames, NEW m \in Messages, queue' = Enqueue(q, m)
  PROVE  /\ queue'[q][m] > 0
         /\ \A p \in QueueNames, n \in Messages : queue[p][n] > 0 => queue'[p][n] > 0
BY DEF TypeOK, Enqueue

LEMMA PublishGrows ==
  ASSUME TypeOK, NEW q \in QueueNames, NEW m \in Messages, NEW ok \in BOOLEAN,
         Publish(q, m, ok)
  PROVE  /\ ok => queue'[q][m] > 0
         /\ queue' # queue => queue'[q][m] > 0
         /\ \A p \in QueueNames, n \in Messages : queue[p][n] > 0 => queue'[p][n] > 0
<1>1. queue' = queue \/ queue' = Enqueue(q, m)
  BY DEF Publish
<1>2. ok => queue' = Enqueue(q, m)
  BY DEF Publish
<1> QED BY <1>1, <1>2, EnqueueGrows

LEMMA TakeBackGrows ==
  ASSUME TypeOK, NEW i \in Instances, TakeBack(i)
  PROVE  /\ held[i] => queue'["main"][body[i]] > 0
         /\ \A p \in QueueNames, n \in Messages : queue[p][n] > 0 => queue'[p][n] > 0
         /\ \A e \in Events : copies'[e] > 0 => copies[e] > 0 \/ Queued(e)'
<1>1. body[i] \in Messages /\ "main" \in QueueNames
  BY DEF TypeOK, QueueNames
<1>2. CASE held[i]
  <2>1. queue' = Enqueue("main", body[i])
    BY <1>2 DEF TakeBack
  <2>2. \A e \in Events : e # body[i].id => copies'[e] = copies[e]
    BY <1>1, <1>2 DEF TakeBack, TypeOK
  <2>3. \A e \in Events : e = body[i].id => Queued(e)'
    <3>1. queue'["main"][body[i]] > 0
      BY <1>1, <2>1, EnqueueGrows
    <3> QED BY <1>1, <3>1 DEF Queued
  <2> QED BY <1>1, <2>1, <2>2, <2>3, EnqueueGrows
<1>3. CASE ~held[i]
  BY <1>3 DEF TakeBack
<1> QED BY <1>2, <1>3

Accounts == Undecoded /\ Standing /\ Behind /\ Carried

LEMMA InitAccounts == Init => Accounts
BY DEF Init, Accounts, Undecoded, Standing, Behind, Carried

\* What rests stays at rest.
LEMMA RestingStays ==
  ASSUME done \subseteq done', stranded \subseteq stranded',
         \A n \in Messages : queue["dlq"][n] > 0 => queue'["dlq"][n] > 0
  PROVE  \A e \in Events : Resting(e) => Resting(e)'
BY DEF Resting

\* A step that takes nothing from a queue, leaves the handlers, the claims
\* and the local sets alone or takes some of these away, loses nothing.
LEMMA HarmlessStep ==
  ASSUME TypeOK, Accounts,
         done \subseteq done', stranded \subseteq stranded',
         \A p \in QueueNames, n \in Messages : queue[p][n] > 0 => queue'[p][n] > 0,
         \A e \in Events : copies'[e] > 0 => copies[e] > 0 \/ Queued(e)',
         \A e \in Events : claim'[e] # NoOwner => claim'[e] = claim[e],
         \A i \in Instances : seen'[i] \subseteq seen[i],
         UNCHANGED <<pc, event, body, held>>
  PROVE  Accounts'
<1>1. \A e \in Events : (Resting(e) => Resting(e)') /\ (Queued(e) => Queued(e)')
  BY RestingStays DEF Queued, QueueNames
<1>2. \A i \in Instances, e \in Events :
        (Working(i, e) => Working(i, e)') /\ (InHand(i, e) => InHand(i, e)')
  BY DEF Working, InHand
<1>3. Undecoded'
  BY DEF Accounts, Undecoded
<1>4. Standing'
  BY <1>1, <1>2 DEF Accounts, Standing, Working, TypeOK
<1>5. Behind'
  BY DEF Accounts, Behind, TypeOK, QueueNames
<1>6. Carried'
  BY <1>1, <1>2 DEF Accounts, Carried
<1> QED BY <1>3, <1>4, <1>5, <1>6 DEF Accounts

\* A step that moves handler i only: nobody else's delivery, claim or local
\* set changes, unless claims are given back.
LEMMA HandlerStep ==
  ASSUME TypeOK, TypeOK', Accounts, NEW i \in Instances,
         done \subseteq done', stranded \subseteq stranded',
         \A n \in Messages : queue["dlq"][n] > 0 => queue'["dlq"][n] > 0,
         \A n \in Messages : queue["retry"][n] > 0 => queue'["retry"][n] > 0,
         \A j \in Instances : j # i =>
           UNCHANGED <<pc[j], event[j], body[j], held[j], seen[j]>>,
         \A e \in Events : claim'[e] # NoOwner =>
           \/ claim'[e] = claim[e]
           \/ claim'[e] = i /\ (Working(i, e) \/ Resting(e))',
         \A e \in seen'[i] : e \in seen[i] \/ (Working(i, e) \/ Resting(e))',
         \* what handler i worked on, it works on, or lets go of for good
         \A e \in Events : Working(i, e) =>
           \/ Working(i, e)' \/ Resting(e)'
           \/ claim'[e] = NoOwner /\ e \notin seen'[i],
         pc'[i] = "claim" => event'[i] = body'[i],
         pc'[i] = "release" =>
           queue'["retry"][event'[i]] > 0 \/ event'[i].id \in stranded',
         \A e \in Events : copies'[e] > 0 =>
           \/ (Resting(e) \/ Queued(e) \/ InHand(i, e))'
           \/ \E j \in Instances : j # i /\ InHand(j, e)
  PROVE  Accounts'
<1>1. \A e \in Events : Resting(e) => Resting(e)'
  BY RestingStays
<1>2. \A j \in Instances, e \in Events : j # i =>
        (Working(j, e) => Working(j, e)') /\ (InHand(j, e) => InHand(j, e)')
  BY DEF Working, InHand
<1>3. Undecoded'
  BY DEF Accounts, Undecoded
<1>4. \A e \in Events : claim'[e] # NoOwner => (Resting(e) \/ Working(claim[e], e))'
  <2> SUFFICES ASSUME NEW e \in Events, claim'[e] # NoOwner
               PROVE  (Resting(e) \/ Working(claim[e], e))'
    OBVIOUS
  <2>1. CASE claim'[e] = i /\ (Working(i, e) \/ Resting(e))'
    BY <2>1 DEF Working
  <2>2. CASE claim'[e] = claim[e]
    <3>1. Resting(e) \/ Working(claim[e], e)
      BY <2>2 DEF Accounts, Standing
    <3>2. claim[e] \in Instances
      BY <2>2 DEF TypeOK
    <3>3. CASE claim[e] = i
      BY <1>1, <2>2, <3>1, <3>3 DEF Working
    <3>4. CASE claim[e] # i
      BY <1>1, <1>2, <2>2, <3>1, <3>2, <3>4 DEF Working
    <3> QED BY <3>3, <3>4
  <2> QED BY <2>1, <2>2
<1>5. \A j \in Instances : \A e \in seen'[j] : (Resting(e) \/ Working(j, e))'
  <2> SUFFICES ASSUME NEW j \in Instances, NEW e \in seen'[j]
               PROVE  Resting(e)' \/ Working(j, e)'
    OBVIOUS
  <2>0. e \in Events
    BY DEF TypeOK
  <2>1. e \in seen[j] => Resting(e) \/ Working(j, e)
    BY DEF Accounts, Standing
  <2>2. CASE j # i
    BY <1>1, <1>2, <2>0, <2>1, <2>2
  <2>3. CASE j = i
    BY <1>1, <2>0, <2>1, <2>3
  <2> QED BY <2>2, <2>3
<1>6. Standing'
  BY <1>4, <1>5 DEF Standing
<1>7. Behind'
  BY DEF Accounts, Behind, TypeOK
<1>8. Carried'
  BY <1>2 DEF Carried
<1> QED BY <1>3, <1>6, <1>7, <1>8 DEF Accounts

\* A delivery is a duplicate only where its event is safe without it.
LEMMA ClaimAccounts ==
  ASSUME TypeOK, TypeOK', Accounts, NEW i \in Instances, Claim(i)
  PROVE  Accounts'
<1>a. PICK e \in Events : e = event[i].id
  BY DEF TypeOK, Messages
<1>0. ~(\E d \in Events : Working(i, d)) /\ event[i] = body[i]
  BY DEF Claim, Working, WorkingSteps, Accounts, Undecoded
<1>1. /\ UNCHANGED <<queue, body, event, held, copies, done, stranded>>
      /\ \A j \in Instances : j # i => pc'[j] = pc[j] /\ seen'[j] = seen[j]
      /\ \A d \in Events : claim'[d] # NoOwner =>
           claim'[d] = claim[d] \/ (claim'[d] = i /\ d = e)
  BY <1>a, <1>0 DEF Claim, Goto, TypeOK
<1>2. \A d \in Events : Resting(d) => Resting(d)'
  BY <1>1 DEF Resting
<1>3. CASE pc'[i] = "extract"
  <2>1. Working(i, e)' /\ InHand(i, e)'
    BY <1>a, <1>1, <1>3 DEF Working, InHand, WorkingSteps
  <2>2. \A d \in seen'[i] : d \in seen[i] \/ d = e
    BY <1>a, <1>0 DEF Claim, TypeOK
  <2>3. \A d \in Events : copies'[d] > 0 =>
           \/ (Resting(d) \/ Queued(d) \/ InHand(i, d))'
           \/ \E j \in Instances : j # i /\ InHand(j, d)
    <3> SUFFICES ASSUME NEW d \in Events, copies[d] > 0
                 PROVE  \/ (Resting(d) \/ Queued(d) \/ InHand(i, d))'
                        \/ \E j \in Instances : j # i /\ InHand(j, d)
      BY <1>1
    <3>1. Resting(d) \/ Queued(d) \/ \E j \in Instances : InHand(j, d)
      BY DEF Accounts, Carried
    <3>2. Queued(d) => Queued(d)'
      BY <1>1 DEF Queued
    <3>3. InHand(i, d) => InHand(i, d)'
      BY <1>1, <1>3 DEF InHand, WorkingSteps
    <3> QED BY <1>2, <3>1, <3>2, <3>3
  <2> QED BY <1>a, <1>0, <1>1, <1>3, <2>1, <2>2, <2>3, HandlerStep
<1>4. CASE pc'[i] = "ack"
  <2>1. seen'[i] = seen[i]
    BY <1>4 DEF Claim, Goto, TypeOK
  <2>2. Resting(e) \/ \E j \in Instances : j # i /\ Working(j, e)
    <3>1. CASE e \in seen[i]
      BY <1>a, <1>0, <3>1 DEF Accounts, Standing
    <3>2. CASE claim[e] # NoOwner
      <4>1. claim[e] \in Instances
        BY <1>a, <1>0, <3>2 DEF TypeOK
      <4>2. Resting(e) \/ Working(claim[e], e)
        BY <1>a, <1>0, <3>2 DEF Accounts, Standing
      <4> QED BY <1>a, <1>0, <4>1, <4>2
    <3> QED BY <1>a, <1>4, <3>1, <3>2 DEF Claim, Goto, TypeOK
  <2>3. claim'[e] = i /\ claim[e] # i => Resting(e)
    <3>1. e \in seen[i] => Resting(e)
      BY <1>a, <1>0 DEF Accounts, Standing
    <3>2. claim'[e] = i /\ claim[e] # i => e \in seen[i]
      <4>1. CASE claim[e] = NoOwner
        BY <1>a, <1>4, <4>1 DEF Claim, Goto, TypeOK
      <4>2. CASE claim[e] # NoOwner
        BY <1>a, <4>2 DEF Claim
      <4> QED BY <4>1, <4>2
    <3> QED BY <3>1, <3>2
  <2>4. \A d \in Events : copies'[d] > 0 =>
           \/ (Resting(d) \/ Queued(d) \/ InHand(i, d))'
           \/ \E j \in Instances : j # i /\ InHand(j, d)
    <3> SUFFICES ASSUME NEW d \in Events, copies[d] > 0
                 PROVE  \/ (Resting(d) \/ Queued(d) \/ InHand(i, d))'
                        \/ \E j \in Instances : j # i /\ InHand(j, d)
      BY <1>1
    <3>1. Resting(d) \/ Queued(d) \/ \E j \in Instances : InHand(j, d)
      BY DEF Accounts, Carried
    <3>2. Queued(d) => Queued(d)'
      BY <1>1 DEF Queued
    <3>3. InHand(i, d) => d = e
      BY <1>a DEF InHand
    <3>4. \A j \in Instances : Working(j, e) => InHand(j, e)
      BY DEF Working, InHand
    <3> QED BY <1>2, <2>2, <3>1, <3>2, <3>3, <3>4
  <2> QED BY <1>a, <1>0, <1>1, <1>2, <1>4, <2>1, <2>3, <2>4, HandlerStep
<1>5. pc'[i] \in {"extract", "ack"}
  BY DEF Claim, Goto, TypeOK
<1> QED BY <1>3, <1>4, <1>5

LEMMA DeliverAccounts ==
  ASSUME TypeOK, TypeOK', Accounts, NEW i \in Instances, Deliver(i)
  PROVE  Accounts'
<1>1. PICK m \in Messages :
        /\ queue["main"][m] > 0
        /\ queue' = [queue EXCEPT !["main"][m] = @ - 1]
        /\ body' = [body EXCEPT ![i] = m]
        /\ event' = [event EXCEPT ![i] = m]
  BY DEF Deliver
<1>2. /\ pc'[i] = "claim" /\ held'[i] /\ event'[i] = m /\ body'[i] = m
      /\ \A j \in Instances : j # i =>
           UNCHANGED <<pc[j], event[j], body[j], held[j], seen[j]>>
      /\ UNCHANGED <<claim, seen, copies, done, stranded>>
  BY <1>1 DEF Deliver, Goto, TypeOK
<1>3. \A p \in QueueNames, n \in Messages :
        queue[p][n] > 0 => queue'[p][n] > 0 \/ (p = "main" /\ n = m)
  BY <1>1 DEF TypeOK
<1>4. \A e \in Events : ~Working(i, e) /\ ~InHand(i, e)
  BY DEF Deliver, Working, InHand, WorkingSteps
<1>5. \A e \in Events : Resting(e) => Resting(e)'
  BY <1>2, <1>3, RestingStays DEF QueueNames
<1>6. \A e \in Events : copies'[e] > 0 =>
        \/ (Resting(e) \/ Queued(e) \/ InHand(i, e))'
        \/ \E j \in Instances : j # i /\ InHand(j, e)
  <2> SUFFICES ASSUME NEW e \in Events, copies[e] > 0
               PROVE  \/ (Resting(e) \/ Queued(e) \/ InHand(i, e))'
                      \/ \E j \in Instances : j # i /\ InHand(j, e)
    BY <1>2
  <2>1. Resting(e) \/ Queued(e) \/ \E j \in Instances : InHand(j, e)
    BY DEF Accounts, Carried
  <2>2. Queued(e) => (Queued(e) \/ InHand(i, e))'
    BY <1>2, <1>3 DEF Queued, InHand
  <2> QED BY <1>4, <1>5, <2>1, <2>2
<1> QED BY <1>2, <1>3, <1>4, <1>6, HandlerStep DEF QueueNames

\* A handler that only moves on, keeping its event and its claim.
LEMMA MoveAccounts ==
  ASSUME TypeOK, TypeOK', Accounts, NEW i \in Instances,
         Extract(i) \/ PublishRetry(i) \/ GiveUp(i) \/ PublishDLQ(i)
  PROVE  Accounts'
<1>1. /\ pc[i] \in {"extract", "failed", "dlq"}
      /\ \A j \in Instances : j # i =>
           UNCHANGED <<pc[j], event[j], body[j], held[j], seen[j]>>
      /\ UNCHANGED <<claim, seen, copies, stranded>>
      /\ event'[i].id = event[i].id
  BY DEF Extract, PublishRetry, GiveUp, PublishDLQ, Goto, NextAttempt, TypeOK,
         Messages
<1>2. \A p \in QueueNames, n \in Messages : queue[p][n] > 0 => queue'[p][n] > 0
  <2>1. CASE PublishRetry(i)
    <3>1. NextAttempt(i) \in Messages
      BY <2>1, RetriesAssumption
         DEF PublishRetry, RetriesLeft, NextAttempt, TypeOK, Messages
    <3> QED BY <2>1, <3>1, PublishGrows DEF PublishRetry, QueueNames
  <2>2. CASE PublishDLQ(i)
    <3>1. event[i] \in Messages
      BY DEF TypeOK
    <3> QED BY <2>2, <3>1, PublishGrows DEF PublishDLQ, QueueNames
  <2>3. CASE Extract(i) \/ GiveUp(i)
    BY <2>3 DEF Extract, GiveUp
  <2> QED BY <2>1, <2>2, <2>3
<1>3. done \subseteq done'
  BY DEF Extract, PublishRetry, GiveUp, PublishDLQ
<1>4. \A e \in Events : Resting(e) => Resting(e)'
  BY <1>1, <1>2, <1>3, RestingStays DEF QueueNames
<1>5. pc'[i] \in WorkingSteps \/ Resting(event[i].id)'
  <2>1. CASE Extract(i)
    BY <2>1 DEF Extract, Goto, WorkingSteps, TypeOK, Resting
  <2>2. CASE PublishRetry(i) \/ GiveUp(i)
    BY <2>2 DEF PublishRetry, GiveUp, Goto, WorkingSteps, TypeOK
  <2>3. CASE PublishDLQ(i)
    <3>1. event[i] \in Messages /\ "dlq" \in QueueNames /\ event' = event
      BY <2>3 DEF TypeOK, QueueNames, PublishDLQ
    <3>2. pc'[i] = "nack" \/ queue'["dlq"][event[i]] > 0
      BY <2>3, <3>1, PublishGrows DEF PublishDLQ, Goto, TypeOK
    <3> QED BY <3>1, <3>2 DEF WorkingSteps, Resting
  <2> QED BY <2>1, <2>2, <2>3
<1>6. \A e \in Events : e = event[i].id => Working(i, e)' \/ Resting(e)'
  BY <1>1, <1>5 DEF Working, Resting
<1>7. pc'[i] # "claim"
  BY DEF Extract, PublishRetry, GiveUp, PublishDLQ, Goto, TypeOK
<1>8. pc'[i] = "release" => queue'["retry"][event'[i]] > 0
  <2> SUFFICES ASSUME pc'[i] = "release" PROVE queue'["retry"][event'[i]] > 0
    OBVIOUS
  <2>1. PublishRetry(i)
    BY DEF Extract, GiveUp, PublishDLQ, Goto, TypeOK
  <2>2. NextAttempt(i) \in Messages /\ "retry" \in QueueNames
    BY <2>1, RetriesAssumption
       DEF PublishRetry, RetriesLeft, NextAttempt, TypeOK, Messages, QueueNames
  <2>3. event'[i] = NextAttempt(i)
    BY <2>1 DEF PublishRetry, TypeOK
  <2> QED BY <2>1, <2>2, <2>3, PublishGrows DEF PublishRetry, Goto, TypeOK
<1>9. \A e \in Events : copies'[e] > 0 =>
        \/ (Resting(e) \/ Queued(e) \/ InHand(i, e))'
        \/ \E j \in Instances : j # i /\ InHand(j, e)
  <2> SUFFICES ASSUME NEW e \in Events, copies[e] > 0
               PROVE  \/ (Resting(e) \/ Queued(e) \/ InHand(i, e))'
                      \/ \E j \in Instances : j # i /\ InHand(j, e)
    BY <1>1
  <2>1. Resting(e) \/ Queued(e) \/ \E j \in Instances : InHand(j, e)
    BY DEF Accounts, Carried
  <2>2. Queued(e) => Queued(e)'
    BY <1>2 DEF Queued
  <2>3. InHand(i, e) => (InHand(i, e) \/ Resting(e))'
    BY <1>6 DEF InHand, Working
  <2> QED BY <1>4, <2>1, <2>2, <2>3
<1>10. \A e \in Events : Working(i, e) => Working(i, e)' \/ Resting(e)'
  BY <1>6 DEF Working
<1> QED BY <1>1, <1>2, <1>3, <1>7, <1>8, <1>9, <1>10, HandlerStep DEF QueueNames

LEMMA ReleaseAccounts ==
  ASSUME TypeOK, TypeOK', Accounts, NEW i \in Instances, Release(i) \/ Ack(i)
  PROVE  Accounts'
<1>1. /\ pc'[i] \in {"ack", "idle"}
      /\ \A j \in Instances : j # i =>
           UNCHANGED <<pc[j], event[j], body[j], held[j], seen[j]>>
      /\ UNCHANGED <<queue, event, copies, done>> /\ stranded \subseteq stranded'
      /\ \A e \in Events : claim'[e] # NoOwner => claim'[e] = claim[e]
      /\ seen'[i] \subseteq seen[i]
  BY DEF Release, Ack, Goto, TypeOK, Messages
<1>2. \A e \in Events : Resting(e) => Resting(e)'
  BY <1>1, RestingStays
<1>3. \A e \in Events : Working(i, e) =>
        Resting(e)' \/ (claim'[e] = NoOwner /\ e \notin seen'[i])
  <2>1. CASE Release(i)
    BY <2>1 DEF Release, Working, Resting, TypeOK
  <2>2. CASE Ack(i)
    BY <2>2 DEF Ack, Working, WorkingSteps
  <2> QED BY <2>1, <2>2
<1>4. \A e \in Events : InHand(i, e) => Resting(e)' \/ Queued(e)'
  <2> SUFFICES ASSUME NEW e \in Events, InHand(i, e)
               PROVE  Resting(e)' \/ Queued(e)'
    OBVIOUS
  <2>1. pc[i] = "release" /\ event[i].id = e
    BY DEF InHand, WorkingSteps, Release, Ack
  <2>2. queue["retry"][event[i]] > 0 \/ e \in stranded
    BY <2>1 DEF Accounts, Behind
  <2> QED BY <1>1, <2>1, <2>2 DEF Queued, QueueNames, Resting, TypeOK
<1>5. \A e \in Events : copies'[e] > 0 =>
        \/ (Resting(e) \/ Queued(e) \/ InHand(i, e))'
        \/ \E j \in Instances : j # i /\ InHand(j, e)
  <2>1. \A e \in Events : Queued(e) => Queued(e)'
    BY <1>1 DEF Queued
  <2> QED BY <1>1, <1>2, <1>4, <2>1 DEF Accounts, Carried
<1> QED BY <1>1, <1>3, <1>5, HandlerStep

LEMMA TakenBackAccounts ==
  ASSUME TypeOK, TypeOK', Accounts, NEW i \in Instances,
         NackRequeue(i) \/ Crash(i) \/ DropConnection(i)
  PROVE  Accounts'
<1>1. /\ \A j \in Instances : j # i =>
           UNCHANGED <<pc[j], event[j], body[j], held[j], seen[j]>>
      /\ UNCHANGED <<event, body, claim, done>> /\ stranded \subseteq stranded'
      /\ seen'[i] \subseteq seen[i]
      /\ TakeBack(i) /\ ~held'[i]
  BY DEF NackRequeue, Crash, DropConnection, Goto, TakeBack, TypeOK, turnVars
<1>2. \A p \in QueueNames, n \in Messages : queue[p][n] > 0 => queue'[p][n] > 0
  BY <1>1, TakeBackGrows
<1>3. \A e \in Events : (Resting(e) => Resting(e)') /\ (Queued(e) => Queued(e)')
  BY <1>1, <1>2, RestingStays DEF QueueNames, Queued
<1>4. pc'[i] = pc[i] \/ pc'[i] = "idle"
  BY DEF NackRequeue, Crash, DropConnection, Goto, TypeOK
<1>5. \A e \in Events : Working(i, e) => Working(i, e)' \/ Resting(e)'
  <2>1. CASE NackRequeue(i) \/ Crash(i)
    BY <2>1 DEF NackRequeue, Crash, Working, Resting
  <2>2. CASE DropConnection(i)
    BY <2>2 DEF DropConnection, Working
  <2> QED BY <2>1, <2>2
<1>6. pc'[i] = "claim" => event'[i] = body'[i]
  BY <1>1, <1>4 DEF Accounts, Undecoded
<1>7. pc'[i] = "release" =>
        queue'["retry"][event'[i]] > 0 \/ event'[i].id \in stranded'
  BY <1>1, <1>2, <1>4 DEF Accounts, Behind, QueueNames, TypeOK
<1>8. \A e \in Events : InHand(i, e) =>
        (Resting(e) \/ Queued(e) \/ InHand(i, e))'
  <2> SUFFICES ASSUME NEW e \in Events, InHand(i, e)
               PROVE  (Resting(e) \/ Queued(e) \/ InHand(i, e))'
    OBVIOUS
  <2>1. CASE pc[i] \in WorkingSteps
    BY <1>1, <1>5, <2>1 DEF InHand, Working
  <2>2. CASE pc[i] = "claim" /\ held[i]
    <3>1. body[i] = event[i] /\ body[i] \in Messages
      BY <2>2 DEF Accounts, Undecoded, TypeOK
    <3>2. queue'["main"][body[i]] > 0
      BY <1>1, <2>2, TakeBackGrows
    <3> QED BY <3>1, <3>2 DEF InHand, Queued, QueueNames
  <2> QED BY <2>1, <2>2 DEF InHand
<1>9. \A e \in Events : copies'[e] > 0 =>
        \/ (Resting(e) \/ Queued(e) \/ InHand(i, e))'
        \/ \E j \in Instances : j # i /\ InHand(j, e)
  BY <1>1, <1>3, <1>8, TakeBackGrows DEF Accounts, Carried
<1> QED BY <1>1, <1>2, <1>5, <1>6, <1>7, <1>9, HandlerStep DEF QueueNames

LEMMA RetryExpireAccounts ==
  ASSUME TypeOK, TypeOK', Accounts, NEW m \in Messages, RetryExpire(m)
  PROVE  Accounts'
<1>1. /\ UNCHANGED <<pc, body, event, held, claim, seen, copies, done>>
      /\ stranded \subseteq stranded'
      /\ queue'["main"][m] > 0
      /\ \A p \in QueueNames, n \in Messages :
           queue[p][n] > 0 => queue'[p][n] > 0 \/ (p = "retry" /\ n = m)
  BY DEF RetryExpire, TypeOK, QueueNames
<1>2. \A e \in Events : (Resting(e) => Resting(e)') /\ (Queued(e) => Queued(e)')
  <2>1. \A e \in Events : Queued(e) => Queued(e)'
    BY <1>1 DEF Queued, QueueNames
  <2> QED BY <1>1, <2>1, RestingStays DEF QueueNames
<1>3. \A i \in Instances, e \in Events :
        (Working(i, e) => Working(i, e)') /\ (InHand(i, e) => InHand(i, e)')
  BY <1>1 DEF Working, InHand
<1>4. Undecoded'
  BY <1>1 DEF Accounts, Undecoded
<1>5. Standing'
  BY <1>1, <1>2, <1>3 DEF Accounts, Standing, Working, TypeOK
<1>6. Behind'
  <2> SUFFICES ASSUME NEW i \in Instances, pc[i] = "release"
               PROVE  queue'["retry"][event[i]] > 0 \/ event[i].id \in stranded'
    BY <1>1 DEF Behind
  <2>1. CASE event[i] = m
    BY <2>1 DEF RetryExpire
  <2>2. CASE event[i] # m
    BY <1>1, <2>2 DEF Accounts, Behind, TypeOK, QueueNames
  <2> QED BY <2>1, <2>2
<1>7. Carried'
  BY <1>1, <1>2, <1>3 DEF Accounts, Carried
<1> QED BY <1>4, <1>5, <1>6, <1>7 DEF Accounts

LEMMA EnqueueEventAccounts ==
  ASSUME TypeOK, Accounts, NEW t \in Turns, EnqueueEvent(t)
  PROVE  Accounts'
<1> DEFINE m == [id |-> EventOf[t], attempt |-> 0]
<1>1. m \in Messages /\ "main" \in QueueNames /\ m.id = EventOf[t]
  BY EventOfAssumption, RetriesAssumption DEF Messages, QueueNames
<1>2. PICK ok \in BOOLEAN : Publish("main", m, ok)
  BY DEF EnqueueEvent
<1>3. /\ queue' # queue => queue'["main"][m] > 0
      /\ \A p \in QueueNames, n \in Messages : queue[p][n] > 0 => queue'[p][n] > 0
  BY <1>1, <1>2, PublishGrows
<1>4. \A e \in Events : copies'[e] > 0 => copies[e] > 0 \/ Queued(e)'
  BY <1>1, <1>3 DEF EnqueueEvent, TypeOK, Queued
<1> QED BY <1>3, <1>4, HarmlessStep DEF EnqueueEvent, brokerVars

LEMMA NextAccounts ==
  ASSUME TypeOK, TypeOK', Accounts, [Next]_vars
  PROVE  Accounts'
<1>1. ASSUME NEW t \in Turns, NotReady(t) \/ AcquireSlot(t) \/ SlotTimeout(t)
                              \/ LocalExtract(t)
      PROVE  Accounts'
  <2>1. /\ UNCHANGED <<queue, copies, pc, event, body, held, claim, seen, stranded>>
        /\ done \subseteq done'
    BY <1>1 DEF NotReady, AcquireSlot, SlotTimeout, LocalExtract, brokerVars
  <2> QED BY <2>1, HarmlessStep
<1>2. ASSUME NEW e \in Events, ExpireClaim(e) PROVE Accounts'
  <2>1. /\ UNCHANGED <<queue, copies, pc, event, body, held, done, stranded>>
        /\ \A d \in Events : claim'[d] # NoOwner => claim'[d] = claim[d]
        /\ \A i \in Instances : seen'[i] \subseteq seen[i]
    BY <1>2 DEF ExpireClaim, TypeOK
  <2> QED BY <2>1, HarmlessStep
<1>3. CASE UNCHANGED vars
  BY <1>3, HarmlessStep DEF vars
<1> QED
  BY <1>1, <1>2, <1>3, EnqueueEventAccounts, ClaimAccounts, DeliverAccounts,
     MoveAccounts, ReleaseAccounts, TakenBackAccounts, RetryExpireAccounts
     DEF Next, Persisting, Handler

\* LossesAccounted, whatever fails and however often.
THEOREM LossesExplained == Spec => []LossesAccounted
<1>1. Init => TypeOK /\ SlotsMatchJobs /\ Accounts
  BY InitType, InitSlots, InitAccounts
<1>2. TypeOK /\ SlotsMatchJobs /\ Accounts /\ [Next]_vars
        => (TypeOK /\ SlotsMatchJobs /\ Accounts)'
  BY NextType, NextSlots, NextAccounts
<1>3. Accounts => LossesAccounted
  BY DEF Accounts, Carried, LossesAccounted, Resting, Queued, InHand, QueueNames
<1> QED BY <1>1, <1>2, <1>3, PTL DEF Spec

----------------------------------------------------------------------------
(* Nothing is given up early *)

DeadLast ==
  faults = 0 => \A m \in Messages : queue["dlq"][m] > 0 =>
                  m.attempt = MaxRetries /\ runs[m.id] > MaxRetries

LEMMA InitSpent == Init => Spent /\ DeadLast
BY RetriesAssumption DEF Init, Spent, DeadLast, Messages, QueueNames

\* A step that runs no agent and puts no message where it was not, apart
\* from what it takes over from a handler or the retry queue.
LEMMA SpentStays ==
  ASSUME TypeOK, TypeOK', Spent, DeadLast, UNCHANGED runs,
         faults' = 0 => faults = 0,
         \A n \in Messages : queue'["main"][n] > 0 \/ queue'["retry"][n] > 0 =>
           \/ queue["main"][n] > 0 \/ queue["retry"][n] > 0
           \/ runs[n.id] >= n.attempt,
         \A n \in Messages : faults' = 0 /\ queue'["dlq"][n] > 0 =>
           queue["dlq"][n] > 0 \/ (n.attempt = MaxRetries /\ runs[n.id] > MaxRetries),
         \A i \in Instances :
           /\ held'[i] => (held[i] /\ body'[i] = body[i])
                          \/ runs[body'[i].id] >= body'[i].attempt
           /\ pc'[i] \in {"claim", "extract", "failed", "dlq"} =>
                \/ pc'[i] = pc[i] /\ event'[i] = event[i]
                \/ pc'[i] \in {"claim", "extract"}
                   /\ runs[event'[i].id] >= event'[i].attempt
                \/ pc'[i] = "dlq" /\ faults' # 0
                \/ pc'[i] = "dlq" /\ event'[i].attempt = MaxRetries
                   /\ runs[event'[i].id] > MaxRetries
  PROVE  Spent' /\ DeadLast'
BY DEF Spent, DeadLast

LEMMA NextSpent ==
  ASSUME TypeOK, TypeOK', Spent, DeadLast, [Next]_vars
  PROVE  Spent' /\ DeadLast'
<1> USE DEF Goto, TurnGoto, brokerVars, turnVars, NoFault, Fault
<1>0. /\ {"main", "retry", "dlq"} = QueueNames /\ MaxRetries \in Nat
      /\ \A m \in Messages : m.id \in Events /\ m.attempt \in 0..MaxRetries
      /\ \A i \in Instances : event[i] \in Messages /\ body[i] \in Messages
      /\ faults \in Nat /\ \A e \in Events : runs[e] \in Nat
  BY RetriesAssumption DEF QueueNames, Messages, TypeOK
\* What a publish can leave in the queues.
<1>p. ASSUME NEW q \in QueueNames, NEW m \in Messages, NEW ok \in BOOLEAN,
             Publish(q, m, ok)
      PROVE  /\ \A p \in QueueNames, n \in Messages :
                  queue'[p][n] > 0 => queue[p][n] > 0 \/ (p = q /\ n = m)
             /\ faults' = 0 => faults = 0 /\ ok
  BY <1>p, <1>0 DEF Publish, Enqueue, TypeOK
<1>t. ASSUME NEW i \in Instances, TakeBack(i)
      PROVE  /\ \A p \in QueueNames, n \in Messages :
                  queue'[p][n] > 0 =>
                    queue[p][n] > 0 \/ (p = "main" /\ n = body[i] /\ held[i])
             /\ ~held'[i] /\ \A j \in Instances : j # i => held'[j] = held[j]
  BY <1>t, <1>0 DEF TakeBack, Enqueue, TypeOK
<1>1. ASSUME NEW t \in Turns, EnqueueEvent(t) PROVE Spent' /\ DeadLast'
  <2>1. EventOf[t] \in Events
    BY EventOfAssumption
  <2>2. PICK m \in Messages, ok \in BOOLEAN :
          m.attempt = 0 /\ Publish("main", m, ok)
    BY <1>0, <1>1, <2>1 DEF EnqueueEvent, Messages
  <2>3. \A p \in QueueNames, n \in Messages :
          queue'[p][n] > 0 => queue[p][n] > 0 \/ (p = "main" /\ n = m)
    BY <1>0, <1>p, <2>2
  <2>4. UNCHANGED <<pc, body, event, held, runs>> /\ (faults' = 0 => faults = 0)
    BY <1>0, <1>1, <1>p, <2>2 DEF EnqueueEvent
  <2> QED BY <1>0, <2>2, <2>3, <2>4, SpentStays
<1>2. ASSUME UNCHANGED <<queue, pc, body, event, held, runs>>,
             faults' = 0 => faults = 0
      PROVE  Spent' /\ DeadLast'
  BY <1>2, SpentStays
<1>3. ASSUME NEW t \in Turns,
             NotReady(t) \/ AcquireSlot(t) \/ SlotTimeout(t) \/ LocalExtract(t)
      PROVE  Spent' /\ DeadLast'
  BY <1>2, <1>3 DEF NotReady, AcquireSlot, SlotTimeout, LocalExtract
<1>4. ASSUME NEW i \in Instances, Deliver(i) PROVE Spent' /\ DeadLast'
  <2>1. PICK m \in Messages :
          /\ queue["main"][m] > 0
          /\ queue' = [queue EXCEPT !["main"][m] = @ - 1]
          /\ body' = [body EXCEPT ![i] = m]
          /\ event' = [event EXCEPT ![i] = m]
    BY <1>4 DEF Deliver
  <2>2. \A p \in QueueNames, n \in Messages : queue'[p][n] > 0 => queue[p][n] > 0
    BY <2>1, <1>0 DEF TypeOK
  <2>3. runs[m.id] >= m.attempt
    BY <2>1 DEF Spent
  <2>4. /\ \A j \in Instances : j # i =>
             UNCHANGED <<pc[j], body[j], event[j], held[j]>>
        /\ pc'[i] = "claim" /\ body'[i] = m /\ event'[i] = m
        /\ UNCHANGED <<runs, faults>>
    BY <1>4, <2>1 DEF Deliver, TypeOK
  <2> QED BY <1>0, <2>2, <2>3, <2>4, SpentStays
<1>5. ASSUME NEW i \in Instances, Claim(i) PROVE Spent' /\ DeadLast'
  <2>1. /\ UNCHANGED <<queue, body, event, held, runs>>
        /\ \A j \in Instances : j # i => pc'[j] = pc[j]
        /\ pc[i] = "claim" /\ pc'[i] \in {"extract", "ack"}
    BY <1>5 DEF Claim, TypeOK
  <2>2. faults' = 0 => faults = 0
    BY <1>0, <1>5 DEF Claim
  <2>3. runs[event[i].id] >= event[i].attempt
    BY <2>1 DEF Spent
  <2> QED BY <1>0, <2>1, <2>2, <2>3, SpentStays
<1>6. ASSUME NEW i \in Instances, Extract(i) PROVE Spent' /\ DeadLast'
  <2>1. /\ UNCHANGED <<queue, body, event, held, faults>>
        /\ \A j \in Instances : j # i => pc'[j] = pc[j]
        /\ pc[i] = "extract" /\ pc'[i] \in {"ack", "failed"}
        /\ runs' = [runs EXCEPT ![event[i].id] = @ + 1]
    BY <1>6 DEF Extract, TypeOK
  <2>2. \A e \in Events : runs'[e] >= runs[e] /\ runs'[e] \in Nat
    BY <1>0, <2>1 DEF TypeOK
  <2>3. runs'[event[i].id] > event[i].attempt
    BY <1>0, <2>1 DEF Spent, TypeOK
  <2>4. Spent'
    BY <1>0, <2>1, <2>2, <2>3 DEF Spent
  <2>5. DeadLast'
    BY <1>0, <2>1, <2>2 DEF DeadLast
  <2> QED BY <2>4, <2>5
<1>7. ASSUME NEW i \in Instances, PublishRetry(i) PROVE Spent' /\ DeadLast'
  <2>0. NextAttempt(i) \in Messages
    BY <1>0, <1>7 DEF PublishRetry, RetriesLeft, NextAttempt, Messages, TypeOK
  <2>1. PICK m \in Messages, ok \in BOOLEAN :
          /\ m = NextAttempt(i) /\ Publish("retry", m, ok)
          /\ pc' = [pc EXCEPT ![i] = IF ok THEN "release" ELSE "dlq"]
    BY <1>7, <2>0 DEF PublishRetry
  <2>2. m.id = event[i].id /\ m.attempt = event[i].attempt + 1
    BY <1>0, <2>1 DEF NextAttempt, Messages
  <2>3. runs[m.id] >= m.attempt
    BY <1>0, <1>7, <2>2 DEF PublishRetry, Spent
  <2>4. /\ UNCHANGED <<body, held, runs>>
        /\ \A j \in Instances : j # i => pc'[j] = pc[j] /\ event'[j] = event[j]
        /\ pc'[i] = IF ok THEN "release" ELSE "dlq"
    BY <1>7, <2>1 DEF PublishRetry, TypeOK
  <2>5. /\ \A p \in QueueNames, n \in Messages :
             queue'[p][n] > 0 => queue[p][n] > 0 \/ (p = "retry" /\ n = m)
        /\ faults' = 0 => faults = 0 /\ ok
    BY <1>0, <1>p, <2>1
  <2> QED BY <1>0, <2>3, <2>4, <2>5, SpentStays
<1>8. ASSUME NEW i \in Instances, GiveUp(i) PROVE Spent' /\ DeadLast'
  <2>1. /\ UNCHANGED <<queue, body, event, held, runs, faults>>
        /\ \A j \in Instances : j # i => pc'[j] = pc[j]
        /\ pc[i] = "failed" /\ pc'[i] = "dlq"
    BY <1>8 DEF GiveUp, TypeOK
  <2>2. event[i].attempt = MaxRetries /\ runs[event[i].id] > MaxRetries
    BY <1>0, <1>8, <2>1 DEF GiveUp, RetriesLeft, Spent
  <2> QED BY <1>0, <2>1, <2>2, SpentStays
<1>9. ASSUME NEW i \in Instances, PublishDLQ(i) PROVE Spent' /\ DeadLast'
  <2>1. PICK ok \in BOOLEAN : Publish("dlq", event[i], ok)
    BY <1>9 DEF PublishDLQ
  <2>2. /\ \A p \in QueueNames, n \in Messages :
             queue'[p][n] > 0 => queue[p][n] > 0 \/ (p = "dlq" /\ n = event[i])
        /\ faults' = 0 => faults = 0 /\ ok
    BY <1>0, <1>p, <2>1
  <2>3. /\ UNCHANGED <<body, event, held, runs>>
        /\ \A j \in Instances : j # i => pc'[j] = pc[j]
        /\ pc[i] = "dlq" /\ pc'[i] \in {"ack", "nack"}
    BY <1>9 DEF PublishDLQ, TypeOK
  <2>4. faults = 0 => event[i].attempt = MaxRetries /\ runs[event[i].id] > MaxRetries
    BY <2>3 DEF Spent
  <2> QED BY <1>0, <2>2, <2>3, <2>4, SpentStays
<1>10. ASSUME NEW i \in Instances, Release(i) \/ Ack(i) PROVE Spent' /\ DeadLast'
  <2>1. /\ UNCHANGED <<queue, body, event, runs>>
        /\ \A j \in Instances : held'[j] => held[j]
        /\ \A j \in Instances : j # i => pc'[j] = pc[j]
        /\ pc'[i] \in {"ack", "idle"}
    BY <1>10 DEF Release, Ack, TypeOK
  <2>2. faults' = 0 => faults = 0
    BY <1>0, <1>10 DEF Release, Ack
  <2> QED BY <1>0, <2>1, <2>2, SpentStays
<1>11. ASSUME NEW i \in Instances, NackRequeue(i) \/ Crash(i) \/ DropConnection(i)
       PROVE  Spent' /\ DeadLast'
  <2>1. /\ UNCHANGED <<body, event, runs>> /\ TakeBack(i)
        /\ \A j \in Instances : pc'[j] = pc[j] \/ pc'[j] = "idle"
    BY <1>11 DEF NackRequeue, Crash, DropConnection, TypeOK
  <2>2. faults' = 0 => faults = 0
    BY <1>0, <1>11 DEF NackRequeue, Crash, DropConnection
  <2>3. held[i] => runs[body[i].id] >= body[i].attempt
    BY DEF Spent
  <2> QED BY <1>0, <1>t, <2>1, <2>2, <2>3, SpentStays
<1>12. ASSUME NEW m \in Messages, RetryExpire(m) PROVE Spent' /\ DeadLast'
  <2>1. \A n \in Messages :
          /\ queue'["main"][n] > 0 => queue["main"][n] > 0 \/ queue["retry"][n] > 0
          /\ queue'["retry"][n] > 0 => queue["retry"][n] > 0
          /\ queue'["dlq"][n] > 0 => queue["dlq"][n] > 0
    BY <1>0, <1>12 DEF RetryExpire, TypeOK
  <2>2. UNCHANGED <<pc, body, event, held, runs, faults>>
    BY <1>12 DEF RetryExpire
  <2> QED BY <1>0, <2>1, <2>2, SpentStays
<1>13. ASSUME NEW e \in Events, ExpireClaim(e) PROVE Spent' /\ DeadLast'
  BY <1>0, <1>2, <1>13 DEF ExpireClaim
<1>14. CASE UNCHANGED vars
  BY <1>2, <1>14 DEF vars
<1> QED
  BY <1>1, <1>3, <1>4, <1>5, <1>6, <1>7, <1>8, <1>9, <1>10, <1>11, <1>12, <1>13,
     <1>14 DEF Next, Persisting, Handler

\* DeadLettersAreFinal: while nothing fails, an event is given up only when
\* its last attempt has run.
THEOREM GivenUpLast == Spec => []DeadLettersAreFinal
<1>1. Init => TypeOK /\ SlotsMatchJobs /\ Spent /\ DeadLast
  BY InitType, InitSlots, InitSpent
<1>2. TypeOK /\ SlotsMatchJobs /\ Spent /\ DeadLast /\ [Next]_vars
        => (TypeOK /\ SlotsMatchJobs /\ Spent /\ DeadLast)'
  BY NextType, NextSlots, NextSpent
<1>3. DeadLast => DeadLettersAreFinal
  BY DEF DeadLast, DeadLettersAreFinal
<1> QED BY <1>1, <1>2, <1>3, PTL DEF Spec

=============================================================================
