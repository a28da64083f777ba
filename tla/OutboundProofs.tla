--------------------------- MODULE OutboundProofs ---------------------------
(***************************************************************************)
(* Proofs about the calls that leave the process, for any number of        *)
(* callers: the pool of MCP clients, and the calls of a language model.    *)
(***************************************************************************)
EXTENDS LlmCall, McpPool, FiniteSetTheorems, TLAPS

USE NoCallerAssumption, McpBoundsAssumption, CallersAssumption,
    ThresholdAssumption, LimitsAssumption, TokensAssumption

----------------------------------------------------------------------------
(* The pool of MCP clients *)

\* The shape of the pool's state is kept.
LEMMA McpShapeStep ==
  ASSUME McpTypeOK, \A c \in McpCallers : at[c] = "dial" => tries[c] < MaxTries,
         [McpNext]_mcpVars
  PROVE  McpTypeOK'
<1> USE DEF McpTypeOK, McpSteps, CallerGoto, McpFault, poolFrame, mutexes,
            callFrame
<1>1. ASSUME NEW c \in McpCallers, Invoke(c) \/ Lookup(c) PROVE McpTypeOK'
  BY <1>1 DEF Invoke, Lookup
<1>2. ASSUME NEW c \in McpCallers, LockMap(c) PROVE McpTypeOK'
  BY <1>2 DEF LockMap
<1>3. ASSUME NEW c \in McpCallers, ConnectFirst(c) PROVE McpTypeOK'
  <2>1. at' \in [McpCallers -> McpSteps] /\ mapMu' = NoCaller
    BY <1>3 DEF ConnectFirst
  <2>2. UNCHANGED <<dialMu, callFrame>> /\ mcpFaults' \in Nat
    BY <1>3 DEF ConnectFirst
  <2>3. CASE UNCHANGED <<poolFrame, sessions>>
    BY <2>1, <2>2, <2>3
  <2>4. CASE /\ made' = made + 1 /\ client' = made + 1 /\ connected' = TRUE
             /\ pools' = pools + 1 /\ sessions' = sessions \cup {made + 1}
             /\ UNCHANGED mcpFaults
    <3>1. sessions' \subseteq 1..made' /\ 0..made \subseteq 0..made'
      BY <2>4
    <3>2. made' \in Nat /\ pools' \in Nat /\ client' \in 0..made' /\ connected' = TRUE
      BY <2>4
    <3>3. on' \in [McpCallers -> 0..made'] /\ failedOn' \in [McpCallers -> 0..made']
      BY <2>2, <3>1
    <3> QED BY <2>1, <2>2, <3>1, <3>2, <3>3
  <2> QED BY <1>3, <2>3, <2>4 DEF ConnectFirst
<1>4. ASSUME NEW c \in McpCallers, DoCall(c) PROVE McpTypeOK'
  BY <1>4 DEF DoCall
<1>5. ASSUME NEW c \in McpCallers, CallAnswered(c) \/ Fallback(c) PROVE McpTypeOK'
  BY <1>5 DEF CallAnswered, Fallback
<1>6. ASSUME NEW c \in McpCallers, CallBroken(c) PROVE McpTypeOK'
  <2>1. at' \in [McpCallers -> McpSteps] /\ mcpFaults' \in Nat
    BY <1>6 DEF CallBroken
  <2>2. UNCHANGED <<poolFrame, sessions, mutexes, callFrame>>
    BY <1>6 DEF CallBroken
  <2> QED BY <2>1, <2>2
<1>7. ASSUME NEW c \in McpCallers, MarkLost(c) PROVE McpTypeOK'
  BY <1>7 DEF MarkLost, Marked
<1>8. ASSUME NEW c \in McpCallers, LockDial(c) PROVE McpTypeOK'
  BY <1>8 DEF LockDial
<1>9. ASSUME NEW c \in McpCallers, DialSucceeds(c) PROVE McpTypeOK'
  BY <1>9 DEF DialSucceeds
<1>10. ASSUME NEW c \in McpCallers, DialFails(c) PROVE McpTypeOK'
  <2>1. tries' \in [McpCallers -> 0..MaxTries] /\ mcpFaults' \in Nat
    BY <1>10 DEF DialFails
  <2>2. at' \in [McpCallers -> McpSteps] /\ dialMu' \in {dialMu, NoCaller}
    BY <1>10 DEF DialFails, Undialed
  <2>3. UNCHANGED <<poolFrame, sessions, mapMu, on, failedOn>>
    BY <1>10 DEF DialFails
  <2> QED BY <2>1, <2>2, <2>3
<1>11. ASSUME NEW c \in McpCallers, DialCancelled(c) PROVE McpTypeOK'
  BY <1>11 DEF DialCancelled, Undialed
<1>12. CASE ServerRestart
  BY <1>12 DEF ServerRestart
<1>13. CASE UNCHANGED mcpVars
  BY <1>13 DEF mcpVars
<1> QED
  BY <1>1, <1>2, <1>3, <1>4, <1>5, <1>6, <1>7, <1>8, <1>9, <1>10, <1>11, <1>12,
     <1>13 DEF McpNext, CallerStep

\* A mutex is held between its Lock and its Unlock, and a reconnection has
\* dials left as long as it goes on.
PoolMutexInv ==
  \A c \in McpCallers :
    /\ (mapMu = c) <=> (at[c] = "connect")
    /\ (dialMu = c) <=> (at[c] = "dial")
    /\ at[c] = "dial" => tries[c] < MaxTries

McpTypeInv == McpTypeOK /\ PoolMutexInv

\* The holders of the mutexes are kept.
LEMMA PoolMutexStep ==
  ASSUME McpTypeInv, [McpNext]_mcpVars
  PROVE  PoolMutexInv'
<1> USE DEF McpTypeInv, McpTypeOK, PoolMutexInv, CallerGoto, poolFrame, mutexes,
            callFrame
<1>1. ASSUME NEW c \in McpCallers, Invoke(c) \/ Lookup(c) PROVE PoolMutexInv'
  BY <1>1 DEF Invoke, Lookup
<1>2. ASSUME NEW c \in McpCallers, LockMap(c) PROVE PoolMutexInv'
  BY <1>2 DEF LockMap
<1>3. ASSUME NEW c \in McpCallers, ConnectFirst(c) PROVE PoolMutexInv'
  BY <1>3 DEF ConnectFirst
<1>4. ASSUME NEW c \in McpCallers, DoCall(c) PROVE PoolMutexInv'
  BY <1>4 DEF DoCall
<1>5. ASSUME NEW c \in McpCallers, CallAnswered(c) \/ Fallback(c) PROVE PoolMutexInv'
  BY <1>5 DEF CallAnswered, Fallback
<1>6. ASSUME NEW c \in McpCallers, CallBroken(c) PROVE PoolMutexInv'
  BY <1>6 DEF CallBroken
<1>7. ASSUME NEW c \in McpCallers, MarkLost(c) PROVE PoolMutexInv'
  BY <1>7 DEF MarkLost, Marked
<1>8. ASSUME NEW c \in McpCallers, LockDial(c) PROVE PoolMutexInv'
  BY <1>8 DEF LockDial
<1>9. ASSUME NEW c \in McpCallers, DialSucceeds(c) PROVE PoolMutexInv'
  BY <1>9 DEF DialSucceeds
<1>10. ASSUME NEW c \in McpCallers, DialFails(c) PROVE PoolMutexInv'
  BY <1>10 DEF DialFails, Undialed
<1>11. ASSUME NEW c \in McpCallers, DialCancelled(c) PROVE PoolMutexInv'
  BY <1>11 DEF DialCancelled, Undialed
<1>12. CASE ServerRestart
  BY <1>12 DEF ServerRestart
<1>13. CASE UNCHANGED mcpVars
  BY <1>13 DEF mcpVars
<1> QED
  BY <1>1, <1>2, <1>3, <1>4, <1>5, <1>6, <1>7, <1>8, <1>9, <1>10, <1>11, <1>12,
     <1>13 DEF McpNext, CallerStep

\* The pool's entry is made once; whoever finds a reconnection done, or has
\* done it, finds a client that is newer than the one it saw fail.
NewerInv ==
  /\ OnePoolPerUrl
  /\ \A c \in McpCallers :
       /\ at[c] = "connect" => pools = 0
       /\ at[c] = "dialLock" /\ connected => client > failedOn[c]
       /\ at[c] = "retry" => client > failedOn[c]
  /\ RetriesOnNewerClient

\* Nothing happens to it where nobody enters the steps it speaks of.
LEMMA NewerKept ==
  ASSUME NewerInv, UNCHANGED <<poolFrame, on, failedOn>>,
         \A c \in McpCallers :
           at'[c] \in {"connect", "dialLock", "retry", "retrying"} => at'[c] = at[c]
  PROVE  NewerInv'
BY DEF NewerInv, OnePoolPerUrl, RetriesOnNewerClient, poolFrame

\* NewerInv is kept by every step.
LEMMA NewerStep ==
  ASSUME McpTypeInv, NewerInv, [McpNext]_mcpVars
  PROVE  NewerInv'
<1> USE DEF McpTypeInv, McpTypeOK, PoolMutexInv, NewerInv, OnePoolPerUrl,
            RetriesOnNewerClient, CallerGoto, poolFrame, mutexes, callFrame
<1>1. ASSUME NEW c \in McpCallers, Invoke(c) \/ Lookup(c) PROVE NewerInv'
  <2>1. \A d \in McpCallers :
          at'[d] \in {"connect", "dialLock", "retry", "retrying"} => at'[d] = at[d]
    BY <1>1 DEF Invoke, Lookup
  <2> QED BY <1>1, <2>1, NewerKept DEF Invoke, Lookup
<1>2. ASSUME NEW c \in McpCallers, LockMap(c) PROVE NewerInv'
  BY <1>2 DEF LockMap, StillMissing
<1>3. ASSUME NEW c \in McpCallers, ConnectFirst(c) PROVE NewerInv'
  <2>1. /\ pools = 0
        /\ \A d \in McpCallers : at'[d] # "connect"
        /\ \A d \in McpCallers : at'[d] \in {"dialLock", "retry", "retrying"} =>
                                  at'[d] = at[d]
        /\ UNCHANGED callFrame
    BY <1>3 DEF ConnectFirst
  <2>2. CASE UNCHANGED poolFrame
    BY <2>1, <2>2
  <2>3. CASE client' = made + 1 /\ pools' = pools + 1
    BY <2>1, <2>3, SMTT(20)
  <2> QED BY <1>3, <2>2, <2>3 DEF ConnectFirst
<1>4. ASSUME NEW c \in McpCallers, DoCall(c) PROVE NewerInv'
  BY <1>4 DEF DoCall
<1>5. ASSUME NEW c \in McpCallers, CallAnswered(c) \/ Fallback(c) PROVE NewerInv'
  <2>1. \A d \in McpCallers :
          at'[d] \in {"connect", "dialLock", "retry", "retrying"} => at'[d] = at[d]
    BY <1>5 DEF CallAnswered, Fallback
  <2> QED BY <1>5, <2>1, NewerKept DEF CallAnswered, Fallback
<1>6. ASSUME NEW c \in McpCallers, CallBroken(c) PROVE NewerInv'
  BY <1>6 DEF CallBroken
<1>7. ASSUME NEW c \in McpCallers, MarkLost(c) PROVE NewerInv'
  BY <1>7 DEF MarkLost, Marked
<1>8. ASSUME NEW c \in McpCallers, LockDial(c) PROVE NewerInv'
  BY <1>8 DEF LockDial
<1>9. ASSUME NEW c \in McpCallers, DialSucceeds(c) PROVE NewerInv'
  BY <1>9 DEF DialSucceeds
<1>10. ASSUME NEW c \in McpCallers, DialFails(c) PROVE NewerInv'
  BY <1>10 DEF DialFails, Undialed
<1>11. ASSUME NEW c \in McpCallers, DialCancelled(c) PROVE NewerInv'
  BY <1>11 DEF DialCancelled, Undialed
<1>12. CASE ServerRestart
  BY <1>12 DEF ServerRestart
<1>13. CASE UNCHANGED mcpVars
  BY <1>13 DEF mcpVars
<1> QED
  BY <1>1, <1>2, <1>3, <1>4, <1>5, <1>6, <1>7, <1>8, <1>9, <1>10, <1>11, <1>12,
     <1>13 DEF McpNext, CallerStep

\* The pool's invariants hold throughout.
LEMMA PoolInvariance == McpSpec => [](McpTypeInv /\ NewerInv)
<1>1. McpInit => McpTypeInv /\ NewerInv
  <2> SUFFICES ASSUME McpInit PROVE McpTypeInv /\ NewerInv
    OBVIOUS
  <2>1. McpTypeOK
    <3>1. /\ on \in [McpCallers -> 0..made] /\ failedOn \in [McpCallers -> 0..made]
          /\ tries \in [McpCallers -> 0..MaxTries]
          /\ sessions \subseteq 1..made /\ client \in 0..made
      BY DEF McpInit
    <3> QED BY <3>1 DEF McpInit, McpTypeOK, McpSteps
  <2>2. PoolMutexInv
    BY DEF McpInit, PoolMutexInv
  <2>3. NewerInv
    BY DEF McpInit, NewerInv, OnePoolPerUrl, RetriesOnNewerClient
  <2> QED BY <2>1, <2>2, <2>3 DEF McpTypeInv
<1>2. McpTypeInv /\ NewerInv /\ [McpNext]_mcpVars => McpTypeInv' /\ NewerInv'
  BY McpShapeStep, PoolMutexStep, NewerStep DEF McpTypeInv, PoolMutexInv
<1> QED BY <1>1, <1>2, PTL DEF McpSpec

\* However many callers race for it, a URL has one pooled client.
THEOREM OnePool == McpSpec => []OnePoolPerUrl
BY PoolInvariance, PTL DEF NewerInv

\* A second attempt never goes to the client that just failed.
THEOREM NewerClient == McpSpec => []RetriesOnNewerClient
BY PoolInvariance, PTL DEF NewerInv

----------------------------------------------------------------------------
(* The circuit breaker *)

Breakers == [state : States, failures : 0..(Threshold + 1),
             successes : 0..HalfOpenMax]

\* What every state of the breaker satisfies: closed below the threshold,
\* and half-open only until enough calls have succeeded.
GoodBreaker(b) ==
  /\ b \in Breakers
  /\ b.state = "closed" => b.failures < Threshold
  /\ b.state = "halfOpen" => b.successes < HalfOpenMax

\* Allow, RecordSuccess and RecordFailure keep it.
LEMMA BreakerOps ==
  ASSUME GoodBreaker(breaker)
  PROVE  GoodBreaker(Allowed) /\ GoodBreaker(AfterSuccess) /\ GoodBreaker(AfterFailure)
<1> USE DEF GoodBreaker, Breakers, States
<1>1. GoodBreaker(Allowed)
  <2>1. CASE breaker.state = "open"
    <3>1. Allowed = [state |-> "halfOpen", failures |-> breaker.failures,
                     successes |-> 0]
      BY <2>1 DEF Allowed
    <3> QED BY <3>1
  <2>2. CASE breaker.state # "open"
    BY <2>2 DEF Allowed
  <2> QED BY <2>1, <2>2
<1>2. GoodBreaker(AfterSuccess)
  <2>1. CASE breaker.state = "closed"
    <3>1. AfterSuccess = [state |-> "closed", failures |-> 0,
                          successes |-> breaker.successes]
      BY <2>1 DEF AfterSuccess
    <3> QED BY <2>1, <3>1
  <2>2. CASE breaker.state = "open"
    <3>1. AfterSuccess = breaker
      BY <2>2 DEF AfterSuccess
    <3> QED BY <3>1
  <2>3. CASE breaker.state = "halfOpen" /\ breaker.successes + 1 >= HalfOpenMax
    <3>1. AfterSuccess = [state |-> "closed", failures |-> 0,
                          successes |-> breaker.successes + 1]
      BY <2>3 DEF AfterSuccess
    <3> QED BY <2>3, <3>1
  <2>4. CASE breaker.state = "halfOpen" /\ breaker.successes + 1 < HalfOpenMax
    <3>0. ~(breaker.successes + 1 >= HalfOpenMax)
      BY <2>4
    <3>1. AfterSuccess = [breaker EXCEPT !.successes = @ + 1]
      BY <2>4, <3>0 DEF AfterSuccess
    <3>2. AfterSuccess = [state |-> "halfOpen", failures |-> breaker.failures,
                          successes |-> breaker.successes + 1]
      BY <2>4, <3>1
    <3> QED BY <2>4, <3>2
  <2> QED BY <2>1, <2>2, <2>3, <2>4
<1>3. GoodBreaker(AfterFailure)
  <2>1. CappedFailures \in 0..(Threshold + 1)
    BY DEF CappedFailures
  <2>2. breaker.failures + 1 < Threshold => CappedFailures = breaker.failures + 1
    BY DEF CappedFailures
  <2> QED BY <2>1, <2>2 DEF AfterFailure
<1> QED BY <1>1, <1>2, <1>3

\* Every step leaves the breaker alone or goes through one of the three.
LEMMA BreakerSteps ==
  ASSUME [LlmNext]_llmVars
  PROVE  breaker' \in {breaker, Allowed, AfterSuccess, AfterFailure}
BY DEF LlmNext, Caller, llmVars, Enforce, GetSemaphore, AcquireLLMSlot,
       QueueTimeout, Admit, Generate, Backoff, OpenStream, ReadStream,
       RecordStreamFailure, Charge, ReleaseSlot, ResetTimeout, Reload, NewDay,
       Recover, RecordSuccess, RecordFailure, RecordNothing

\* A closed circuit has forgotten the failures that once opened it.
THEOREM BelowThreshold == LlmSpec => []ClosedBelowThreshold
<1>1. LlmInit => GoodBreaker(breaker)
  BY DEF LlmInit, GoodBreaker, Breakers, States
<1>2. GoodBreaker(breaker) /\ [LlmNext]_llmVars => GoodBreaker(breaker)'
  BY BreakerOps, BreakerSteps DEF GoodBreaker
<1>3. GoodBreaker(breaker) => ClosedBelowThreshold
  BY DEF GoodBreaker, ClosedBelowThreshold
<1> QED BY <1>1, <1>2, <1>3, PTL DEF LlmSpec

----------------------------------------------------------------------------
(* The slots *)

\* The part of the state the slots and the audit speak of.
CallTypeOK ==
  /\ call \in [Callers -> CallSteps]
  /\ gen \in DOMAIN Limits
  /\ sem \in [Callers -> DOMAIN Limits]
  /\ taken \in [DOMAIN Limits -> Nat]
  /\ probes \subseteq Callers
  /\ spent \in Nat
  /\ llmFaults \in Nat

\* Where the callers stand, and what they hold, keeps its shape.
LEMMA CallTypeStep ==
  ASSUME CallTypeOK, [LlmNext]_llmVars
  PROVE  CallTypeOK'
<1> USE DEF CallTypeOK, CallSteps, CallGoto, slotVars, LlmFault
<1>1. ASSUME NEW c \in Callers,
             Enforce(c) \/ GetSemaphore(c) \/ QueueTimeout(c) \/ Backoff(c)
      PROVE  CallTypeOK'
  <2>1. call' \in [Callers -> CallSteps] /\ probes' \subseteq Callers
    BY <1>1 DEF Enforce, GetSemaphore, QueueTimeout, Backoff, Leaves
  <2>2. /\ UNCHANGED <<gen, taken, spent>> /\ llmFaults' \in Nat
        /\ sem' \in [Callers -> DOMAIN Limits]
    BY <1>1 DEF Enforce, GetSemaphore, QueueTimeout, Backoff
  <2> QED BY <2>1, <2>2
<1>2. ASSUME NEW c \in Callers, AcquireLLMSlot(c) PROVE CallTypeOK'
  BY <1>2 DEF AcquireLLMSlot
<1>3. ASSUME NEW c \in Callers, Admit(c) PROVE CallTypeOK'
  BY <1>3 DEF Admit
<1>4. ASSUME NEW c \in Callers, Generate(c) PROVE CallTypeOK'
  <2>1. call' \in [Callers -> CallSteps] /\ probes' \subseteq Callers
    BY <1>4 DEF Generate, Leaves
  <2>2. UNCHANGED <<slotVars, spent>> /\ llmFaults' \in Nat
    BY <1>4 DEF Generate
  <2> QED BY <2>1, <2>2
<1>5. ASSUME NEW c \in Callers,
             OpenStream(c) \/ ReadStream(c) \/ RecordStreamFailure(c)
      PROVE  CallTypeOK'
  <2>1. call' \in [Callers -> CallSteps] /\ probes' \subseteq Callers
    BY <1>5 DEF OpenStream, ReadStream, RecordStreamFailure, Leaves
  <2>2. UNCHANGED <<slotVars, spent>> /\ llmFaults' \in Nat
    BY <1>5 DEF OpenStream, ReadStream, RecordStreamFailure
  <2> QED BY <2>1, <2>2
<1>6. ASSUME NEW c \in Callers, Charge(c) PROVE CallTypeOK'
  <2>1. call' \in [Callers -> CallSteps] /\ UNCHANGED <<slotVars, probes>>
    BY <1>6 DEF Charge
  <2>2. spent' \in Nat /\ llmFaults' \in Nat
    BY <1>6 DEF Charge
  <2> QED BY <2>1, <2>2
<1>7. ASSUME NEW c \in Callers, ReleaseSlot(c) PROVE CallTypeOK'
  BY <1>7 DEF ReleaseSlot, Released
<1>8. CASE ResetTimeout \/ Reload \/ NewDay \/ Recover \/ UNCHANGED llmVars
  BY <1>8 DEF ResetTimeout, Reload, NewDay, Recover, llmVars
<1> QED
  BY <1>1, <1>2, <1>3, <1>4, <1>5, <1>6, <1>7, <1>8 DEF LlmNext, Caller

\* The generations, and the limit of each.
LEMMA Generations ==
  /\ DOMAIN Limits \subseteq Nat
  /\ \A g \in DOMAIN Limits : Limits[g] \in Nat
OBVIOUS

\* A finite set of callers.
LEMMA FiniteCallers ==
  ASSUME NEW S \in SUBSET Callers
  PROVE  IsFiniteSet(S) /\ Cardinality(S) \in Nat /\ Cardinality(S) <= Cardinality(Callers)
BY FS_Subset, FS_CardinalityType

SlotsInv == SlotsConserved /\ \A c \in Callers : sem[c] <= gen

\* A step in which nobody takes or gives back a slot.
LEMMA SlotsKept ==
  ASSUME SlotsConserved, UNCHANGED taken,
         \A c \in Callers : /\ Holding(c)' <=> Holding(c)
                            /\ Holding(c) => sem'[c] = sem[c]
  PROVE  SlotsConserved'
<1>1. \A g \in DOMAIN Limits : Holders(g)' = Holders(g)
  BY DEF Holders
<1> QED BY <1>1 DEF SlotsConserved

\* On every path a slot goes back to the channel it was taken of.
LEMMA SlotsStep ==
  ASSUME CallTypeOK, CallTypeOK', SlotsInv, [LlmNext]_llmVars
  PROVE  SlotsInv'
<1> USE DEF CallTypeOK, SlotsInv, CallGoto, slotVars
<1>1. ASSUME NEW c \in Callers, AcquireLLMSlot(c) PROVE SlotsInv'
  <2>0. PICK h \in DOMAIN Limits : h = sem[c]
    OBVIOUS
  <2>1. /\ taken[h] < Limits[h]
        /\ taken' = [taken EXCEPT ![h] = @ + 1] /\ UNCHANGED <<sem, gen>>
        /\ c \notin Holders(h)
    BY <1>1, <2>0 DEF AcquireLLMSlot, SlotFreeHere, Holders, Holding
  <2>2. Holders(h)' = Holders(h) \cup {c}
    BY <1>1, <2>0, <2>1 DEF AcquireLLMSlot, Holders, Holding
  <2>3. \A g \in DOMAIN Limits \ {h} : Holders(g)' = Holders(g)
    BY <1>1, <2>0, <2>1 DEF AcquireLLMSlot, Holders, Holding
  <2>4. Cardinality(Holders(h) \cup {c}) = Cardinality(Holders(h)) + 1
    BY <2>1, FiniteCallers, FS_AddElement DEF Holders
  <2>5. taken'[h] = Cardinality(Holders(h)') /\ taken'[h] <= Limits[h]
    <3>1. taken'[h] = taken[h] + 1 /\ taken[h] \in Nat /\ Limits[h] \in Nat
      BY <2>1, Generations
    <3>2. taken[h] = Cardinality(Holders(h))
      BY DEF SlotsConserved
    <3> QED BY <2>1, <2>2, <2>4, <3>1, <3>2
  <2>6. \A g \in DOMAIN Limits \ {h} :
          taken'[g] = Cardinality(Holders(g)') /\ taken'[g] <= Limits[g]
    BY <2>1, <2>3 DEF SlotsConserved
  <2> QED BY <2>1, <2>5, <2>6 DEF SlotsConserved
<1>2. ASSUME NEW c \in Callers, ReleaseSlot(c) PROVE SlotsInv'
  <2>0. PICK h \in DOMAIN Limits : h = sem[c]
    OBVIOUS
  <2>1. /\ UNCHANGED <<sem, gen>>
        /\ c \in Holders(h)
    BY <1>2, <2>0 DEF ReleaseSlot, Holders, Holding
  <2>2. Holders(h)' = Holders(h) \ {c}
    BY <1>2, <2>0, <2>1 DEF ReleaseSlot, Holders, Holding
  <2>3. \A g \in DOMAIN Limits \ {h} : Holders(g)' = Holders(g)
    BY <1>2, <2>0, <2>1 DEF ReleaseSlot, Holders, Holding
  <2>4. /\ Cardinality(Holders(h) \ {c}) = Cardinality(Holders(h)) - 1
        /\ Cardinality(Holders(h)) \in Nat /\ Cardinality(Holders(h)) # 0
    BY <2>1, FiniteCallers, FS_RemoveElement, FS_EmptySet DEF Holders
  <2>5. taken' = [taken EXCEPT ![h] = @ - 1]
    <3>1. taken[h] = Cardinality(Holders(h))
      BY DEF SlotsConserved
    <3>2. taken[h] > 0
      BY <2>4, <3>1
    <3> QED BY <1>2, <2>0, <3>2 DEF ReleaseSlot, Released
  <2>6. taken'[h] = Cardinality(Holders(h)') /\ taken'[h] <= Limits[h]
    <3>1. taken'[h] = taken[h] - 1 /\ taken[h] \in Nat /\ Limits[h] \in Nat
      BY <2>5, Generations
    <3>2. taken[h] = Cardinality(Holders(h)) /\ taken[h] <= Limits[h]
      BY DEF SlotsConserved
    <3> QED BY <2>2, <2>4, <3>1, <3>2
  <2>7. \A g \in DOMAIN Limits \ {h} :
          taken'[g] = Cardinality(Holders(g)') /\ taken'[g] <= Limits[g]
    BY <2>1, <2>3, <2>5 DEF SlotsConserved
  <2> QED BY <2>1, <2>6, <2>7 DEF SlotsConserved
<1>3. ASSUME NEW c \in Callers, Caller(c), ~AcquireLLMSlot(c), ~ReleaseSlot(c)
      PROVE  SlotsInv'
  <2>1. UNCHANGED <<taken, gen>>
    BY <1>3 DEF Caller, Enforce, GetSemaphore, QueueTimeout, Admit, Generate,
         Backoff, OpenStream, ReadStream, RecordStreamFailure, Charge
  <2>2. \A d \in Callers : /\ Holding(d)' <=> Holding(d)
                           /\ Holding(d) => sem'[d] = sem[d]
    BY <1>3 DEF Caller, Enforce, GetSemaphore, QueueTimeout, Admit, Generate,
         Backoff, OpenStream, ReadStream, RecordStreamFailure, Charge, Holding
  <2>3. \A d \in Callers : sem'[d] \in {sem[d], gen}
    BY <1>3 DEF Caller, Enforce, GetSemaphore, QueueTimeout, Admit, Generate,
         Backoff, OpenStream, ReadStream, RecordStreamFailure, Charge
  <2>4. SlotsConserved'
    BY <2>1, <2>2, SlotsKept
  <2>5. \A d \in Callers : sem'[d] <= gen'
    <3> TAKE d \in Callers
    <3>1. sem[d] <= gen /\ gen \in Nat /\ gen' = gen
      BY <2>1, Generations
    <3>2. CASE sem'[d] = sem[d]
      BY <3>1, <3>2
    <3>3. CASE sem'[d] = gen
      BY <3>1, <3>3
    <3> QED BY <2>3, <3>2, <3>3
  <2> QED BY <2>4, <2>5
<1>4. CASE ResetTimeout \/ Reload \/ NewDay \/ Recover \/ UNCHANGED llmVars
  <2>1. UNCHANGED <<taken, sem, call>> /\ gen' \in {gen, gen + 1}
    BY <1>4 DEF ResetTimeout, Reload, NewDay, Recover, llmVars
  <2>2. SlotsConserved'
    BY <2>1, SlotsKept DEF Holding
  <2> QED BY <2>1, <2>2
<1> QED BY <1>1, <1>2, <1>3, <1>4 DEF LlmNext

\* The slots' invariant holds throughout.
LEMMA SlotsInvariance == LlmSpec => [](CallTypeOK /\ SlotsInv)
<1>1. LlmInit => CallTypeOK /\ SlotsInv
  <2> SUFFICES ASSUME LlmInit PROVE CallTypeOK /\ SlotsInv
    OBVIOUS
  <2>1. 1 \in DOMAIN Limits /\ \A g \in DOMAIN Limits : Holders(g) = {}
    BY DEF LlmInit, Holders, Holding
  <2>2. CallTypeOK
    BY <2>1 DEF LlmInit, CallTypeOK, CallSteps
  <2>3. ASSUME NEW g \in DOMAIN Limits
        PROVE  taken[g] = Cardinality(Holders(g)) /\ taken[g] <= Limits[g]
    <3>1. taken[g] = 0 /\ Cardinality(Holders(g)) = 0 /\ Limits[g] \in Nat
      BY <2>1, FS_EmptySet, Generations DEF LlmInit
    <3> QED BY <3>1
  <2>4. \A c \in Callers : sem[c] <= gen
    BY DEF LlmInit
  <2> QED BY <2>2, <2>3, <2>4 DEF SlotsInv, SlotsConserved
<1>2. CallTypeOK /\ SlotsInv /\ [LlmNext]_llmVars => CallTypeOK' /\ SlotsInv'
  BY CallTypeStep, SlotsStep
<1> QED BY <1>1, <1>2, PTL DEF LlmSpec

\* Slots neither leak nor multiply, for any number of callers and of changes
\* of the limit.
THEOREM SlotsAreConserved == LlmSpec => []SlotsConserved
BY SlotsInvariance, PTL DEF SlotsInv

\* A caller admitted to a half-open circuit is counted until its call is over.
ProbesInv == \A c \in probes : InFlight(c)

\* ProbesInv is kept by every step.
LEMMA ProbesStep ==
  ASSUME CallTypeOK, ProbesInv, [LlmNext]_llmVars
  PROVE  ProbesInv'
<1> USE DEF CallTypeOK, ProbesInv, InFlight, CallGoto
<1>1. ASSUME NEW c \in Callers, Admit(c) PROVE ProbesInv'
  <2>1. probes' \subseteq probes \cup {c}
    BY <1>1 DEF Admit
  <2>2. CASE Allows
    BY <1>1, <2>1, <2>2 DEF Admit
  <2>3. CASE ~Allows
    BY <1>1, <2>3 DEF Admit
  <2> QED BY <2>2, <2>3
<1>2. ASSUME NEW c \in Callers, Generate(c) PROVE ProbesInv'
  BY <1>2 DEF Generate, Leaves
<1>3. ASSUME NEW c \in Callers, Backoff(c) \/ OpenStream(c) PROVE ProbesInv'
  BY <1>3 DEF Backoff, OpenStream, Leaves
<1>4. ASSUME NEW c \in Callers,
             Caller(c), ~Admit(c), ~Generate(c), ~Backoff(c), ~OpenStream(c)
      PROVE  ProbesInv'
  <2>1. probes' = probes /\ ~InFlight(c)
    BY <1>4 DEF Caller, Enforce, GetSemaphore, AcquireLLMSlot, QueueTimeout,
         ReadStream, RecordStreamFailure, Charge, ReleaseSlot
  <2>2. \A d \in Callers \ {c} : call'[d] = call[d]
    BY <1>4 DEF Caller, Enforce, GetSemaphore, AcquireLLMSlot, QueueTimeout,
         ReadStream, RecordStreamFailure, Charge, ReleaseSlot
  <2> QED BY <2>1, <2>2
<1>5. CASE ResetTimeout \/ Reload \/ NewDay \/ Recover \/ UNCHANGED llmVars
  BY <1>5 DEF ResetTimeout, Reload, NewDay, Recover, llmVars
<1> QED BY <1>1, <1>2, <1>3, <1>4, <1>5 DEF LlmNext

\* A half-open circuit admits every caller, but each of them had to take a
\* slot first: until the limit is changed there are no more probes than slots.
THEOREM ProbesAreFew == LlmSpec => []ProbesHoldSlots
<1>1. LlmInit => ProbesInv
  BY DEF LlmInit, ProbesInv
<1>2. CallTypeOK /\ ProbesInv /\ [LlmNext]_llmVars => ProbesInv'
  BY ProbesStep
<1>3. CallTypeOK /\ SlotsInv /\ ProbesInv => ProbesHoldSlots
  <2> SUFFICES ASSUME CallTypeOK, SlotsInv, ProbesInv, gen = 1
               PROVE  Cardinality(probes) <= Limits[1]
    BY DEF ProbesHoldSlots, ProbesInv
  <2>1. 1 \in DOMAIN Limits /\ \A c \in Callers : sem[c] = 1
    BY Generations DEF CallTypeOK, SlotsInv
  <2>2. probes \subseteq Holders(1)
    BY <2>1 DEF CallTypeOK, ProbesInv, InFlight, Holders, Holding
  <2>3. Cardinality(probes) <= Cardinality(Holders(1))
    BY <2>2, FiniteCallers, FS_Subset DEF Holders
  <2>4. Cardinality(Holders(1)) <= Limits[1]
    BY <2>1 DEF SlotsInv, SlotsConserved
  <2> QED BY <2>1, <2>3, <2>4, Generations, FiniteCallers DEF CallTypeOK, Holders
<1> QED BY <1>1, <1>2, <1>3, SlotsInvariance, PTL DEF LlmSpec

----------------------------------------------------------------------------
(* The daily limit *)

\* Callers that passed the check and may still be charged.
Pending == {c \in Callers : call[c] \notin {"idle", "release", "drop", "record"}}

\* Whatever is pending is paid for already.
SpendInv ==
  spent + Cost * Cardinality(Pending)
    <= DailyLimit - 1 + Cost * (Cardinality(Callers) + llmFaults)

\* Multiplication is monotone and distributes.
LEMMA Times ==
  ASSUME NEW k \in Nat, NEW a \in Nat, NEW b \in Nat
  PROVE  /\ k * a \in Nat
         /\ k * (a + 1) = k * a + k
         /\ a <= b => k * a <= k * b
OBVIOUS

\* Less was spent, less is pending, and more was granted.
LEMMA Bounded ==
  ASSUME NEW x \in Nat, NEW a \in Nat, NEW r \in Nat, x + a <= DailyLimit - 1 + r,
         NEW y \in Nat, NEW b \in Nat, NEW t \in Nat, y <= x, b <= a, r <= t
  PROVE  y + b <= DailyLimit - 1 + t
OBVIOUS

\* What SpendInv says, with every term a number.
LEMMA Spending ==
  ASSUME CallTypeOK
  PROVE  /\ spent \in Nat /\ llmFaults \in Nat
         /\ Cardinality(Pending) \in Nat /\ Cardinality(Callers) \in Nat
         /\ Cardinality(Pending) <= Cardinality(Callers)
         /\ Cost * Cardinality(Pending) \in Nat
         /\ Cost * (Cardinality(Callers) + llmFaults) \in Nat
<1>1. /\ Cardinality(Pending) \in Nat /\ Cardinality(Callers) \in Nat
      /\ Cardinality(Pending) <= Cardinality(Callers)
  BY FiniteCallers DEF Pending
<1>2. spent \in Nat /\ llmFaults \in Nat
  BY DEF CallTypeOK
<1>3. Cardinality(Callers) + llmFaults \in Nat
  BY <1>1, <1>2
<1> QED BY <1>1, <1>2, <1>3, Times

\* A step that adds nobody to the pending, charges nothing and may count a
\* failure.
LEMMA SpendKept ==
  ASSUME CallTypeOK, CallTypeOK', SpendInv, Pending' \subseteq Pending,
         spent' <= spent, llmFaults' >= llmFaults
  PROVE  SpendInv'
<1> DEFINE n == Cardinality(Pending)
           m == Cardinality(Pending')
           k == Cardinality(Callers)
           a == Cost * n
           b == Cost * m
           r == Cost * (k + llmFaults)
           t == Cost * (k + llmFaults')
<1>1. m <= n
  BY FiniteCallers, FS_Subset DEF Pending
<1>2. /\ spent \in Nat /\ llmFaults \in Nat /\ n \in Nat /\ k \in Nat
      /\ a \in Nat /\ r \in Nat
  BY Spending
<1>3. spent' \in Nat /\ llmFaults' \in Nat /\ m \in Nat
  BY FiniteCallers DEF Pending, CallTypeOK
<1>4. k + llmFaults \in Nat /\ k + llmFaults' \in Nat /\ k + llmFaults <= k + llmFaults'
  BY <1>2, <1>3
<1>5. b \in Nat /\ t \in Nat /\ b <= a /\ r <= t
  BY <1>1, <1>2, <1>3, <1>4, Times
<1>6. spent + a <= DailyLimit - 1 + r
  BY DEF SpendInv
<1>7. spent' + b <= DailyLimit - 1 + t
  <2> HIDE DEF a, b, r, t, n, m, k
  <2> QED BY <1>2, <1>3, <1>5, <1>6, Bounded
<1> QED BY <1>7 DEF SpendInv

\* Whoever passes the check finds the limit unspent, or a failed look-up is
\* counted for it.
LEMMA SpendEnforce ==
  ASSUME CallTypeOK, CallTypeOK', SpendInv, NEW c \in Callers, Enforce(c)
  PROVE  SpendInv'
<1> DEFINE n == Cardinality(Pending)
           m == Cardinality(Pending')
           k == Cardinality(Callers)
           a == Cost * n
           b == Cost * m
           r == Cost * (k + llmFaults)
           t == Cost * (k + llmFaults')
<1>1. Pending' = Pending \cup {c} /\ c \notin Pending
  BY DEF Enforce, Pending, CallGoto, CallTypeOK
<1>2. m = n + 1
  BY <1>1, FiniteCallers, FS_AddElement DEF Pending
<1>3. /\ spent \in Nat /\ llmFaults \in Nat /\ n \in Nat /\ k \in Nat
      /\ a \in Nat /\ r \in Nat
  BY Spending
<1>4. m \in Nat /\ m <= k /\ spent' = spent
  BY FiniteCallers DEF Pending, Enforce
<1>5. spent' + b <= DailyLimit - 1 + t
  <2>1. CASE spent < DailyLimit /\ llmFaults' = llmFaults
    <3>1. k + llmFaults \in Nat /\ m <= k + llmFaults
      BY <1>3, <1>4
    <3>2. b \in Nat /\ b <= r
      BY <1>4, <3>1, Times
    <3>3. t = r
      BY <2>1
    <3> HIDE DEF a, b, r, t, n, m, k
    <3> QED BY <1>3, <1>4, <2>1, <3>2, <3>3
  <2>2. CASE llmFaults' = llmFaults + 1
    <3>1. b \in Nat /\ b = a + Cost
      BY <1>2, <1>3, <1>4, Times
    <3>2. k + llmFaults \in Nat /\ k + llmFaults' = (k + llmFaults) + 1
      BY <1>3, <2>2
    <3>3. t = r + Cost
      BY <3>2, Times
    <3>4. spent + a <= DailyLimit - 1 + r
      BY DEF SpendInv
    <3> HIDE DEF a, b, r, t, n, m, k
    <3> QED BY <1>3, <1>4, <3>1, <3>3, <3>4
  <2> QED BY <2>1, <2>2 DEF Enforce, WithinLimit, LlmFault
<1> QED BY <1>5 DEF SpendInv

\* What is charged was pending.
LEMMA SpendCharge ==
  ASSUME CallTypeOK, CallTypeOK', SpendInv, NEW c \in Callers, Charge(c)
  PROVE  SpendInv'
<1>1. Pending' = Pending \ {c} /\ c \in Pending
  BY DEF Charge, Pending, CallGoto, CallTypeOK
<1>2. CASE UNCHANGED spent /\ llmFaults' = llmFaults + 1
  <2>1. Pending' \subseteq Pending
    BY <1>1
  <2>2. spent' <= spent /\ llmFaults' >= llmFaults
    BY <1>2 DEF CallTypeOK
  <2> QED BY <2>1, <2>2, SpendKept
<1>3. CASE spent' = spent + Cost /\ UNCHANGED llmFaults
  <2> DEFINE n == Cardinality(Pending)
             m == Cardinality(Pending')
             k == Cardinality(Callers)
             a == Cost * n
             b == Cost * m
             r == Cost * (k + llmFaults)
  <2>1. /\ spent \in Nat /\ n \in Nat /\ a \in Nat /\ r \in Nat
    BY Spending
  <2>2. m \in Nat /\ n = m + 1
    <3>1. m = n - 1 /\ m \in Nat
      <4>1. IsFiniteSet(Pending) /\ m \in Nat
        BY FiniteCallers DEF Pending
      <4>2. Cardinality(Pending \ {c}) = Cardinality(Pending) - 1
        BY <1>1, <4>1, FS_RemoveElement
      <4> QED BY <1>1, <4>1, <4>2
    <3> HIDE DEF a, r, n, m
    <3> QED BY <2>1, <3>1
  <2>3. b \in Nat /\ a = b + Cost
    BY <2>2, Times
  <2>4. spent + a <= DailyLimit - 1 + r
    BY DEF SpendInv
  <2>5. spent' + b <= DailyLimit - 1 + r
    <3> HIDE DEF a, b, r, n, m, k
    <3> QED BY <1>3, <2>1, <2>3, <2>4
  <2> QED BY <1>3, <2>5 DEF SpendInv
<1> QED BY <1>2, <1>3 DEF Charge, LlmFault

\* SpendInv is kept by every step.
LEMMA SpendStep ==
  ASSUME CallTypeOK, CallTypeOK', SpendInv, [LlmNext]_llmVars
  PROVE  SpendInv'
<1> USE DEF CallGoto, LlmFault
<1>1. ASSUME NEW c \in Callers, Enforce(c) PROVE SpendInv'
  BY <1>1, SpendEnforce
<1>2. ASSUME NEW c \in Callers, Charge(c) PROVE SpendInv'
  BY <1>2, SpendCharge
<1>3. ASSUME NEW c \in Callers, Caller(c), ~Enforce(c), ~Charge(c)
      PROVE  SpendInv'
  <2>1. Pending' \subseteq Pending
    BY <1>3 DEF CallTypeOK, Pending, Caller, GetSemaphore, AcquireLLMSlot,
         QueueTimeout, Admit, Generate, Backoff, OpenStream, ReadStream,
         RecordStreamFailure, ReleaseSlot
  <2>2. spent' = spent /\ llmFaults' \in {llmFaults, llmFaults + 1}
    BY <1>3 DEF Caller, GetSemaphore, AcquireLLMSlot, QueueTimeout, Admit,
         Generate, Backoff, OpenStream, ReadStream, RecordStreamFailure,
         ReleaseSlot, slotVars
  <2>3. spent' <= spent /\ llmFaults' >= llmFaults
    BY <2>2 DEF CallTypeOK
  <2> QED BY <2>1, <2>3, SpendKept
<1>4. CASE ResetTimeout \/ Reload \/ NewDay \/ Recover \/ UNCHANGED llmVars
  <2>1. /\ Pending' = Pending /\ llmFaults' = llmFaults
        /\ spent' \in {spent, 0}
    BY <1>4 DEF ResetTimeout, Reload, NewDay, Recover, llmVars, slotVars, Pending
  <2>2. spent' <= spent /\ llmFaults' >= llmFaults
    BY <2>1 DEF CallTypeOK
  <2> QED BY <2>1, <2>2, SpendKept
<1> QED BY <1>1, <1>2, <1>3, <1>4 DEF LlmNext

\* A session overspends by at most one answer for each caller and for each
\* look-up of its total that failed, whatever the limit of concurrent calls.
THEOREM Overspend == LlmSpec => []OverspendBounded
<1>1. LlmInit => SpendInv
  <2> SUFFICES ASSUME LlmInit PROVE SpendInv
    OBVIOUS
  <2>1. Pending = {} /\ spent = 0 /\ llmFaults = 0
    BY DEF LlmInit, Pending
  <2>2. Cardinality(Pending) = 0 /\ Cost * 0 = 0
    BY <2>1, FS_EmptySet
  <2>3. Cardinality(Callers) + 0 \in Nat
    BY FiniteCallers
  <2>4. Cost * (Cardinality(Callers) + 0) \in Nat
    BY <2>3, Times
  <2> QED BY <2>1, <2>2, <2>4 DEF SpendInv
<1>2. CallTypeOK /\ CallTypeOK' /\ SpendInv /\ [LlmNext]_llmVars => SpendInv'
  BY SpendStep
<1>3. CallTypeOK /\ SpendInv => OverspendBounded
  BY Spending DEF SpendInv, OverspendBounded
<1> QED BY <1>1, <1>2, <1>3, SlotsInvariance, PTL DEF LlmSpec

=============================================================================
