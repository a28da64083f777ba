------------------------------ MODULE LlmCall ------------------------------
(***************************************************************************)
(* One call of a language model, as the instrumented chat model makes it:  *)
(* the session's daily token limit is checked, a slot of the process-wide  *)
(* semaphore is taken, the model's circuit breaker is asked, the provider  *)
(* is called (with retries, or as a stream), the outcome is recorded in    *)
(* the breaker, the tokens are charged and the slot is given back.         *)
(*                                                                         *)
(*   internal/ai/models/instrumented_chat_model.go  Generate and Stream    *)
(*   utility/resilience/resilience.go               the circuit breaker    *)
(*   utility/resilience/semaphore.go                the slots              *)
(*   internal/ai/service/token_audit.go             the daily limit        *)
(*                                                                         *)
(* The callers share one session, one model and one process.  A changed    *)
(* llm.max_concurrent_calls makes a new channel, while callers still wait  *)
(* at or hold slots of the old one: generations number the channels.       *)
(***************************************************************************)
EXTENDS Naturals, Sequences, FiniteSets

CONSTANTS
  Callers,      \* goroutines that call the model again and again
  Threshold,    \* failures that open the circuit (5)
  HalfOpenMax,  \* successes that close it again (2)
  Attempts,     \* MaxRetries of a call, after the first try (2)
  Limits,       \* Limits[g]: llm.max_concurrent_calls of generation g
  DailyLimit,   \* cost.daily_limit_tokens
  Cost,         \* tokens of one answer
  LlmFaults,    \* the kinds of failure that may happen
  LlmMaxFaults  \* bound: how many of the counted failures happen

LlmFaultKinds == { "provider",  \* the provider errs or times out (uncounted)
                   "cancel",    \* the caller's context is cancelled
                   "redis",     \* a Redis command of the audit errs
                   "reload" }   \* the limit is changed while calls run

ASSUME CallersAssumption == IsFiniteSet(Callers)
ASSUME ThresholdAssumption == Threshold \in Nat \ {0} /\ HalfOpenMax \in Nat \ {0}
ASSUME LimitsAssumption == Limits \in Seq(Nat \ {0}) /\ Limits # <<>>
ASSUME TokensAssumption == Attempts \in Nat /\ DailyLimit \in Nat \ {0} /\ Cost \in Nat

VARIABLES
  breaker,   \* state, failures and successes of the circuit breaker
  elapsed,   \* more than resetTimeout has passed since the last failure
  probes,    \* callers admitted while half-open, still in flight (history)
  call,      \* where each caller stands
  attempt,   \* tries each caller has made of its call
  gen,       \* the generation of the current semaphore channel
  sem,       \* the channel each caller waits at or holds a slot of
  taken,     \* slots taken in each generation's channel
  spent,     \* Redis: the session's total_tokens of the day
  healthy,   \* the provider has recovered for good
  llmFaults  \* failures so far

llmVars == <<breaker, elapsed, probes, call, attempt, gen, sem, taken, spent,
             healthy, llmFaults>>

States == {"closed", "open", "halfOpen"}

CallSteps == {"idle", "slot", "wait", "allowGen", "allowStream", "generate",
              "backoff", "stream", "reading", "charge", "release", "drop",
              "record"}

\* A slot is held from the send on the channel until the release.
Holding(c) == call[c] \notin {"idle", "slot", "wait", "record"}

\* The provider works for c.
InFlight(c) == call[c] \in {"generate", "backoff", "stream"}

LlmFault(k) ==
  k \in LlmFaults /\ llmFaults < LlmMaxFaults /\ llmFaults' = llmFaults + 1

CallGoto(c, step) == call' = [call EXCEPT ![c] = step]

----------------------------------------------------------------------------
(* The circuit breaker *)

\* Allow: a call is admitted while closed or half-open, and the first one
\* after resetTimeout turns an open circuit half-open.
AllowsM == breaker.state # "open"
Allows == breaker.state # "open" \/ elapsed

Allowed ==
  IF breaker.state = "open"
    THEN [breaker EXCEPT !.state = "halfOpen", !.successes = 0]
    ELSE breaker

\* RecordSuccess: enough successes close a half-open circuit; while open the
\* success of a call admitted earlier is ignored.
AfterSuccess ==
  CASE breaker.state = "closed" -> [breaker EXCEPT !.failures = 0]
    [] breaker.state = "open" -> breaker
    [] breaker.state = "halfOpen" /\ breaker.successes + 1 >= HalfOpenMax ->
         [breaker EXCEPT !.state = "closed", !.failures = 0, !.successes = @ + 1]
    [] OTHER -> [breaker EXCEPT !.successes = @ + 1]

\* RecordFailure: the threshold opens a closed circuit, any failure opens a
\* half-open one, and while open the timer starts again.  The counter has no
\* bound in the code: it is capped one above the threshold, where it is only
\* ever compared.
CappedFailures ==
  IF breaker.failures > Threshold THEN breaker.failures ELSE breaker.failures + 1

AfterFailure ==
  [breaker EXCEPT !.failures = CappedFailures,
                  !.state = IF @ = "closed" /\ breaker.failures + 1 < Threshold
                              THEN "closed" ELSE "open"]

RecordSuccess == breaker' = AfterSuccess /\ UNCHANGED elapsed
RecordFailure == breaker' = AfterFailure /\ elapsed' = FALSE

\* Neither is recorded.
RecordNothing == UNCHANGED <<breaker, elapsed>>

Leaves(c) == probes' = probes \ {c}

\* resetTimeout has passed since the last recorded failure.
ResetTimeout ==
  /\ ~elapsed
  /\ elapsed' = TRUE
  /\ UNCHANGED <<breaker, probes, call, attempt, gen, sem, taken, spent,
                 healthy, llmFaults>>

----------------------------------------------------------------------------
(* Generate and Stream, for caller c *)

\* The rest of a call touches neither the slots nor the audit.
slotVars == <<gen, sem, taken>>

\* EnforceDailyTokenLimit: read the session's total; a Redis error lets the
\* call through.  A refused caller is done.
WithinLimitM == spent <= DailyLimit
WithinLimit == spent < DailyLimit

Enforce(c) ==
  /\ call[c] = "idle"
  /\ \/ WithinLimit /\ UNCHANGED llmFaults
     \/ ~WithinLimit /\ LlmFault("redis")
  /\ CallGoto(c, "slot")
  /\ UNCHANGED <<breaker, elapsed, probes, attempt, slotVars, spent, healthy>>

\* getOrCreateSemaphore: the channel of the limit configured by now.
GetSemaphore(c) ==
  /\ call[c] = "slot"
  /\ sem' = [sem EXCEPT ![c] = gen]
  /\ CallGoto(c, "wait")
  /\ UNCHANGED <<breaker, elapsed, probes, attempt, gen, taken, spent,
                 healthy, llmFaults>>

SlotFreeHere(c) == taken[sem[c]] < Limits[sem[c]]

AcquireLLMSlot(c) ==
  /\ call[c] = "wait"
  /\ SlotFreeHere(c)
  /\ taken' = [taken EXCEPT ![sem[c]] = @ + 1]
  /\ \E next \in {"allowGen", "allowStream"} : CallGoto(c, next)
  /\ UNCHANGED <<breaker, elapsed, probes, attempt, gen, sem, spent, healthy,
                 llmFaults>>

\* The wait for a slot times out while the channel is full.
QueueTimeout(c) ==
  /\ call[c] = "wait"
  /\ ~SlotFreeHere(c)
  /\ CallGoto(c, "idle")
  /\ UNCHANGED <<breaker, elapsed, probes, attempt, slotVars, spent, healthy,
                 llmFaults>>

\* GetBreaker(name).Allow(); a refused call gives its slot back.
Admit(c) ==
  /\ call[c] \in {"allowGen", "allowStream"}
  /\ IF Allows
       THEN /\ breaker' = Allowed
            /\ probes' = IF Allowed.state = "halfOpen" THEN probes \cup {c} ELSE probes
            /\ CallGoto(c, IF call[c] = "allowGen" THEN "generate" ELSE "stream")
       ELSE /\ CallGoto(c, "release")
            /\ UNCHANGED <<breaker, probes>>
  /\ UNCHANGED <<elapsed, attempt, slotVars, spent, healthy, llmFaults>>

\* The counter of Execute's loop, which is 0 whenever the loop begins.
Counted(c, n) == attempt' = [attempt EXCEPT ![c] = n]

\* One try of Execute.  Its success is recorded; the failure of the last one
\* is, however it came about; an earlier one is followed by a pause.
Generate(c) ==
  /\ call[c] = "generate"
  /\ \/ RecordSuccess /\ Leaves(c) /\ CallGoto(c, "charge") /\ Counted(c, 0)
        /\ UNCHANGED llmFaults
     \/ /\ \/ "provider" \in LlmFaults /\ ~healthy /\ UNCHANGED llmFaults
           \/ LlmFault("cancel")
        /\ IF attempt[c] < Attempts
             THEN /\ Counted(c, attempt[c] + 1)
                  /\ CallGoto(c, "backoff")
                  /\ RecordNothing /\ UNCHANGED probes
             ELSE /\ RecordFailure /\ Leaves(c) /\ CallGoto(c, "release")
                  /\ Counted(c, 0)
  /\ UNCHANGED <<slotVars, spent, healthy>>

\* The pause before the next try; a cancelled context ends the call there
\* and the breaker hears nothing of it.
Backoff(c) ==
  /\ call[c] = "backoff"
  /\ \/ CallGoto(c, "generate") /\ UNCHANGED <<probes, attempt, llmFaults>>
     \/ LlmFault("cancel") /\ Leaves(c) /\ CallGoto(c, "release") /\ Counted(c, 0)
  /\ UNCHANGED <<breaker, elapsed, slotVars, spent, healthy>>

\* inner.Stream returns: success is recorded before anything was read.
OpenStream(c) ==
  /\ call[c] = "stream"
  /\ \/ RecordSuccess /\ CallGoto(c, "reading") /\ UNCHANGED llmFaults
     \/ /\ \/ "provider" \in LlmFaults /\ ~healthy /\ UNCHANGED llmFaults
           \/ LlmFault("cancel")
        /\ RecordNothing
        /\ CallGoto(c, "drop")
  /\ Leaves(c)
  /\ UNCHANGED <<attempt, slotVars, spent, healthy>>

\* An error, a cancelled context's included, is recorded as a failure, after
\* the slot was given back.
RecordStreamFailure(c) ==
  /\ call[c] = "record"
  /\ RecordFailure
  /\ CallGoto(c, "idle")
  /\ UNCHANGED <<probes, attempt, slotVars, spent, healthy, llmFaults>>

\* The forwarding goroutine reads to the end, or the stream breaks or the
\* reader goes away, and then nothing is charged.
ReadStream(c) ==
  /\ call[c] = "reading"
  /\ \/ CallGoto(c, "charge") /\ UNCHANGED llmFaults
     \/ "provider" \in LlmFaults /\ ~healthy /\ CallGoto(c, "release")
        /\ UNCHANGED llmFaults
     \/ LlmFault("cancel") /\ CallGoto(c, "release")
  /\ UNCHANGED <<breaker, elapsed, probes, attempt, slotVars, spent, healthy>>

\* RecordSessionTokenUsage: HINCRBY of the total; an error leaves the answer
\* uncharged.
Charge(c) ==
  /\ call[c] = "charge"
  /\ \/ spent' = spent + Cost /\ UNCHANGED llmFaults
     \/ LlmFault("redis") /\ UNCHANGED spent
  /\ CallGoto(c, "release")
  /\ UNCHANGED <<breaker, elapsed, probes, attempt, slotVars, healthy>>

\* The deferred release receives from the channel the slot was taken of.
ReleasedM(c) == [taken EXCEPT ![gen] = IF @ > 0 THEN @ - 1 ELSE 0]
Released(c) == [taken EXCEPT ![sem[c]] = IF @ > 0 THEN @ - 1 ELSE 0]

ReleaseSlot(c) ==
  /\ call[c] \in {"release", "drop"}
  /\ taken' = Released(c)
  /\ CallGoto(c, IF call[c] = "drop" THEN "record" ELSE "idle")
  /\ UNCHANGED <<breaker, elapsed, probes, attempt, gen, sem, spent, healthy,
                 llmFaults>>

----------------------------------------------------------------------------
(* The environment *)

\* llm.max_concurrent_calls changes, and the next acquirer makes a channel.
Reload ==
  /\ "reload" \in LlmFaults
  /\ gen + 1 \in DOMAIN Limits
  /\ gen' = gen + 1
  /\ UNCHANGED <<breaker, elapsed, probes, call, attempt, sem, taken, spent,
                 healthy, llmFaults>>

\* A new day has a key of its own; the caller may be anywhere.
NewDay ==
  /\ spent >= DailyLimit
  /\ spent' = 0
  /\ UNCHANGED <<breaker, elapsed, probes, call, attempt, slotVars, healthy,
                 llmFaults>>

Recover ==
  /\ ~healthy
  /\ healthy' = TRUE
  /\ UNCHANGED <<breaker, elapsed, probes, call, attempt, slotVars, spent,
                 llmFaults>>

----------------------------------------------------------------------------

LlmInit ==
  /\ breaker = [state |-> "closed", failures |-> 0, successes |-> 0]
  /\ elapsed = TRUE
  /\ probes = {}
  /\ call = [c \in Callers |-> "idle"]
  /\ attempt = [c \in Callers |-> 0]
  /\ gen = 1
  /\ sem = [c \in Callers |-> 1]
  /\ taken = [g \in DOMAIN Limits |-> 0]
  /\ spent = 0
  /\ healthy = FALSE
  /\ llmFaults = 0

Caller(c) ==
  \/ Enforce(c) \/ GetSemaphore(c) \/ AcquireLLMSlot(c) \/ QueueTimeout(c)
  \/ Admit(c) \/ Generate(c) \/ Backoff(c) \/ OpenStream(c) \/ ReadStream(c)
  \/ RecordStreamFailure(c) \/ Charge(c) \/ ReleaseSlot(c)

LlmNext ==
  \/ \E c \in Callers : Caller(c)
  \/ ResetTimeout \/ Reload \/ NewDay \/ Recover

LlmSpec == LlmInit /\ [][LlmNext]_llmVars

----------------------------------------------------------------------------
(* Properties *)

Holders(g) == {c \in Callers : Holding(c) /\ sem[c] = g}

\* Slots neither leak nor multiply: on every path out of Generate and Stream
\* a slot goes back to the channel it came from, also when the limit was
\* changed in between, so each channel's count is the number of its holders
\* and never exceeds its limit.
SlotsConserved ==
  \A g \in DOMAIN Limits :
    taken[g] = Cardinality(Holders(g)) /\ taken[g] <= Limits[g]

\* A half-open circuit admits every caller; what keeps the probes few is the
\* slot each of them had to take first.
ProbesHoldSlots ==
  /\ \A c \in probes : InFlight(c)
  /\ gen = 1 => Cardinality(probes) <= Limits[1]

\* A closed circuit is below its threshold: a recovery forgets the failures
\* that opened it, so that the next single failure does not open it again.
ClosedBelowThreshold ==
  breaker.state = "closed" => breaker.failures < Threshold

\* The limit is checked long before the tokens are charged, with a wait for
\* a slot and the whole call in between: a session can overspend, by at most
\* one answer for each caller (not for each slot) and each failed look-up.
OverspendBounded ==
  spent <= DailyLimit - 1 + Cost * (Cardinality(Callers) + llmFaults)

\* Once the provider has recovered the circuit closes again for good, whoever
\* called it and cancelled at which moment: stale failures do not keep it
\* open and a cancelled probe does not leave it half-open.
CircuitRecovers == healthy ~> [](breaker.state = "closed")

=============================================================================
