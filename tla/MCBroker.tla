------------------------------ MODULE MCBroker ------------------------------
(***************************************************************************)
(* Small instances of what a process does behind its handlers, for one run *)
(* of TLC: the AMQP client one queue uses, the process that starts,        *)
(* connects and shuts down its two queues, the chat tasks under the        *)
(* failures after which the broker delivers nothing a second time, the     *)
(* calls to a language model, behind the circuit breaker, the semaphores   *)
(* and the token budget, and those to an MCP server, through the client    *)
(* pool.  They share no variable, so a behaviour runs one of them, the one *)
(* in focus, and the others rest.                                          *)
(***************************************************************************)
EXTENDS AmqpClient, Lifecycle, ChatTask, LlmCall, McpPool, TLC

VARIABLE focus

CONSTANTS a1, q1, q2, t1, i1, i2, k1, k2, c1, c2

OnePublisher == {a1}
TwoQueues == {q1, q2}

OneTask == {t1}
TwoInstances == {i1, i2}
NoRedelivery == {"redis", "unconfirmed", "slow", "expire"}

TwoModelCallers == {k1, k2}
TwoToolCallers == {c1, c2}

\* The semaphore is resized from one slot to two.
TwoLimits == <<1, 2>>
AllLlmFaults == LlmFaultKinds

-----------------------------------------------------------------------------
allVars == <<amqpVars, lcVars, vars, llmVars, mcpVars, focus>>

Messaging ==
  focus = "client" /\ UNCHANGED <<lcVars, vars, llmVars, mcpVars, focus>>
Living ==
  focus = "process" /\ UNCHANGED <<amqpVars, vars, llmVars, mcpVars, focus>>
Tasking ==
  focus = "tasks" /\ UNCHANGED <<amqpVars, lcVars, llmVars, mcpVars, focus>>
Calling ==
  focus = "model" /\ UNCHANGED <<amqpVars, lcVars, vars, mcpVars, focus>>
Pooling ==
  focus = "tools" /\ UNCHANGED <<amqpVars, lcVars, vars, llmVars, focus>>

BrokerInit ==
  /\ focus \in {"client", "process", "tasks", "model", "tools"}
  /\ AmqpInit /\ LcInit /\ Init /\ LlmInit /\ McpInit

BrokerNext ==
  \/ Messaging /\ AmqpNext
  \/ Living /\ LcNext
  \/ Tasking /\ Next
  \/ Calling /\ LlmNext
  \/ Pooling /\ McpNext

TakeMutex(c) == Lookup(c) \/ LockMap(c) \/ LockDial(c)

\* A goroutine that can run does, one that waits for a mutex gets it in the
\* end (Go's mutexes hand over to a starving waiter), the breaker's timeout
\* passes and a day ends.  Nobody has to publish, to close or to call a tool;
\* the model is called again and again, as a circuit only closes on calls.
BrokerFairness ==
  /\ \A a \in Actors : WF_amqpVars(focus = "client" /\ Publishing(a))
  /\ WF_amqpVars(focus = "client" /\ Consuming)
  /\ WF_amqpVars(focus = "client" /\ CloseWait)
  /\ SF_amqpVars(focus = "client" /\ CloseLock)
  /\ WF_amqpVars(focus = "client" /\ CloseSwap)
  /\ \A k \in Callers : WF_llmVars(focus = "model" /\ Caller(k))
  /\ WF_llmVars(focus = "model" /\ ResetTimeout)
  /\ WF_llmVars(focus = "model" /\ NewDay)
  /\ \A c \in McpCallers : /\ WF_mcpVars(focus = "tools" /\ CallerStep(c))
                           /\ SF_mcpVars(focus = "tools" /\ TakeMutex(c))

BrokerSpec == BrokerInit /\ [][BrokerNext]_allVars /\ BrokerFairness

=============================================================================
