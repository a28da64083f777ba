------------------------------ MODULE McpPool ------------------------------
(***************************************************************************)
(* The pool of MCP clients: concurrent tool calls share one client per     *)
(* server URL, replace it when the connection is lost, and try once more.  *)
(*                                                                         *)
(*   internal/ai/tools/mcp_client_pool.go   getOrCreate, CallTool,         *)
(*                                          reconnect, InvokableRun        *)
(*                                                                         *)
(* One URL: the clients of different URLs share nothing but the mutex of   *)
(* the pool's map.  Clients are numbered in the order they are made; the   *)
(* server knows the sessions of some of them, and forgets all of them when *)
(* it restarts.                                                            *)
(***************************************************************************)
EXTENDS Naturals

CONSTANTS
  McpCallers,       \* goroutines that call a tool, once each
  NoCaller,         \* the holder of a free mutex
  MaxTries,         \* maxReconnectRetries
  McpMaxFaults      \* bound: server restarts, failed dials, broken calls

ASSUME NoCallerAssumption == NoCaller \notin McpCallers
ASSUME McpBoundsAssumption == MaxTries \in Nat \ {0} /\ McpMaxFaults \in Nat

VARIABLES
  pools,      \* pooled clients ever entered in the map for the URL
  client,     \* pooledClient.cli; 0 before there is one
  connected,  \* pooledClient.connected
  made,       \* clients made so far
  sessions,   \* the clients whose session the server knows
  mapMu,      \* the caller holding the pool's mutex for writing
  dialMu,     \* the caller holding pooledClient.mu
  at,         \* where each caller stands
  on,         \* the client each caller's call goes to
  failedOn,   \* the client whose failure it reconnects from; 0 before
  tries,      \* failed dials of the reconnection it is in
  mcpFaults

mcpVars == <<pools, client, connected, made, sessions, mapMu, dialMu, at, on,
             failedOn, tries, mcpFaults>>

McpSteps == {"idle", "lookup", "lock", "connect", "call", "calling",
             "lost", "dialLock", "dial", "retry", "retrying", "fallback",
             "ok", "failed"}

McpFault == mcpFaults < McpMaxFaults /\ mcpFaults' = mcpFaults + 1

CallerGoto(c, step) == at' = [at EXCEPT ![c] = step]

poolFrame == <<pools, client, connected, made>>
mutexes == <<mapMu, dialMu>>
callFrame == <<on, failedOn, tries>>

----------------------------------------------------------------------------
(* getOrCreate *)

\* An agent invokes a tool.
Invoke(c) ==
  /\ at[c] = "idle"
  /\ CallerGoto(c, "lookup")
  /\ UNCHANGED <<poolFrame, sessions, mutexes, callFrame, mcpFaults>>

Lookup(c) ==
  /\ at[c] = "lookup"
  /\ mapMu = NoCaller
  /\ CallerGoto(c, IF pools > 0 THEN "call" ELSE "lock")
  /\ UNCHANGED <<poolFrame, sessions, mutexes, callFrame, mcpFaults>>

StillMissing == pools = 0

LockMap(c) ==
  /\ at[c] = "lock"
  /\ mapMu = NoCaller
  /\ IF StillMissing
       THEN mapMu' = c /\ CallerGoto(c, "connect")
       ELSE CallerGoto(c, "call") /\ UNCHANGED mapMu
  /\ UNCHANGED <<poolFrame, sessions, dialMu, callFrame, mcpFaults>>

\* The first connection, made under the lock; without it no tool is listed.
ConnectFirst(c) ==
  /\ at[c] = "connect"
  /\ mapMu' = NoCaller
  /\ \/ /\ made' = made + 1
        /\ client' = made + 1
        /\ connected' = TRUE
        /\ pools' = pools + 1
        /\ sessions' = sessions \cup {made + 1}
        /\ CallerGoto(c, "call")
        /\ UNCHANGED mcpFaults
     \/ /\ McpFault
        /\ CallerGoto(c, "failed")
        /\ UNCHANGED <<poolFrame, sessions>>
  /\ UNCHANGED <<dialMu, callFrame>>

----------------------------------------------------------------------------
(* CallTool *)

\* doCall reads the client and lets go of it: the call runs on that one.
DoCall(c) ==
  /\ at[c] \in {"call", "retry"}
  /\ on' = [on EXCEPT ![c] = client]
  /\ CallerGoto(c, IF at[c] = "call" THEN "calling" ELSE "retrying")
  /\ UNCHANGED <<poolFrame, sessions, mutexes, failedOn, tries, mcpFaults>>

\* The answer, or an error of the tool: nothing to reconnect for.
CallAnswered(c) ==
  /\ at[c] \in {"calling", "retrying"}
  /\ on[c] \in sessions
  /\ \E end \in {"ok", "failed"} : CallerGoto(c, end)
  /\ UNCHANGED <<poolFrame, sessions, mutexes, callFrame, mcpFaults>>

\* A connection error: the session is unknown, or the connection broke.
\* The first one leads to a reconnection, the second to the fallback.
CallBroken(c) ==
  /\ at[c] \in {"calling", "retrying"}
  /\ \/ on[c] \notin sessions /\ UNCHANGED mcpFaults
     \/ on[c] \in sessions /\ McpFault
  /\ CallerGoto(c, IF at[c] = "calling" THEN "lost" ELSE "fallback")
  /\ UNCHANGED <<poolFrame, sessions, mutexes, callFrame>>

\* Whatever client is current by now, it is marked as lost.
MarkedM == connected
Marked == FALSE

MarkLost(c) ==
  /\ at[c] = "lost"
  /\ connected' = Marked
  /\ failedOn' = [failedOn EXCEPT ![c] = on[c]]
  /\ CallerGoto(c, "dialLock")
  /\ UNCHANGED <<pools, client, made, sessions, mutexes, on, tries, mcpFaults>>

----------------------------------------------------------------------------
(* reconnect *)

\* One reconnects at a time; who finds it done has nothing left to do.
LockDial(c) ==
  /\ at[c] = "dialLock"
  /\ dialMu = NoCaller
  /\ IF connected
       THEN CallerGoto(c, "retry") /\ UNCHANGED dialMu
       ELSE CallerGoto(c, "dial") /\ dialMu' = c
  /\ tries' = [tries EXCEPT ![c] = 0]
  /\ UNCHANGED <<poolFrame, sessions, mapMu, on, failedOn, mcpFaults>>

\* The client that is replaced is not closed.
DialSucceeds(c) ==
  /\ at[c] = "dial"
  /\ made' = made + 1
  /\ client' = made + 1
  /\ connected' = TRUE
  /\ sessions' = sessions \cup {made + 1}
  /\ dialMu' = NoCaller
  /\ CallerGoto(c, "retry")
  /\ UNCHANGED <<pools, mapMu, callFrame, mcpFaults>>

\* The deferred unlock of a reconnection that gives up.
UndialedM == dialMu
Undialed == NoCaller

DialFails(c) ==
  /\ at[c] = "dial"
  /\ McpFault
  /\ tries' = [tries EXCEPT ![c] = @ + 1]
  /\ IF tries[c] + 1 < MaxTries
       THEN UNCHANGED <<at, dialMu>>
       ELSE dialMu' = Undialed /\ CallerGoto(c, "fallback")
  /\ UNCHANGED <<poolFrame, sessions, mapMu, on, failedOn>>

\* The caller's context ends during the pause before a dial.
DialCancelled(c) ==
  /\ at[c] = "dial"
  /\ McpFault
  /\ dialMu' = Undialed
  /\ CallerGoto(c, "fallback")
  /\ UNCHANGED <<poolFrame, sessions, mapMu, callFrame>>

\* InvokableRun: a connection error that remains is tried once over HTTP by
\* the tools that have a URL for it.
Fallback(c) ==
  /\ at[c] = "fallback"
  /\ \E end \in {"ok", "failed"} : CallerGoto(c, end)
  /\ UNCHANGED <<poolFrame, sessions, mutexes, callFrame, mcpFaults>>

\* The server restarts and knows none of its sessions.
ServerRestart ==
  /\ sessions # {}
  /\ McpFault
  /\ sessions' = {}
  /\ UNCHANGED <<poolFrame, mutexes, at, callFrame>>

----------------------------------------------------------------------------

McpInit ==
  /\ pools = 0
  /\ client = 0
  /\ connected = FALSE
  /\ made = 0
  /\ sessions = {}
  /\ mapMu = NoCaller
  /\ dialMu = NoCaller
  /\ at = [c \in McpCallers |-> "idle"]
  /\ on = [c \in McpCallers |-> 0]
  /\ failedOn = [c \in McpCallers |-> 0]
  /\ tries = [c \in McpCallers |-> 0]
  /\ mcpFaults = 0

CallerStep(c) ==
  \/ Lookup(c) \/ LockMap(c) \/ ConnectFirst(c)
  \/ DoCall(c) \/ CallAnswered(c) \/ CallBroken(c) \/ MarkLost(c)
  \/ LockDial(c) \/ DialSucceeds(c) \/ DialFails(c) \/ DialCancelled(c)
  \/ Fallback(c)

McpNext == (\E c \in McpCallers : Invoke(c) \/ CallerStep(c)) \/ ServerRestart

McpSpec == McpInit /\ [][McpNext]_mcpVars

----------------------------------------------------------------------------
(* Properties *)

\* The shape of the state.
McpTypeOK ==
  /\ pools \in Nat
  /\ made \in Nat
  /\ client \in 0..made
  /\ connected \in BOOLEAN
  /\ sessions \subseteq 1..made
  /\ mapMu \in McpCallers \cup {NoCaller}
  /\ dialMu \in McpCallers \cup {NoCaller}
  /\ at \in [McpCallers -> McpSteps]
  /\ on \in [McpCallers -> 0..made]
  /\ failedOn \in [McpCallers -> 0..made]
  /\ tries \in [McpCallers -> 0..MaxTries]
  /\ mcpFaults \in Nat

\* The callers of a URL share one pooled client, however they race for it.
OnePoolPerUrl == pools <= 1

\* The second attempt is worth making: it goes to a client installed after
\* the one that failed, whoever reconnected.
RetriesOnNewerClient ==
  \A c \in McpCallers : at[c] = "retrying" => on[c] > failedOn[c]

\* Every call returns: a reconnection that gives up lets the next one try.
CallsReturn ==
  \A c \in McpCallers : (at[c] # "idle") ~> (at[c] \in {"ok", "failed"})

=============================================================================
