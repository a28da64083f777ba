--------------------------- MODULE SessionMemory ---------------------------
(***************************************************************************)
(* The short-term memory of chat sessions, with the Redis session store    *)
(* switched on: turns take the session's lock, read the conversation,      *)
(* answer, append their pair of messages to the process's copy and write   *)
(* the copy to Redis; AIOps turns append without the lock.                 *)
(*                                                                         *)
(*   internal/app/chat_app.go             HandleChat, the session locks    *)
(*   internal/app/chat_stream.go          HandleChatStream                 *)
(*   internal/ai/service/memory_service.go   PersistOutcome                *)
(*   internal/ai/memory/session.go        GetSimpleMemory, SimpleMemory    *)
(*   internal/ai/memory/session_store.go  Load, Save                       *)
(*   utility/cache/llm_cache.go           the response cache               *)
(*                                                                         *)
(* A pair of messages is the turn it comes from.  A copy of a conversation *)
(* is the pairs in its window and the turns its summary tells of; that a   *)
(* very long summary loses its middle is left out.  Sessions live long     *)
(* enough in Redis for the turns considered.                               *)
(***************************************************************************)
EXTENDS Naturals, Sequences, FiniteSets, Functions

CONSTANTS
  SessTurns,    \* questions asked, each once ...
  NoTurn,       \* the holder of a free lock
  OpsTurns,     \* ... of which these go to the AIOps runtime
  Sessions,
  SessionOf,    \* the session of each turn
  QuestionOf,   \* its text, as far as the response cache tells
  Pods,         \* server processes
  MaxSessions,  \* sessions a process keeps in its map (500)
  WindowPairs,  \* pairs that memory.max_window_size has room for
  Affinity,     \* requests of a session go to one process while it lives
  SessFaults,   \* the kinds of failure that may happen
  SessMaxFaults \* bound: how many failures

SessFaultKinds == { "crash",  \* a process dies and starts anew
                    "redis",  \* a command of the session store fails
                    "idle" }  \* a session is dropped after two quiet hours

ASSUME SessTurnsAssumption ==
  /\ IsFiniteSet(SessTurns) /\ OpsTurns \subseteq SessTurns /\ NoTurn \notin SessTurns
  /\ SessionOf \in [SessTurns -> Sessions] /\ Pods # {}
ASSUME SizesAssumption == {MaxSessions, WindowPairs} \subseteq Nat \ {0}

VARIABLES
  at,        \* where each turn stands
  where,     \* the process serving it
  podOf,      \* the process a session's requests go to
  map,       \* map[i][s]: the copy process i has of session s; 0 is none
  heap,      \* the copies
  memOf,     \* the copy each turn has in hand
  snapshot,  \* what each turn is about to write
  store,     \* the sessions in Redis
  order,     \* order[i]: the sessions in i's map, least recently used first
  lockOf,    \* lockOf[i][s]: the entry in sessionLocks; 0 is none
  lockIn,    \* the entry each turn has taken
  refs,      \* refCount of each entry
  holder,    \* the turn holding each entry's mutex
  caching,   \* the turns that use the response cache
  cache,     \* the turn whose answer is cached for a session's question
  completed, \* history: turns whose write to Redis was done
  failed,    \* history: sessions with a failed command of the store
  overlaps,  \* history: sessions with turns that were remembered at once
  sessFaults

askVars == <<at, where, memOf, snapshot, caching>>
memVars == <<map, heap, store, order>>
lockVars == <<lockOf, lockIn, refs, holder>>
histVars == <<completed, failed, overlaps>>

sessVars == <<askVars, memVars, lockVars, histVars, podOf, cache, sessFaults>>

Steps == {"new", "waiting", "locked", "agent", "get", "append", "marshal",
          "set", "cache", "unlock", "unref", "done", "dead"}

Empty == [window |-> <<>>, summary |-> {}]

Remembered(copy) == Range(copy.window) \cup copy.summary

\* Conversations and lock entries are told apart by numbers; a number is used again
\* once nothing refers to it.
CopyIds == 1..(2 * Cardinality(SessTurns))

NewId(used) == CHOOSE n \in CopyIds : n \notin used

\* The garbage collector.
LiveCopies(theHeap, theMap, inHand) ==
  [n \in CopyIds |->
     IF \/ \E i \in Pods, s \in Sessions : theMap[i][s] = n
        \/ \E t \in SessTurns : inHand[t] = n
       THEN theHeap[n] ELSE Empty]

CopiesInUse ==
  {map[i][s] : i \in Pods, s \in Sessions} \cup {memOf[t] : t \in SessTurns}

EntriesInUse ==
  {lockOf[i][s] : i \in Pods, s \in Sessions} \cup {lockIn[t] : t \in SessTurns}

SessGoto(t, step) == at' = [at EXCEPT ![t] = step]

SessFault(k) ==
  /\ k \in SessFaults
  /\ sessFaults < SessMaxFaults
  /\ sessFaults' = sessFaults + 1

----------------------------------------------------------------------------
(* The lock of a session in a process *)

\* acquireSessionLock, up to the wait for the entry's mutex.
TakeEntry(t, i) ==
  LET s == SessionOf[t]
      e == IF lockOf[i][s] # 0 THEN lockOf[i][s] ELSE NewId(EntriesInUse)
  IN  /\ lockOf' = [lockOf EXCEPT ![i][s] = e]
      /\ lockIn' = [lockIn EXCEPT ![t] = e]
      /\ refs' = [refs EXCEPT ![e] = @ + 1]
      /\ UNCHANGED holder

Arrive(t) ==
  /\ at[t] = "new"
  /\ \E i \in Pods :
       /\ Affinity => i = podOf[SessionOf[t]]
       /\ where' = [where EXCEPT ![t] = i]
       /\ IF t \in OpsTurns
            THEN SessGoto(t, "get") /\ UNCHANGED lockVars
            ELSE SessGoto(t, "waiting") /\ TakeEntry(t, i)
  /\ UNCHANGED <<memOf, snapshot, caching, memVars, histVars, podOf, cache,
                 sessFaults>>

Lock(t) ==
  /\ at[t] = "waiting"
  /\ holder[lockIn[t]] = NoTurn
  /\ holder' = [holder EXCEPT ![lockIn[t]] = t]
  /\ SessGoto(t, "locked")
  /\ UNCHANGED <<where, memOf, snapshot, caching, memVars, lockOf, lockIn,
                 refs, histVars, podOf, cache, sessFaults>>

\* releaseSessionLock unlocks the entry ...
Unlock(t) ==
  /\ at[t] = "unlock"
  /\ holder' = [holder EXCEPT ![lockIn[t]] = NoTurn]
  /\ SessGoto(t, "unref")
  /\ UNCHANGED <<where, memOf, snapshot, caching, memVars, lockOf, lockIn,
                 refs, histVars, podOf, cache, sessFaults>>

\* ... and deletes it when nobody waits for it.
LastRefM(e) == TRUE
LastRef(e) == refs[e] = 1

Unrefed(e) == [refs EXCEPT ![e] = @ - 1]

Unref(t) ==
  LET e == lockIn[t]
      i == where[t]
      s == SessionOf[t]
  IN  /\ at[t] = "unref"
      /\ IF lockOf[i][s] = e
           THEN /\ refs' = Unrefed(e)
                /\ lockOf' = IF LastRef(e) THEN [lockOf EXCEPT ![i][s] = 0]
                             ELSE lockOf
           ELSE UNCHANGED <<refs, lockOf>>
      /\ lockIn' = [lockIn EXCEPT ![t] = 0]
      /\ memOf' = [memOf EXCEPT ![t] = 0]
      /\ heap' = LiveCopies(heap, map, memOf')
      /\ caching' = caching \ {t}
      /\ SessGoto(t, "done")
      /\ UNCHANGED <<where, snapshot, map, store, order, holder, histVars,
                     podOf, cache, sessFaults>>

----------------------------------------------------------------------------
(* GetSimpleMemory, under the mutex of the process's map *)

Without(seq, s) == SelectSeq(seq, LAMBDA x : x # s)

Recent(i, s) == [order EXCEPT ![i] = Append(Without(@, s), s)]

EvictFor(i, s) ==
  IF Len(order[i]) >= MaxSessions
    THEN [map EXCEPT ![i][Head(order[i])] = 0, ![i][s] = NewId(CopiesInUse)]
    ELSE [map EXCEPT ![i][s] = NewId(CopiesInUse)]

EvictedOrder(i, s) ==
  [order EXCEPT ![i] =
     Append(IF Len(@) >= MaxSessions THEN Tail(@) ELSE @, s)]

LoadedM(s) == Empty
Loaded(s) == store[s]

Persists(t) == at[t] \in {"append", "marshal", "set"}

GetSimpleMemory(t) ==
  LET i == where[t]
      s == SessionOf[t]
      n == NewId(CopiesInUse)
  IN  /\ \/ /\ map[i][s] # 0
            /\ memOf' = [memOf EXCEPT ![t] = map[i][s]]
            /\ order' = Recent(i, s)
            /\ heap' = LiveCopies(heap, map, memOf')
            /\ UNCHANGED <<map, failed, sessFaults>>
         \/ /\ map[i][s] = 0 /\ store[s] # Empty
            /\ map' = [map EXCEPT ![i][s] = n]
            /\ memOf' = [memOf EXCEPT ![t] = n]
            /\ heap' = LiveCopies([heap EXCEPT ![n] = Loaded(s)], map', memOf')
            /\ order' = Recent(i, s)
            /\ UNCHANGED <<failed, sessFaults>>
         \/ /\ map[i][s] = 0
            /\ IF store[s] = Empty
                 THEN UNCHANGED <<failed, sessFaults>>
                 ELSE SessFault("redis") /\ failed' = failed \cup {s}
            /\ map' = EvictFor(i, s)
            /\ memOf' = [memOf EXCEPT ![t] = n]
            /\ heap' = LiveCopies([heap EXCEPT ![n] = Empty], map', memOf')
            /\ order' = EvictedOrder(i, s)
      /\ overlaps' =
           IF /\ at[t] = "get" \/ map[i][s] = 0
              /\ \E u \in SessTurns \ {t} : SessionOf[u] = s /\ Persists(u)
             THEN overlaps \cup {s} ELSE overlaps

----------------------------------------------------------------------------
(* HandleChat under the lock *)

Key(t) == <<SessionOf[t], QuestionOf[t]>>

\* A cached answer ends the turn.  Otherwise the conversation so far becomes
\* part of the prompt.  A stream, and small talk, use no cache.
Read(t) ==
  /\ at[t] = "locked"
  /\ GetSimpleMemory(t)
  /\ \/ /\ cache[Key(t)] # NoTurn
        /\ SessGoto(t, "unlock")
        /\ UNCHANGED caching
     \/ /\ SessGoto(t, "agent")
        /\ \/ cache[Key(t)] = NoTurn /\ caching' = caching \cup {t}
           \/ UNCHANGED caching
  /\ UNCHANGED <<where, snapshot, store, lockVars, completed, podOf, cache>>

AfterAnswer(t) == "get"

Agent(t) ==
  /\ at[t] = "agent"
  /\ SessGoto(t, AfterAnswer(t)) \/ SessGoto(t, "unlock")
  /\ UNCHANGED <<where, memOf, snapshot, caching, memVars, lockVars, histVars,
                 podOf, cache, sessFaults>>

----------------------------------------------------------------------------
(* PersistOutcome *)

\* The copy is looked up once more.
Get(t) ==
  /\ at[t] = "get"
  /\ GetSimpleMemory(t)
  /\ SessGoto(t, "append")
  /\ UNCHANGED <<where, snapshot, caching, store, lockVars, completed,
                 podOf, cache>>

Trimmed(copy) ==
  IF Len(copy.window) > WindowPairs
    THEN [window |-> Tail(copy.window),
          summary |-> copy.summary \cup {Head(copy.window)}]
    ELSE copy

WithPair(copy, t) ==
  Trimmed([copy EXCEPT !.window = Append(copy.window, t)])

AddPair(t) ==
  /\ at[t] = "append"
  /\ heap' = [heap EXCEPT ![memOf[t]] = WithPair(@, t)]
  /\ SessGoto(t, "marshal")
  /\ UNCHANGED <<where, memOf, snapshot, caching, map, store, order, lockVars,
                 histVars, podOf, cache, sessFaults>>

\* toWire takes the copy's mutex; the SET comes after.
Marshal(t) ==
  /\ at[t] = "marshal"
  /\ snapshot' = [snapshot EXCEPT ![t] = heap[memOf[t]]]
  /\ SessGoto(t, "set")
  /\ UNCHANGED <<where, memOf, caching, memVars, lockVars, histVars, podOf,
                 cache, sessFaults>>

\* A failed SET is only logged.  An AIOps turn ends here.
Set(t) ==
  /\ at[t] = "set"
  /\ \/ /\ store' = [store EXCEPT ![SessionOf[t]] = snapshot[t]]
        /\ UNCHANGED <<failed, sessFaults>>
     \/ /\ SessFault("redis")
        /\ failed' = failed \cup {SessionOf[t]}
        /\ UNCHANGED store
  /\ completed' = completed \cup {t}
  /\ memOf' = [memOf EXCEPT ![t] = 0]
  /\ snapshot' = [snapshot EXCEPT ![t] = Empty]
  /\ SessGoto(t, IF t \in OpsTurns THEN "done"
                 ELSE IF t \in caching THEN "cache" ELSE "unlock")
  /\ heap' = LiveCopies(heap, map, memOf')
  /\ UNCHANGED <<where, caching, map, order, lockVars, overlaps, podOf, cache>>

StoreChatResponse(t) ==
  /\ at[t] = "cache"
  /\ cache' = [cache EXCEPT ![Key(t)] = t]
  /\ SessGoto(t, "unlock")
  /\ UNCHANGED <<where, memOf, snapshot, caching, memVars, lockVars, histVars,
                 podOf, sessFaults>>

----------------------------------------------------------------------------
(* The environment *)

Active(t) == at[t] \notin {"new", "done", "dead"}

\* A process dies with its turns, copies and locks; its sessions move.
PodCrash(i) ==
  LET dead == {t \in SessTurns : Active(t) /\ where[t] = i}
  IN  /\ SessFault("crash")
      /\ at' = [t \in SessTurns |-> IF t \in dead THEN "dead" ELSE at[t]]
      /\ memOf' = [t \in SessTurns |-> IF t \in dead THEN 0 ELSE memOf[t]]
      /\ snapshot' = [t \in SessTurns |-> IF t \in dead THEN Empty ELSE snapshot[t]]
      /\ lockIn' = [t \in SessTurns |-> IF t \in dead THEN 0 ELSE lockIn[t]]
      /\ map' = [map EXCEPT ![i] = [s \in Sessions |-> 0]]
      /\ order' = [order EXCEPT ![i] = <<>>]
      /\ lockOf' = [lockOf EXCEPT ![i] = [s \in Sessions |-> 0]]
      /\ holder' = [e \in CopyIds |-> IF holder[e] \in dead THEN NoTurn ELSE holder[e]]
      /\ refs' = [e \in CopyIds |->
           IF \E s \in Sessions : lockOf[i][s] = e THEN 0 ELSE refs[e]]
      /\ \E j \in Pods \ {i} :
           podOf' = [s \in Sessions |-> IF podOf[s] = i THEN j ELSE podOf[s]]
      /\ heap' = LiveCopies(heap, map', memOf')
      /\ UNCHANGED <<where, caching, store, cache, histVars>>

\* The periodic clean-up drops a session nobody has touched for two hours.
IdleOut(i, s) ==
  /\ map[i][s] # 0
  /\ SessFault("idle")
  /\ \A t \in SessTurns : SessionOf[t] = s /\ where[t] = i => ~Active(t)
  /\ map' = [map EXCEPT ![i][s] = 0]
  /\ order' = [order EXCEPT ![i] = Without(@, s)]
  /\ heap' = LiveCopies(heap, map', memOf)
  /\ UNCHANGED <<askVars, store, lockVars, histVars, podOf, cache>>

CacheExpires ==
  /\ \E k \in DOMAIN cache :
       cache[k] # NoTurn /\ cache' = [cache EXCEPT ![k] = NoTurn]
  /\ UNCHANGED <<askVars, memVars, lockVars, histVars, podOf, sessFaults>>

----------------------------------------------------------------------------

SessInit ==
  /\ at = [t \in SessTurns |-> "new"]
  /\ where \in [SessTurns -> {CHOOSE i \in Pods : TRUE}]
  /\ podOf = [s \in Sessions |-> CHOOSE i \in Pods : TRUE]
  /\ map = [i \in Pods |-> [s \in Sessions |-> 0]]
  /\ heap = [n \in CopyIds |-> Empty]
  /\ memOf = [t \in SessTurns |-> 0]
  /\ snapshot = [t \in SessTurns |-> Empty]
  /\ store = [s \in Sessions |-> Empty]
  /\ order = [i \in Pods |-> <<>>]
  /\ lockOf = [i \in Pods |-> [s \in Sessions |-> 0]]
  /\ lockIn = [t \in SessTurns |-> 0]
  /\ refs = [e \in CopyIds |-> 0]
  /\ holder = [e \in CopyIds |-> NoTurn]
  /\ caching = {}
  /\ cache = [k \in {Key(t) : t \in SessTurns} |-> NoTurn]
  /\ completed = {}
  /\ failed = {}
  /\ overlaps = {}
  /\ sessFaults = 0

TurnStep(t) ==
  \/ Lock(t) \/ Read(t) \/ Agent(t) \/ Get(t) \/ AddPair(t) \/ Marshal(t)
  \/ Set(t) \/ StoreChatResponse(t) \/ Unlock(t) \/ Unref(t)

SessNext ==
  \/ \E t \in SessTurns : Arrive(t) \/ TurnStep(t)
  \/ \E i \in Pods : PodCrash(i) \/ \E s \in Sessions : IdleOut(i, s)
  \/ CacheExpires

SessSpec == SessInit /\ [][SessNext]_sessVars

\* Turns go on: the scheduler runs every goroutine.
FairSessSpec == SessSpec /\ \A t \in SessTurns : WF_sessVars(TurnStep(t))

----------------------------------------------------------------------------
(* Properties *)

InLock(t) == t \notin OpsTurns /\ at[t] \in
  {"locked", "agent", "get", "append", "marshal", "set", "cache", "unlock"}

\* One chat turn of a session at a time in a process, although the lock's
\* entry is deleted and made anew while turns come and go.
SessionExclusive ==
  \A t, u \in SessTurns :
    InLock(t) /\ InLock(u) /\ where[t] = where[u] /\ SessionOf[t] = SessionOf[u]
      => t = u

\* A lock entry counts its users, so that it lives exactly as long as they.
EntriesCountUsers ==
  \A i \in Pods, s \in Sessions :
    lockOf[i][s] # 0 =>
      refs[lockOf[i][s]] = Cardinality({t \in SessTurns : lockIn[t] = lockOf[i][s]})

\* A chat turn sees what was said before: each turn of its session completed
\* by then is in the conversation it reads, over evictions, clean-ups and a
\* move to another process, unless a write of the session failed or two were
\* under way at once.
TurnSeesPredecessors ==
  [][\A t \in SessTurns :
       /\ at[t] = "locked" /\ at'[t] = "agent"
       /\ SessionOf[t] \notin failed' \cup overlaps'
       => {u \in completed : SessionOf[u] = SessionOf[t]}
            \subseteq Remembered(heap'[memOf'[t]])]_sessVars

=============================================================================
