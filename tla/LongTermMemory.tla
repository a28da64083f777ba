-------------------------- MODULE LongTermMemory --------------------------
(***************************************************************************)
(* The long-term memory of one process (internal/ai/memory/long_term*.go): *)
(* the entries and their per-session index, kept under one mutex, the      *)
(* backing store (a Redis hash or a JSON file) that every operation writes *)
(* through to and that is read once, at start, and the extraction workers  *)
(* that list the memories, let a model decide and then apply the decision  *)
(* operation by operation (agent_applier.go).                              *)
(*                                                                         *)
(* The identifier of a memory is a hash of the place it was stated for     *)
(* (scope and scope id) and of its content: here, the pair of the two.     *)
(* What decides which entry an eviction takes (relevance, from the last    *)
(* use and the access count) is left open: any candidate may go.           *)
(***************************************************************************)
EXTENDS Naturals, FiniteSets, FiniteSetsExt

CONSTANTS
    Contents,      \* the contents a memory may have
    Types,         \* the types a statement may give it: fact, preference, ...
    Groups,        \* the conflict groups a statement may put it in
    NoGroup,       \* the empty group, which may be one of them
    LtmSessions,   \* sessions; a session is also a place
    WidePlaces,    \* the places wider than a session (user, project, global)
    LtmWorkers,    \* extraction jobs that run at once
    NoEntry,       \* a worker without a decision, a missing entry
    MaxEntries,    \* memory.long_term_max_entries
    MaxPerSession, \* memory.long_term_max_entries_per_session
    LtmMaxFaults,  \* bound: failed writes, failed reads of the store, restarts
    LtmMaxStores   \* bound: memories stated

ASSUME CapsAssumption == MaxEntries \in Nat \ {0} /\ MaxPerSession \in Nat \ {0}
ASSUME MemoriesAssumption ==
    /\ IsFiniteSet(Contents) /\ IsFiniteSet(LtmSessions) /\ IsFiniteSet(WidePlaces)
    /\ LtmMaxFaults \in Nat /\ LtmMaxStores \in Nat

Places == LtmSessions \cup WidePlaces
Ids == Places \X Contents

\* "past": expires_at has been reached; the others are still retrieved
Expiries == {"never", "later", "past"}

Entries == [place: Places, session: LtmSessions, type: Types, group: Groups,
            expires: Expiries, label: {"internal", "disabled", "superseded"}]

\* What a caller of StoreWithOptions gives beside its session.  The model that
\* decides names the type, the group and the expiry (only a group it leaves
\* empty is inferred), so the same content may come with others the next time.
Statements == [place: Places, content: Contents, type: Types, group: Groups,
               expires: {"never", "later"}]

IdOf(st) == <<st.place, st.content>>

\* What a worker was told to do, for which session and to which memory.  What
\* it states is any statement, so it is chosen only when it is applied.
Decisions == [op: {"upsert", "supersede", "promote"}, target: Ids \cup {NoEntry},
              session: LtmSessions]

ASSUME NoEntryAssumption == NoEntry \notin Entries \cup Ids \cup Decisions

VARIABLES
    mem,       \* [Ids -> an entry or NoEntry]: ltm.entries
    byOwner,   \* [LtmSessions -> a set of ids]: ltm.index
    disk,      \* [Ids -> an entry or NoEntry]: the backing store
    dirty,     \* history: the ids whose last write or deletion failed
    excused,   \* history: the ids promoted, brought back otherwise than they
               \* were known, or last stated under another type than their own
    decided,   \* [LtmWorkers -> the decision left to apply, or NoEntry]
    ltmFaults, stores

ltmVars == <<mem, byOwner, disk, dirty, excused, decided, ltmFaults, stores>>

Known == {id \in Ids : mem[id] # NoEntry}
Live(e) == e # NoEntry /\ e.expires # "past"

LtmInit ==
    /\ mem = [id \in Ids |-> NoEntry] /\ disk = mem
    /\ byOwner = [s \in LtmSessions |-> {}]
    /\ dirty = {} /\ excused = {}
    /\ decided = [w \in LtmWorkers |-> NoEntry]
    /\ ltmFaults = 0 /\ stores = 0

---------------------------------------------------------------------------
(* Writing through *)

\* The owners' index after removing the entries "gone" and adding one for s:
\* removeEntryLocked, and the append of StoreWithOptions
Reindexed(gone, s, added) ==
    [o \in LtmSessions |->
        (byOwner[o] \ gone) \cup (IF o = s THEN added ELSE {})]

\* persistChangesLocked: the entries to save are saved in one call, those to
\* delete in another; either may fail, which is only logged
Persist(upserts, deletes) ==
    \E saved, deleted \in BOOLEAN :
        /\ (upserts = {}) => saved
        /\ (deletes = {}) => deleted
        /\ LET failed == (IF saved THEN 0 ELSE 1) + (IF deleted THEN 0 ELSE 1)
               done == (IF saved THEN upserts ELSE {}) \cup (IF deleted THEN deletes ELSE {})
           IN  /\ ltmFaults + failed <= LtmMaxFaults
               /\ ltmFaults' = ltmFaults + failed
               /\ disk' = [id \in Ids |-> IF id \in done THEN mem'[id] ELSE disk[id]]
               /\ dirty' = (dirty \ done) \cup ((upserts \cup deletes) \ done)

---------------------------------------------------------------------------
(* StoreWithOptions *)

RivalsM(id, st) ==
    {r \in Known \ {id} : /\ st.group # NoGroup
                          /\ mem[r].type = st.type /\ mem[r].group = st.group
                          /\ mem[r].place = st.place /\ st.place \in LtmSessions}

\* retireConflictingMemoriesLocked: the other memories of the statement's type,
\* group and place, whatever their state
Rivals(id, st) ==
    {r \in Known \ {id} : /\ st.group # NoGroup
                          /\ mem[r].type = st.type /\ mem[r].group = st.group
                          /\ mem[r].place = st.place}

Retired(e) == [e EXCEPT !.label = "superseded", !.expires = "past"]

SavedWithM(id, rivals) == {id}

\* The entries to save with the stored one: every rival retired
SavedWith(id, rivals) == {id} \cup rivals

ExcessM(set, cap) == IF Cardinality(set) >= cap THEN 1 ELSE 0

\* evictIfNeededLocked: room is made in the session first, then in the whole
\* memory, until one more entry fits
Excess(set, cap) == IF Cardinality(set) >= cap THEN Cardinality(set) + 1 - cap ELSE 0

Evictions(s) ==
    {q[1] \cup q[2] : q \in
        {p \in kSubset(Excess(byOwner[s], MaxPerSession), byOwner[s]) \X SUBSET Known :
            /\ p[1] \cap p[2] = {}
            /\ Cardinality(p[2]) = Excess(Known \ p[1], MaxEntries)}}

\* The known entry, reinforced: it keeps its type whatever the statement says,
\* and its expiry unless the statement gives one
Reinforced(e, st) ==
    [e EXCEPT !.place = st.place, !.group = st.group, !.label = "internal",
              !.expires = IF st.expires = "never" THEN @ ELSE st.expires]

Reinforce(st) ==
    LET id == IdOf(st)
        rivals == Rivals(id, st)
    IN  /\ mem[id] # NoEntry
        /\ mem' = [i \in Ids |-> IF i = id THEN Reinforced(mem[id], st)
                                 ELSE IF i \in rivals THEN Retired(mem[i])
                                 ELSE mem[i]]
        /\ excused' = IF mem[id].type = st.type THEN excused \ {id}
                      ELSE excused \cup {id}
        /\ byOwner' = byOwner
        /\ Persist(SavedWith(id, rivals), {})

Stated(s, st) == [place |-> st.place, session |-> s, type |-> st.type,
                  group |-> st.group, expires |-> st.expires, label |-> "internal"]

StoreNew(s, st) ==
    LET id == IdOf(st) IN
    /\ mem[id] = NoEntry
    /\ \E gone \in Evictions(s) :
        LET rivals == Rivals(id, st) \ gone IN
        /\ mem' = [i \in Ids |-> IF i = id THEN Stated(s, st)
                                 ELSE IF i \in gone THEN NoEntry
                                 ELSE IF i \in rivals THEN Retired(mem[i])
                                 ELSE mem[i]]
        /\ byOwner' = Reindexed(gone, s, {id})
        /\ Persist(SavedWith(id, rivals), gone)
    /\ excused' = excused \ {id}

Store(s, st) ==
    /\ stores < LtmMaxStores /\ stores' = stores + 1
    /\ Reinforce(st) \/ StoreNew(s, st)

---------------------------------------------------------------------------
(* Disable, Promote, Delete: the operations of the memory API, and the      *)
(* first two also of an extraction worker. An unknown id changes nothing.   *)

\* One entry rewritten in place and saved
Rewrite(id, entry) ==
    /\ mem' = [mem EXCEPT ![id] = entry]
    /\ Persist({id}, {})
    /\ UNCHANGED <<byOwner, stores>>

Disable(id) ==
    /\ Rewrite(id, [mem[id] EXCEPT !.label = "disabled", !.expires = "past"])
    /\ UNCHANGED excused

Promoted(e, place) == [e EXCEPT !.place = place, !.label = "internal"]

Promote(id, place) ==
    /\ Rewrite(id, Promoted(mem[id], place))
    /\ excused' = excused \cup {id}

Delete(id) ==
    /\ mem' = [mem EXCEPT ![id] = NoEntry]
    /\ byOwner' = Reindexed({id}, mem[id].session, {})
    /\ Persist({}, {id})
    /\ UNCHANGED <<excused, stores>>

UserCall ==
    /\ \E id \in Known : Disable(id) \/ Delete(id) \/ \E p \in WidePlaces : Promote(id, p)
    /\ UNCHANGED decided

---------------------------------------------------------------------------
(* An extraction worker *)

\* withExistingMemories and Decide: the targets offered are the memories live
\* when the list was read, in the session's place or a wider one
Decide(w) ==
    /\ decided[w] = NoEntry
    /\ \E d \in Decisions :
        /\ d.op = "upsert" => d.target = NoEntry
        /\ d.op # "upsert" => /\ d.target \in {id \in Known : Live(mem[id])}
                              /\ mem[d.target].place \in WidePlaces \cup {d.session}
        /\ d.op # "promote" => stores < LtmMaxStores
        /\ decided' = [decided EXCEPT ![w] = d]
    /\ UNCHANGED <<mem, byOwner, disk, dirty, excused, ltmFaults, stores>>

\* applySupersede: the target is disabled, and then the replacement is stored,
\* each under the mutex, others in between
ApplyDisable(w) ==
    LET d == decided[w] IN
    /\ d # NoEntry /\ d.op = "supersede"
    /\ IF mem[d.target] # NoEntry THEN Disable(d.target)
       ELSE UNCHANGED <<mem, byOwner, disk, dirty, excused, ltmFaults, stores>>
    /\ decided' = [decided EXCEPT ![w] = [d EXCEPT !.op = "upsert", !.target = NoEntry]]

ApplyUpsert(w) ==
    LET d == decided[w] IN
    /\ d # NoEntry /\ d.op = "upsert"
    /\ \E st \in Statements :
        st.place \in WidePlaces \cup {d.session} /\ Store(d.session, st)
    /\ decided' = [decided EXCEPT ![w] = NoEntry]

\* applyPromote
ApplyPromote(w) ==
    LET d == decided[w] IN
    /\ d # NoEntry /\ d.op = "promote"
    /\ IF mem[d.target] # NoEntry THEN \E p \in WidePlaces : Promote(d.target, p)
       ELSE UNCHANGED <<mem, byOwner, disk, dirty, excused, ltmFaults, stores>>
    /\ decided' = [decided EXCEPT ![w] = NoEntry]

Apply(w) == ApplyDisable(w) \/ ApplyUpsert(w) \/ ApplyPromote(w)

---------------------------------------------------------------------------
(* Time and restarts *)

Expire ==
    /\ \E id \in Known :
        /\ mem[id].expires = "later"
        /\ mem' = [mem EXCEPT ![id].expires = "past"]
        \* the store holds the same moment, reached for it too
        /\ disk' = IF disk[id] # NoEntry /\ disk[id].expires = "later"
                   THEN [disk EXCEPT ![id].expires = "past"] ELSE disk
    /\ UNCHANGED <<byOwner, dirty, excused, decided, ltmFaults, stores>>

\* What the next process reads of the store: LoadAll gives up when the list of
\* identifiers or the file cannot be read, which is only logged, and passes over
\* each entry whose own read fails
Loaded(missed) == [id \in Ids |-> IF id \in missed THEN NoEntry ELSE disk[id]]

\* What addLoadedEntryLocked indexes
LoadedIndex(entries) ==
    [s \in LtmSessions |-> {id \in Ids : entries[id] # NoEntry /\ entries[id].session = s}]

\* A process ends and the next one, which starts to write with what it could
\* read, knows only that
Restart ==
    \E missed \in SUBSET {id \in Ids : disk[id] # NoEntry} :
        LET failed == IF missed = {} THEN 0 ELSE 1 IN
        /\ ltmFaults + 1 + failed <= LtmMaxFaults
        /\ ltmFaults' = ltmFaults + 1 + failed
        /\ mem' = Loaded(missed) /\ byOwner' = LoadedIndex(mem')
        /\ dirty' = missed
        /\ excused' = excused \cup {id \in Ids : mem'[id] # mem[id]}
        /\ decided' = [w \in LtmWorkers |-> NoEntry]
        /\ UNCHANGED <<disk, stores>>

LtmNext ==
    \/ \E w \in LtmWorkers : Decide(w) \/ Apply(w)
    \/ UserCall
    \/ Expire
    \/ Restart

LtmSpec == LtmInit /\ [][LtmNext]_ltmVars

FairLtmSpec == LtmSpec /\ \A w \in LtmWorkers : WF_ltmVars(Apply(w))

---------------------------------------------------------------------------
(* Properties *)

\* The shape of the memory, its index and its store
LtmTypeOK ==
    /\ mem \in [Ids -> Entries \cup {NoEntry}] /\ disk \in [Ids -> Entries \cup {NoEntry}]
    /\ byOwner \in [LtmSessions -> SUBSET Ids]
    /\ dirty \in SUBSET Ids /\ excused \in SUBSET Ids
    /\ decided \in [LtmWorkers -> Decisions \cup {NoEntry}]
    /\ ltmFaults \in 0..LtmMaxFaults /\ stores \in 0..LtmMaxStores

\* The index names the entries of the session that stated them and nothing
\* else, whatever was promoted, evicted, deleted or reloaded: the eviction
\* loop of a session counts the index and removes entries, so an identifier
\* without an entry would make it run for ever under the mutex
IndexMatchesEntries ==
    \A s \in LtmSessions : byOwner[s] = {id \in Known : mem[id].session = s}

\* Two memories of one type and group that are both retrieved in one place
ContendIn(a, b) ==
    /\ a # b /\ Live(mem[a]) /\ Live(mem[b])
    /\ mem[a].type = mem[b].type
    /\ mem[a].group = mem[b].group /\ mem[a].group # NoGroup
    /\ mem[a].place = mem[b].place

\* Of two such memories one was promoted there, came back with a restart
\* otherwise than the process had known it, or was stated again under another
\* type than the one it keeps: a memory stated under its type in a place retires
\* every other one of its type and group there, also one that another worker
\* stated, promoted or superseded since this one's decision was made
GroupExclusive ==
    \A a, b \in Known : ContendIn(a, b) => a \in excused \/ b \in excused

\* What a restart would bring back is what the process holds, except for the
\* entries whose last write or deletion failed and those that the process
\* itself could not read when it started: every operation saves all it changed
StoreMirrorsMemory == \A id \in Ids \ dirty : disk[id] = mem[id]

\* A memory stated for the first time leaves both limits respected, also after
\* failed deletions and a restart that therefore loaded more than they allow
CapsAfterStore ==
    [][\A id \in Ids : stores' > stores /\ mem[id] = NoEntry /\ mem'[id] # NoEntry =>
         /\ Cardinality({i \in Ids : mem'[i] # NoEntry}) <= MaxEntries
         /\ Cardinality(byOwner'[mem'[id].session]) <= MaxPerSession]_ltmVars

\* A memory that a rival had superseded and that is stated again is retrieved
\* afterwards: the newest statement of a group wins
RestatedMemoryLives ==
    [][\A id \in Known : /\ stores' > stores
                         /\ mem[id].label = "superseded" /\ mem'[id].label = "internal"
                         => Live(mem'[id])]_ltmVars
===========================================================================
