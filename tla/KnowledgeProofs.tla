-------------------------- MODULE KnowledgeProofs --------------------------
(***************************************************************************)
(* What the two stores of knowledge keep, for any number of their users    *)
(* and whatever fails: the long-term memory its index, its conflict        *)
(* groups, its store and its limits; the uploaded documents a status that  *)
(* is true, and a record for whatever can be retrieved.                    *)
(***************************************************************************)
EXTENDS LongTermMemory, KnowledgeBase, GosEngine, FiniteSetTheorems, TLAPS

USE CapsAssumption, MemoriesAssumption, NoEntryAssumption
USE UploadsAssumption, KbFaultsAssumption

----------------------------------------------------------------------------
(* The operators *)

\* What the operations make of an entry is an entry of the same session.
LEMMA EntryEnded ==
  ASSUME NEW e \in Entries
  PROVE  /\ Retired(e) \in Entries /\ Retired(e).session = e.session
         /\ ~Live(Retired(e))
         /\ [e EXCEPT !.label = "disabled", !.expires = "past"] \in Entries
         /\ [e EXCEPT !.label = "disabled", !.expires = "past"].session = e.session
         /\ ~Live([e EXCEPT !.label = "disabled", !.expires = "past"])
         /\ [e EXCEPT !.expires = "past"] \in Entries
         /\ [e EXCEPT !.expires = "past"].session = e.session
         /\ ~Live([e EXCEPT !.expires = "past"])
BY DEF Entries, Expiries, Retired, Live

LEMMA EntryMoved ==
  ASSUME NEW e \in Entries, NEW p \in Places
  PROVE  Promoted(e, p) \in Entries /\ Promoted(e, p).session = e.session
BY DEF Entries, Promoted

LEMMA EntryRestated ==
  ASSUME NEW e \in Entries, NEW st \in Statements
  PROVE  /\ Reinforced(e, st) \in Entries
         /\ Reinforced(e, st).session = e.session
         /\ Reinforced(e, st).type = e.type /\ Reinforced(e, st).group = st.group
         /\ Reinforced(e, st).place = st.place
BY DEF Entries, Expiries, Reinforced, Statements

LEMMA EntryStated ==
  ASSUME NEW s \in LtmSessions, NEW st \in Statements
  PROVE  /\ Stated(s, st) \in Entries /\ Stated(s, st) # NoEntry
         /\ Stated(s, st).session = s /\ Stated(s, st).type = st.type
         /\ Stated(s, st).group = st.group /\ Stated(s, st).place = st.place
BY DEF Entries, Expiries, Stated, Statements

LEMMA IdTyped ==
  ASSUME NEW st \in Statements
  PROVE  IdOf(st) \in Ids
BY DEF IdOf, Ids, Statements

\* There are finitely many identifiers.
LEMMA FiniteIds == IsFiniteSet(Ids)
<1>1. IsFiniteSet(Places)
  BY FS_Union DEF Places
<1> QED BY <1>1, FS_Product DEF Ids

\* Removing what Excess asks for makes room for one more.
LEMMA RoomMade ==
  ASSUME NEW S, IsFiniteSet(S), NEW cap \in Nat \ {0}, NEW T \in SUBSET S,
         Cardinality(T) = Excess(S, cap), NEW x
  PROVE  /\ IsFiniteSet((S \ T) \cup {x})
         /\ Cardinality((S \ T) \cup {x}) <= cap
<1>1. Cardinality(S \ T) = Cardinality(S) - Cardinality(T) /\ IsFiniteSet(S \ T)
  <2>1. S \cap T = T
    OBVIOUS
  <2> QED BY <2>1, FS_Difference
<1>2. Cardinality(S) \in Nat /\ Cardinality(S \ T) \in Nat
  BY <1>1, FS_CardinalityType
<1>3. Cardinality(S \ T) + 1 <= cap
  BY <1>1, <1>2 DEF Excess
<1>4. /\ IsFiniteSet((S \ T) \cup {x})
      /\ Cardinality((S \ T) \cup {x}) <= Cardinality(S \ T) + 1
  <2> DEFINE R == S \ T
  <2>1. IsFiniteSet(R) /\ Cardinality(R) \in Nat
    BY <1>1, <1>2
  <2> HIDE DEF R
  <2>2. /\ IsFiniteSet(R \cup {x})
        /\ Cardinality(R \cup {x}) \in {Cardinality(R), Cardinality(R) + 1}
    BY <2>1, FS_AddElement
  <2>3. IsFiniteSet(R \cup {x}) /\ Cardinality(R \cup {x}) <= Cardinality(R) + 1
    BY <2>1, <2>2
  <2> QED BY <2>3 DEF R
<1>5. Cardinality((S \ T) \cup {x}) \in Nat
  BY <1>4, FS_CardinalityType
<1> QED BY <1>2, <1>3, <1>4, <1>5

----------------------------------------------------------------------------
(* Writing through *)

\* Shapes and counters after a write.
LEMMA PersistShape ==
  ASSUME LtmTypeOK, NEW U \in SUBSET Ids, NEW D \in SUBSET Ids, Persist(U, D),
         mem' \in [Ids -> Entries \cup {NoEntry}]
  PROVE  /\ disk' \in [Ids -> Entries \cup {NoEntry}]
         /\ dirty' \in SUBSET Ids
         /\ ltmFaults' \in 0..LtmMaxFaults
<1>1. PICK saved \in BOOLEAN, deleted \in BOOLEAN :
        LET failures == (IF saved THEN 0 ELSE 1) + (IF deleted THEN 0 ELSE 1)
            done == (IF saved THEN U ELSE {}) \cup (IF deleted THEN D ELSE {})
        IN  /\ ltmFaults + failures <= LtmMaxFaults
            /\ ltmFaults' = ltmFaults + failures
            /\ disk' = [id \in Ids |-> IF id \in done THEN mem'[id] ELSE disk[id]]
            /\ dirty' = (dirty \ done) \cup ((U \cup D) \ done)
  BY DEF Persist
<1>2. ltmFaults' \in 0..LtmMaxFaults
  BY <1>1 DEF LtmTypeOK
<1> QED BY <1>1, <1>2 DEF LtmTypeOK

\* An operation that writes through all it changes keeps the store a mirror.
LEMMA PersistMirrors ==
  ASSUME LtmTypeOK, StoreMirrorsMemory,
         NEW U \in SUBSET Ids, NEW D \in SUBSET Ids, Persist(U, D),
         \A id \in Ids \ (U \cup D) : mem'[id] = mem[id]
  PROVE  StoreMirrorsMemory'
<1>1. PICK done \in SUBSET (U \cup D) :
        /\ disk' = [id \in Ids |-> IF id \in done THEN mem'[id] ELSE disk[id]]
        /\ dirty' = (dirty \ done) \cup ((U \cup D) \ done)
  BY DEF Persist
<1>2. SUFFICES ASSUME NEW id \in Ids, id \notin dirty'
               PROVE  disk'[id] = mem'[id]
  BY DEF StoreMirrorsMemory
<1>3. CASE id \in done
  BY <1>1, <1>3
<1>4. CASE id \notin done
  BY <1>1, <1>2, <1>4 DEF StoreMirrorsMemory
<1> QED BY <1>3, <1>4

----------------------------------------------------------------------------
(* Conflict groups *)

\* A memory stated under its own type retires its rivals and is excused no
\* longer; stated under another type, it is excused.
LEMMA StatedExclusive ==
  ASSUME LtmTypeOK, GroupExclusive, NEW st \in Statements, NEW new, new = IdOf(st),
         \/ mem'[new].type = st.type /\ excused' = excused \ {new}
         \/ excused' = excused \cup {new},
         mem'[new].place = st.place, mem'[new].group = st.group,
         \A b \in Ids \ {new} :
           \/ mem'[b] = NoEntry
           \/ ~Live(mem'[b])
           \/ b \notin Rivals(new, st) /\ mem'[b] = mem[b]
  PROVE  GroupExclusive'
<1>1. SUFFICES ASSUME NEW a \in Known', NEW b \in Known', ContendIn(a, b)'
               PROVE  a \in excused' \/ b \in excused'
  BY DEF GroupExclusive
<1>2. /\ a # b /\ Live(mem'[a]) /\ Live(mem'[b])
      /\ mem'[a].type = mem'[b].type
      /\ mem'[a].group = mem'[b].group /\ mem'[a].group # NoGroup
      /\ mem'[a].place = mem'[b].place
      /\ a \in Ids /\ b \in Ids
  BY <1>1 DEF ContendIn, Live, Known
<1>3. \A i \in {a, b} \ {new} : /\ i \in Known /\ mem'[i] = mem[i]
                               /\ i \notin Rivals(new, st)
  BY <1>1, <1>2 DEF Known
<1>4. CASE new \in excused' /\ new \in {a, b}
  BY <1>4
<1>5. CASE new \notin excused' /\ new \in {a, b}
  <2>1. mem'[new].type = st.type
    BY <1>5
  <2>2. PICK i \in {a, b} \ {new} :
          /\ mem'[i].type = st.type /\ mem'[i].group = st.group
          /\ mem'[i].place = st.place /\ st.group # NoGroup
    BY <1>2, <1>5, <2>1
  <2>3. i \in Rivals(new, st)
    BY <1>3, <2>2 DEF Rivals
  <2> QED BY <1>3, <2>3
<1>6. CASE new \notin {a, b}
  <2>1. ContendIn(a, b) /\ a \in Known /\ b \in Known
    BY <1>2, <1>3, <1>6 DEF ContendIn
  <2>2. a \in excused \/ b \in excused
    BY <2>1 DEF GroupExclusive
  <2> QED BY <1>6, <2>2
<1> QED BY <1>4, <1>5, <1>6

\* Entries removed, no longer live or newly excused harm nobody.
LEMMA OthersExclusive ==
  ASSUME GroupExclusive, excused \subseteq excused',
         \A b \in Ids : \/ mem'[b] = NoEntry
                        \/ ~Live(mem'[b])
                        \/ b \in excused'
                        \/ mem'[b] = mem[b]
  PROVE  GroupExclusive'
BY DEF GroupExclusive, ContendIn, Known, Live

----------------------------------------------------------------------------
(* The index *)

\* A step in which no entry comes, goes or changes its session.
LEMMA IndexKept ==
  ASSUME IndexMatchesEntries, UNCHANGED byOwner,
         \A id \in Ids : /\ mem'[id] = NoEntry <=> mem[id] = NoEntry
                         /\ mem[id] # NoEntry => mem'[id].session = mem[id].session
  PROVE  IndexMatchesEntries'
BY DEF IndexMatchesEntries, Known

----------------------------------------------------------------------------
(* The invariant *)

\* What a worker may be told to do: only a memory known by its identifier is
\* superseded or promoted.
Told == {d \in Decisions : d.op # "upsert" => d.target \in Ids} \cup {NoEntry}

LtmInv ==
  /\ LtmTypeOK /\ decided \in [LtmWorkers -> Told]
  /\ IndexMatchesEntries /\ StoreMirrorsMemory /\ GroupExclusive

\* A known memory stated again.
LEMMA ReinforceStep ==
  ASSUME LtmInv, NEW st \in Statements, Reinforce(st),
         stores' \in 0..LtmMaxStores, decided' \in [LtmWorkers -> Told]
  PROVE  LtmInv'
<1> DEFINE new == IdOf(st)
           rivals == Rivals(new, st)
<1>1. /\ new \in Ids /\ mem[new] # NoEntry /\ byOwner' = byOwner
      /\ rivals \subseteq Ids \ {new}
      /\ Persist({new} \cup rivals, {})
      /\ mem' = [i \in Ids |-> IF i = new THEN Reinforced(mem[new], st)
                               ELSE IF i \in rivals THEN Retired(mem[i]) ELSE mem[i]]
      /\ excused' = IF mem[new].type = st.type THEN excused \ {new}
                    ELSE excused \cup {new}
  BY IdTyped DEF Reinforce, SavedWith, Rivals, Known
<1> HIDE DEF new, rivals
<1>2. \A i \in Ids : mem[i] # NoEntry => mem[i] \in Entries
  BY DEF LtmInv, LtmTypeOK
<1>3. mem'[new] = Reinforced(mem[new], st) /\ mem[new] \in Entries
  BY <1>1, <1>2
<1>4. \A i \in rivals : mem[i] \in Entries /\ mem'[i] = Retired(mem[i])
  BY <1>1, <1>2 DEF rivals, Rivals, Known
<1>11. /\ mem'[new] \in Entries /\ mem'[new].place = st.place
       /\ mem'[new].type = mem[new].type /\ mem'[new].group = st.group
       /\ mem'[new].session = mem[new].session
  BY <1>3, EntryRestated
<1>12. \A i \in rivals : /\ mem'[i] \in Entries /\ ~Live(mem'[i])
                         /\ mem'[i].session = mem[i].session
  <2> TAKE i \in rivals
  <2>1. mem[i] \in Entries /\ mem'[i] = Retired(mem[i])
    BY <1>4
  <2> HIDE <1>3, <1>4
  <2> QED BY <2>1, EntryEnded
<1>5. \A i \in Ids \ ({new} \cup rivals) : mem'[i] = mem[i]
  BY <1>1
<1>6. mem' \in [Ids -> Entries \cup {NoEntry}]
  BY <1>1, <1>11, <1>12 DEF LtmInv, LtmTypeOK
<1>7. LtmTypeOK'
  <2>1. {new} \cup rivals \in SUBSET Ids /\ {} \in SUBSET Ids
    BY <1>1
  <2>2. /\ disk' \in [Ids -> Entries \cup {NoEntry}]
        /\ dirty' \in SUBSET Ids /\ ltmFaults' \in 0..LtmMaxFaults
    BY <1>1, <1>6, <2>1, PersistShape DEF LtmInv
  <2>3. byOwner' \in [LtmSessions -> SUBSET Ids] /\ excused' \in SUBSET Ids
    BY <1>1 DEF LtmInv, LtmTypeOK
  <2>4. decided' \in [LtmWorkers -> Decisions \cup {NoEntry}]
    BY DEF Told
  <2> QED BY <1>6, <2>2, <2>3, <2>4 DEF LtmTypeOK
<1>8. IndexMatchesEntries'
  <2>1. ASSUME NEW i \in Ids
        PROVE  /\ mem'[i] = NoEntry <=> mem[i] = NoEntry
               /\ mem[i] # NoEntry => mem'[i].session = mem[i].session
    <3>1. CASE i = new
      BY <1>1, <1>11, <3>1
    <3>2. CASE i \in rivals
      BY <1>4, <1>12, <3>2
    <3>3. CASE i \notin {new} \cup rivals
      BY <1>5, <3>3
    <3> QED BY <3>1, <3>2, <3>3
  <2> QED BY <1>1, <2>1, IndexKept DEF LtmInv
<1>9. StoreMirrorsMemory'
  BY <1>1, <1>5, PersistMirrors DEF LtmInv
<1>10. GroupExclusive'
  <2>1. \A b \in Ids \ {new} : ~Live(mem'[b]) \/ (b \notin rivals /\ mem'[b] = mem[b])
    BY <1>5, <1>12
  <2>2. \/ mem'[new].type = st.type /\ excused' = excused \ {new}
        \/ excused' = excused \cup {new}
    BY <1>1, <1>11
  <2>3. new = IdOf(st)
    BY DEF new
  <2> QED BY <1>11, <2>1, <2>2, <2>3, StatedExclusive DEF LtmInv, rivals
<1> QED BY <1>7, <1>8, <1>9, <1>10 DEF LtmInv

\* A new memory is stated, and others go to make room for it.
LEMMA StoreNewStep ==
  ASSUME LtmInv, NEW s \in LtmSessions, NEW st \in Statements, StoreNew(s, st),
         stores' \in 0..LtmMaxStores, decided' \in [LtmWorkers -> Told]
  PROVE  LtmInv'
<1> DEFINE new == IdOf(st)
           entry == Stated(s, st)
<1>1. new \in Ids /\ mem[new] = NoEntry /\ excused' = excused \ {new}
  BY IdTyped DEF StoreNew
<1>2. PICK gone \in Evictions(s) :
        LET rivals == Rivals(new, st) \ gone IN
        /\ mem' = [i \in Ids |-> IF i = new THEN entry
                                 ELSE IF i \in gone THEN NoEntry
                                 ELSE IF i \in rivals THEN Retired(mem[i]) ELSE mem[i]]
        /\ byOwner' = Reindexed(gone, s, {new})
        /\ Persist(SavedWith(new, rivals), gone)
  BY DEF StoreNew
<1> DEFINE rivals == Rivals(new, st) \ gone
<1>3. gone \subseteq Known
  <2>1. byOwner[s] \subseteq Known
    BY DEF LtmInv, IndexMatchesEntries
  <2> QED BY <2>1 DEF Evictions, kSubset
<1>4. /\ rivals \subseteq Ids \ {new} /\ new \notin gone /\ gone \subseteq Ids
      /\ Persist({new} \cup rivals, gone)
      /\ rivals \cap gone = {}
  BY <1>1, <1>2, <1>3 DEF SavedWith, Rivals, Known
<1>5. /\ entry \in Entries /\ entry # NoEntry /\ entry.session = s
      /\ entry.type = st.type /\ entry.group = st.group /\ entry.place = st.place
  BY EntryStated
<1>6. \A i \in Ids : mem[i] # NoEntry => mem[i] \in Entries
  BY DEF LtmInv, LtmTypeOK
<1>7. \A i \in rivals : mem[i] \in Entries /\ mem[i] # NoEntry
  BY <1>6 DEF Rivals, Known
<1> HIDE DEF entry
<1>8. /\ mem'[new] = entry
      /\ \A i \in gone : mem'[i] = NoEntry
      /\ \A i \in rivals : mem'[i] = Retired(mem[i])
      /\ \A i \in Ids \ ({new} \cup gone \cup rivals) : mem'[i] = mem[i]
  BY <1>1, <1>2, <1>4
<1>9. mem' \in [Ids -> Entries \cup {NoEntry}]
  BY <1>2, <1>5, <1>7, EntryEnded DEF LtmInv, LtmTypeOK
<1> HIDE DEF new, rivals
<1>14. \A i \in rivals : /\ mem'[i] \in Entries /\ mem'[i] # NoEntry
                         /\ ~Live(mem'[i]) /\ mem'[i].session = mem[i].session
  <2> TAKE i \in rivals
  <2>1. mem[i] \in Entries /\ mem'[i] = Retired(mem[i])
    BY <1>7, <1>8
  <2>2. mem'[i] \in Entries /\ ~Live(mem'[i]) /\ mem'[i].session = mem[i].session
    BY <2>1, EntryEnded
  <2> QED BY <2>2
<1>10. LtmTypeOK'
  <2>1. byOwner' \in [LtmSessions -> SUBSET Ids]
    BY <1>1, <1>2 DEF Reindexed, LtmInv, LtmTypeOK
  <2>2. ({new} \cup rivals) \in SUBSET Ids /\ gone \in SUBSET Ids
    BY <1>1, <1>4
  <2>3. /\ disk' \in [Ids -> Entries \cup {NoEntry}]
        /\ dirty' \in SUBSET Ids /\ ltmFaults' \in 0..LtmMaxFaults
    BY <1>4, <1>9, <2>2, PersistShape DEF LtmInv
  <2>4. decided' \in [LtmWorkers -> Decisions \cup {NoEntry}] /\ excused' \in SUBSET Ids
    BY <1>1 DEF Told, LtmInv, LtmTypeOK
  <2> QED BY <1>9, <2>1, <2>3, <2>4 DEF LtmTypeOK
<1>11. IndexMatchesEntries'
  <2>1. Known' = (Known \ gone) \cup {new}
    BY <1>1, <1>3, <1>4, <1>5, <1>7, <1>8, <1>14 DEF Known
  <2>2. \A i \in Known \ gone : mem'[i].session = mem[i].session
    <3> TAKE i \in Known \ gone
    <3>1. i \in Ids /\ i # new
      BY <1>1 DEF Known
    <3>2. CASE i \in rivals
      BY <1>14, <3>2
    <3>3. CASE i \notin rivals
      BY <1>8, <3>1, <3>3
    <3> QED BY <3>2, <3>3
  <2>3. byOwner' = [o \in LtmSessions |-> (byOwner[o] \ gone) \cup (IF o = s THEN {new} ELSE {})]
    BY <1>2 DEF Reindexed, new
  <2>4. ASSUME NEW o \in LtmSessions
        PROVE  byOwner'[o] = {id \in Known' : mem'[id].session = o}
    <3>1. byOwner[o] = {id \in Known : mem[id].session = o}
      BY DEF LtmInv, IndexMatchesEntries
    <3>2. mem'[new].session = s /\ new \notin Known
      BY <1>1, <1>5, <1>8 DEF Known
    <3> QED BY <2>1, <2>2, <2>3, <3>1, <3>2
  <2> QED BY <2>4 DEF IndexMatchesEntries
<1>12. StoreMirrorsMemory'
  <2>1. \A id \in Ids \ (({new} \cup rivals) \cup gone) : mem'[id] = mem[id]
    BY <1>8
  <2> QED BY <1>1, <1>4, <2>1, PersistMirrors DEF LtmInv
<1>13. GroupExclusive'
  <2>1. /\ mem'[new].place = st.place /\ mem'[new].group = st.group
        /\ mem'[new].type = st.type /\ new = IdOf(st)
    BY <1>5, <1>8 DEF new
  <2>2. \A b \in Ids \ {new} : \/ mem'[b] = NoEntry
                               \/ ~Live(mem'[b])
                               \/ b \notin Rivals(new, st) /\ mem'[b] = mem[b]
    <3> TAKE b \in Ids \ {new}
    <3>1. CASE b \in rivals
      BY <1>14, <3>1
    <3>2. CASE b \in gone
      BY <1>8, <3>2
    <3>3. CASE b \notin rivals \cup gone
      BY <1>8, <3>3 DEF rivals
    <3> QED BY <3>1, <3>2, <3>3
  <2> QED BY <1>1, <2>1, <2>2, StatedExclusive DEF LtmInv
<1> QED BY <1>10, <1>11, <1>12, <1>13 DEF LtmInv

\* Nothing that is stored, indexed or counted changes.
LEMMA LtmStutter ==
  ASSUME LtmInv, UNCHANGED <<mem, byOwner, disk, dirty, excused, ltmFaults>>,
         stores' \in 0..LtmMaxStores, decided' \in [LtmWorkers -> Told]
  PROVE  LtmInv'
<1>1. decided' \in [LtmWorkers -> Decisions \cup {NoEntry}]
  BY DEF Told
<1>2. LtmTypeOK'
  BY <1>1 DEF LtmInv, LtmTypeOK
<1>3. IndexMatchesEntries'
  BY IndexKept DEF LtmInv
<1>4. StoreMirrorsMemory'
  BY DEF LtmInv, StoreMirrorsMemory
<1>5. GroupExclusive'
  BY OthersExclusive DEF LtmInv
<1> QED BY <1>2, <1>3, <1>4, <1>5 DEF LtmInv

\* One entry rewritten, without a change of session: it is no longer live, or
\* excused from now on.
LEMMA RewriteStep ==
  ASSUME LtmInv, NEW id \in Known, NEW e \in Entries, e.session = mem[id].session,
         Rewrite(id, e), excused' \in SUBSET Ids, excused \subseteq excused',
         ~Live(e) \/ id \in excused',
         decided' \in [LtmWorkers -> Told]
  PROVE  LtmInv'
<1>1. /\ mem' = [mem EXCEPT ![id] = e] /\ Persist({id}, {})
      /\ UNCHANGED <<byOwner, stores>> /\ id \in Ids /\ e # NoEntry
      /\ mem[id] # NoEntry
  BY DEF Rewrite, Known
<1>2. /\ mem'[id] = e /\ \A i \in Ids \ {id} : mem'[i] = mem[i]
      /\ mem' \in [Ids -> Entries \cup {NoEntry}]
  BY <1>1 DEF LtmInv, LtmTypeOK
<1>3. LtmTypeOK'
  <2>1. /\ disk' \in [Ids -> Entries \cup {NoEntry}]
        /\ dirty' \in SUBSET Ids /\ ltmFaults' \in 0..LtmMaxFaults
    BY <1>1, <1>2, PersistShape DEF LtmInv
  <2>2. decided' \in [LtmWorkers -> Decisions \cup {NoEntry}]
    BY DEF Told
  <2>3. byOwner' \in [LtmSessions -> SUBSET Ids] /\ stores' \in 0..LtmMaxStores
    BY <1>1 DEF LtmInv, LtmTypeOK
  <2> QED BY <1>2, <2>1, <2>2, <2>3 DEF LtmTypeOK
<1>4. IndexMatchesEntries'
  BY <1>1, <1>2, IndexKept DEF LtmInv
<1>5. StoreMirrorsMemory'
  BY <1>1, <1>2, PersistMirrors DEF LtmInv
<1>6. GroupExclusive'
  BY <1>2, OthersExclusive DEF LtmInv
<1> QED BY <1>3, <1>4, <1>5, <1>6 DEF LtmInv

\* The operations of the memory API and of the workers.
LEMMA DisableStep ==
  ASSUME LtmInv, NEW id \in Known, Disable(id),
         decided' \in [LtmWorkers -> Told]
  PROVE  LtmInv'
<1> DEFINE e == [mem[id] EXCEPT !.label = "disabled", !.expires = "past"]
<1>1. mem[id] \in Entries
  BY DEF Known, LtmInv, LtmTypeOK
<1>2. e \in Entries /\ e.session = mem[id].session /\ ~Live(e)
  BY <1>1, EntryEnded
<1>3. Rewrite(id, e) /\ excused' = excused /\ excused' \in SUBSET Ids
  BY DEF Disable, LtmInv, LtmTypeOK
<1> HIDE DEF e
<1> QED BY <1>2, <1>3, RewriteStep

LEMMA PromoteStep ==
  ASSUME LtmInv, NEW id \in Known, NEW p \in Places, Promote(id, p),
         decided' \in [LtmWorkers -> Told]
  PROVE  LtmInv'
<1> DEFINE e == Promoted(mem[id], p)
<1>1. mem[id] \in Entries
  BY DEF Known, LtmInv, LtmTypeOK
<1>2. e \in Entries /\ e.session = mem[id].session
  BY <1>1, EntryMoved
<1>3. Rewrite(id, e) /\ excused' = excused \cup {id} /\ excused' \in SUBSET Ids
  BY DEF Promote, LtmInv, LtmTypeOK, Known
<1> HIDE DEF e
<1> QED BY <1>2, <1>3, RewriteStep

LEMMA DeleteStep ==
  ASSUME LtmInv, NEW id \in Known, Delete(id),
         decided' \in [LtmWorkers -> Told]
  PROVE  LtmInv'
<1>1. /\ mem' = [mem EXCEPT ![id] = NoEntry] /\ Persist({}, {id})
      /\ byOwner' = Reindexed({id}, mem[id].session, {})
      /\ UNCHANGED <<excused, stores>> /\ id \in Ids
  BY DEF Delete, Known
<1>2. /\ mem'[id] = NoEntry /\ \A i \in Ids \ {id} : mem'[i] = mem[i]
      /\ mem' \in [Ids -> Entries \cup {NoEntry}]
  BY <1>1 DEF LtmInv, LtmTypeOK
<1>3. byOwner' = [o \in LtmSessions |-> byOwner[o] \ {id}]
  BY <1>1 DEF Reindexed
<1>4. LtmTypeOK'
  <2>1. /\ disk' \in [Ids -> Entries \cup {NoEntry}]
        /\ dirty' \in SUBSET Ids /\ ltmFaults' \in 0..LtmMaxFaults
    BY <1>1, <1>2, PersistShape DEF LtmInv
  <2>2. byOwner' \in [LtmSessions -> SUBSET Ids]
    BY <1>3 DEF LtmInv, LtmTypeOK
  <2>3. excused' \in SUBSET Ids /\ stores' \in 0..LtmMaxStores
    BY <1>1 DEF LtmInv, LtmTypeOK
  <2>4. decided' \in [LtmWorkers -> Decisions \cup {NoEntry}]
    BY DEF Told
  <2> QED BY <1>2, <2>1, <2>2, <2>3, <2>4 DEF LtmTypeOK
<1>5. IndexMatchesEntries'
  BY <1>2, <1>3 DEF LtmInv, LtmTypeOK, IndexMatchesEntries, Known
<1>6. StoreMirrorsMemory'
  BY <1>1, <1>2, PersistMirrors DEF LtmInv
<1>7. GroupExclusive'
  BY <1>1, <1>2, OthersExclusive DEF LtmInv
<1> QED BY <1>4, <1>5, <1>6, <1>7 DEF LtmInv

\* A memory's time comes, in the process and in the store.
LEMMA ExpireStep ==
  ASSUME LtmInv, Expire
  PROVE  LtmInv'
<1>1. PICK id \in Known :
        /\ mem' = [mem EXCEPT ![id].expires = "past"]
        /\ disk' = IF disk[id] # NoEntry /\ disk[id].expires = "later"
                   THEN [disk EXCEPT ![id].expires = "past"] ELSE disk
        /\ mem[id].expires = "later"
        /\ UNCHANGED <<byOwner, dirty, excused, decided, ltmFaults, stores>>
  BY DEF Expire
<1>2. mem[id] \in Entries /\ id \in Ids /\ mem[id] # NoEntry
  BY DEF Known, LtmInv, LtmTypeOK
<1> DEFINE e == [mem[id] EXCEPT !.expires = "past"]
<1>3. e \in Entries /\ e.session = mem[id].session /\ ~Live(e) /\ e # NoEntry
  BY <1>2, EntryEnded
<1>4. /\ mem'[id] = e /\ \A i \in Ids \ {id} : mem'[i] = mem[i]
      /\ mem' \in [Ids -> Entries \cup {NoEntry}]
  BY <1>1, <1>2, <1>3 DEF LtmInv, LtmTypeOK
<1>5. /\ \A i \in Ids \ {id} : disk'[i] = disk[i]
      /\ disk' \in [Ids -> Entries \cup {NoEntry}]
  <2>1. CASE disk[id] # NoEntry /\ disk[id].expires = "later"
    <3>1. disk[id] \in Entries
      BY <1>2, <2>1 DEF LtmInv, LtmTypeOK
    <3>2. [disk[id] EXCEPT !.expires = "past"] \in Entries
      BY <3>1, EntryEnded
    <3> QED BY <1>1, <1>2, <2>1, <3>2 DEF LtmInv, LtmTypeOK
  <2>2. CASE ~(disk[id] # NoEntry /\ disk[id].expires = "later")
    BY <1>1, <2>2 DEF LtmInv, LtmTypeOK
  <2> QED BY <2>1, <2>2
<1>6. disk[id] = mem[id] => disk'[id] = mem'[id]
  BY <1>1, <1>2, <1>4 DEF LtmInv, LtmTypeOK
<1> HIDE DEF e
<1>7. LtmTypeOK'
  BY <1>1, <1>4, <1>5 DEF LtmInv, LtmTypeOK
<1>8. IndexMatchesEntries'
  BY <1>1, <1>2, <1>3, <1>4, IndexKept DEF LtmInv
<1>9. StoreMirrorsMemory'
  BY <1>1, <1>4, <1>5, <1>6 DEF LtmInv, StoreMirrorsMemory
<1>10. GroupExclusive'
  BY <1>1, <1>3, <1>4, OthersExclusive DEF LtmInv
<1> QED BY <1>1, <1>7, <1>8, <1>9, <1>10 DEF LtmInv

\* The next process knows what it could read of the store.
LEMMA RestartStep ==
  ASSUME LtmInv, Restart
  PROVE  LtmInv'
<1>1. PICK missed \in SUBSET {id \in Ids : disk[id] # NoEntry} :
        LET failures == IF missed = {} THEN 0 ELSE 1 IN
        /\ ltmFaults + 1 + failures <= LtmMaxFaults
        /\ ltmFaults' = ltmFaults + 1 + failures
        /\ mem' = Loaded(missed) /\ byOwner' = LoadedIndex(mem') /\ dirty' = missed
        /\ excused' = excused \cup {id \in Ids : mem'[id] # mem[id]}
        /\ decided' = [w \in LtmWorkers |-> NoEntry]
        /\ UNCHANGED <<disk, stores>>
  BY DEF Restart
<1>2. /\ mem' \in [Ids -> Entries \cup {NoEntry}]
      /\ \A id \in Ids \ missed : mem'[id] = disk[id]
  BY <1>1 DEF Loaded, LtmInv, LtmTypeOK
<1>3. LtmTypeOK'
  <2>1. ltmFaults' \in 0..LtmMaxFaults
    BY <1>1 DEF LtmInv, LtmTypeOK
  <2>2. byOwner' \in [LtmSessions -> SUBSET Ids]
    BY <1>1 DEF LoadedIndex
  <2> QED BY <1>1, <1>2, <2>1, <2>2 DEF LtmInv, LtmTypeOK
<1>4. IndexMatchesEntries'
  BY <1>1 DEF IndexMatchesEntries, LoadedIndex, Known
<1>5. StoreMirrorsMemory'
  BY <1>1, <1>2 DEF StoreMirrorsMemory
<1>6. GroupExclusive'
  BY <1>1, OthersExclusive DEF LtmInv
<1> QED BY <1>1, <1>3, <1>4, <1>5, <1>6 DEF LtmInv, Told

\* A memory stated, known or new.
LEMMA StoreStep ==
  ASSUME LtmInv, NEW s \in LtmSessions, NEW st \in Statements, Store(s, st),
         decided' \in [LtmWorkers -> Told]
  PROVE  LtmInv'
<1>1. stores' \in 0..LtmMaxStores
  BY DEF Store, LtmInv, LtmTypeOK
<1> QED BY <1>1, ReinforceStep, StoreNewStep DEF Store

\* The invariant is kept by every step.
LEMMA LtmStep ==
  ASSUME LtmInv, [LtmNext]_ltmVars
  PROVE  LtmInv'
<1>1. ASSUME NEW w \in LtmWorkers, Decide(w) PROVE LtmInv'
  <2>1. PICK d \in Decisions : /\ d.op # "upsert" => d.target \in Known
                               /\ decided' = [decided EXCEPT ![w] = d]
    BY <1>1 DEF Decide
  <2>2. d \in Told
    BY <2>1 DEF Told, Known
  <2>3. decided' \in [LtmWorkers -> Told]
    BY <2>1, <2>2 DEF LtmInv
  <2> QED BY <1>1, <2>3, LtmStutter DEF Decide, LtmInv, LtmTypeOK
<1>2. ASSUME NEW w \in LtmWorkers, Apply(w) PROVE LtmInv'
  <2> DEFINE d == decided[w]
  <2>1. d \in Decisions /\ (d.op # "upsert" => d.target \in Ids)
    BY <1>2 DEF Apply, ApplyDisable, ApplyUpsert, ApplyPromote, LtmInv, Told
  <2>2. /\ d.session \in LtmSessions
        /\ [d EXCEPT !.op = "upsert", !.target = NoEntry] \in Told
    BY <2>1 DEF Decisions, Told
  <2>3. decided' \in [LtmWorkers -> Told]
    <3>1. NoEntry \in Told
      BY DEF Told
    <3> QED BY <1>2, <2>2, <3>1 DEF Apply, ApplyDisable, ApplyUpsert, ApplyPromote, LtmInv
  <2>4. CASE UNCHANGED <<mem, byOwner, disk, dirty, excused, ltmFaults, stores>>
    BY <2>3, <2>4, LtmStutter DEF LtmInv, LtmTypeOK
  <2>5. CASE mem[d.target] # NoEntry /\ d.target \in Ids /\ Disable(d.target)
    BY <2>3, <2>5, DisableStep DEF Known
  <2>6. CASE /\ mem[d.target] # NoEntry /\ d.target \in Ids
             /\ \E p \in WidePlaces : Promote(d.target, p)
    BY <2>3, <2>6, PromoteStep DEF Known, Places
  <2>7. CASE \E st \in Statements : Store(d.session, st)
    BY <2>2, <2>3, <2>7, StoreStep
  <2>8. CASE ApplyDisable(w)
    BY <2>1, <2>4, <2>5, <2>8 DEF ApplyDisable
  <2>9. CASE ApplyUpsert(w)
    BY <2>7, <2>9 DEF ApplyUpsert
  <2>10. CASE ApplyPromote(w)
    BY <2>1, <2>4, <2>6, <2>10 DEF ApplyPromote
  <2> QED BY <1>2, <2>8, <2>9, <2>10 DEF Apply
<1>3. CASE UserCall
  <2>1. PICK id \in Known : Disable(id) \/ Delete(id) \/ \E p \in WidePlaces : Promote(id, p)
    BY <1>3 DEF UserCall
  <2>2. decided' \in [LtmWorkers -> Told]
    BY <1>3 DEF UserCall, LtmInv
  <2> QED BY <2>1, <2>2, DisableStep, DeleteStep, PromoteStep DEF Places
<1>4. CASE Expire
  BY <1>4, ExpireStep
<1>5. CASE Restart
  BY <1>5, RestartStep
<1>6. CASE UNCHANGED ltmVars
  BY <1>6, LtmStutter DEF ltmVars, LtmInv, LtmTypeOK
<1> QED BY <1>1, <1>2, <1>3, <1>4, <1>5, <1>6 DEF LtmNext

\* The invariant holds throughout.
LEMMA LtmInvariance == LtmSpec => []LtmInv
<1>1. LtmInit => LtmInv
  <2> SUFFICES ASSUME LtmInit PROVE LtmInv
    OBVIOUS
  <2>1. LtmTypeOK /\ decided \in [LtmWorkers -> Told]
    BY DEF LtmInit, LtmTypeOK, Told
  <2>2. Known = {} /\ \A id \in Ids : disk[id] = mem[id]
    BY DEF LtmInit, Known
  <2> QED BY <2>1, <2>2 DEF LtmInit, LtmInv, IndexMatchesEntries, StoreMirrorsMemory,
                            GroupExclusive
<1>2. LtmInv /\ [LtmNext]_ltmVars => LtmInv'
  BY LtmStep
<1> QED BY <1>1, <1>2, PTL DEF LtmSpec

\* The shape of the state is kept.
THEOREM LtmTypeCorrect == LtmSpec => []LtmTypeOK
BY LtmInvariance, PTL DEF LtmInv

\* The index never names an entry that is gone, on which the eviction of a
\* session would loop for ever.
THEOREM IndexSound == LtmSpec => []IndexMatchesEntries
BY LtmInvariance, PTL DEF LtmInv

\* Where memory and store differ, the last write of the entry failed or the
\* process could not read it when it started.
THEOREM StoreIsMirror == LtmSpec => []StoreMirrorsMemory
BY LtmInvariance, PTL DEF LtmInv

\* Of each type and conflict group a place retrieves one memory, the last one
\* stated, unless a promotion, a restart that brought back what the process did
\* not know, or a statement under another type put a second beside it.
THEOREM GroupsAreExclusive == LtmSpec => []GroupExclusive
BY LtmInvariance, PTL DEF LtmInv

----------------------------------------------------------------------------
(* The limits *)

\* A new memory fits under both limits, its session's and the whole memory's.
LEMMA NewFits ==
  ASSUME LtmInv, NEW s \in LtmSessions, NEW st \in Statements, StoreNew(s, st)
  PROVE  LET new == IdOf(st) IN
         /\ mem'[new].session = s
         /\ \A i \in Ids : mem[i] = NoEntry /\ mem'[i] # NoEntry => i = new
         /\ Cardinality({i \in Ids : mem'[i] # NoEntry}) <= MaxEntries
         /\ Cardinality(byOwner'[s]) <= MaxPerSession
<1> DEFINE new == IdOf(st)
           entry == Stated(s, st)
<1>1. new \in Ids /\ mem[new] = NoEntry
  BY IdTyped DEF StoreNew
<1>2. PICK gone \in Evictions(s) :
        LET rivals == Rivals(new, st) \ gone IN
        /\ mem' = [i \in Ids |-> IF i = new THEN entry
                                 ELSE IF i \in gone THEN NoEntry
                                 ELSE IF i \in rivals THEN Retired(mem[i]) ELSE mem[i]]
        /\ byOwner' = Reindexed(gone, s, {new})
  BY DEF StoreNew
<1>3. PICK q \in kSubset(Excess(byOwner[s], MaxPerSession), byOwner[s]) \X SUBSET Known :
        /\ gone = q[1] \cup q[2] /\ q[1] \cap q[2] = {}
        /\ Cardinality(q[2]) = Excess(Known \ q[1], MaxEntries)
  BY <1>2 DEF Evictions
<1> DEFINE mine == q[1]
           others == q[2]
<1>4. /\ mine \subseteq byOwner[s] /\ others \subseteq Known \ mine
      /\ gone = mine \cup others
      /\ Cardinality(mine) = Excess(byOwner[s], MaxPerSession)
      /\ Cardinality(others) = Excess(Known \ mine, MaxEntries)
  <2>1. mine \in kSubset(Excess(byOwner[s], MaxPerSession), byOwner[s]) /\ others \in SUBSET Known
    BY <1>3
  <2> QED BY <1>3, <2>1 DEF kSubset
<1>5. IsFiniteSet(byOwner[s]) /\ IsFiniteSet(Known)
  BY FiniteIds, FS_Subset DEF Known, LtmInv, LtmTypeOK
<1>6. IsFiniteSet(Known \ mine)
  BY <1>5, FS_Difference
<1>7. {i \in Ids : mem'[i] # NoEntry} \subseteq ((Known \ mine) \ others) \cup {new}
  <2> SUFFICES ASSUME NEW i \in Ids, mem'[i] # NoEntry, i # new
               PROVE  i \in Known /\ i \notin gone
    BY <1>4
  <2> QED BY <1>2 DEF Rivals, Known
<1>8. Cardinality({i \in Ids : mem'[i] # NoEntry}) <= MaxEntries
  <2> DEFINE kept == ((Known \ mine) \ others) \cup {new}
             now == {i \in Ids : mem'[i] # NoEntry}
  <2>1. IsFiniteSet(kept) /\ Cardinality(kept) <= MaxEntries
    BY <1>3, <1>4, <1>6, RoomMade
  <2>2. Cardinality(now) <= Cardinality(kept) /\ IsFiniteSet(now)
    BY <1>7, <2>1, FS_Subset
  <2>3. Cardinality(now) \in Nat /\ Cardinality(kept) \in Nat
    BY <2>1, <2>2, FS_CardinalityType
  <2> HIDE DEF now, kept
  <2>4. Cardinality(now) <= MaxEntries
    BY <2>1, <2>2, <2>3
  <2> QED BY <2>4 DEF now
<1>9. Cardinality(byOwner'[s]) <= MaxPerSession
  <2> DEFINE kept == (byOwner[s] \ mine) \cup {new}
             now == byOwner'[s]
  <2>1. IsFiniteSet(kept) /\ Cardinality(kept) <= MaxPerSession
    BY <1>3, <1>4, <1>5, RoomMade
  <2>2. now \subseteq kept
    BY <1>2, <1>4 DEF Reindexed
  <2>3. Cardinality(now) <= Cardinality(kept) /\ IsFiniteSet(now)
    BY <2>1, <2>2, FS_Subset
  <2>4. Cardinality(now) \in Nat /\ Cardinality(kept) \in Nat
    BY <2>1, <2>3, FS_CardinalityType
  <2> HIDE DEF now, kept
  <2>5. Cardinality(now) <= MaxPerSession
    BY <2>1, <2>3, <2>4
  <2> QED BY <2>5 DEF now
<1>10. mem'[new].session = s
  BY <1>1, <1>2, EntryStated
<1>11. \A i \in Ids : mem[i] = NoEntry /\ mem'[i] # NoEntry => i = new
  BY <1>7 DEF Known
<1> QED BY <1>8, <1>9, <1>10, <1>11

\* Memories come in only by being stated.
LEMMA StatedByStore ==
  ASSUME LtmInv, [LtmNext]_ltmVars, stores' > stores
  PROVE  \E s \in LtmSessions, st \in Statements : Store(s, st)
<1>1. stores \in Nat /\ stores' # stores
  BY DEF LtmInv, LtmTypeOK
<1>2. PICK w \in LtmWorkers : ApplyUpsert(w)
  BY <1>1 DEF LtmNext, ltmVars, Decide, Apply, ApplyDisable, ApplyPromote, UserCall,
       Disable, Promote, Delete, Rewrite, Expire, Restart
<1>3. decided[w] \in Decisions
  BY <1>2 DEF ApplyUpsert, LtmInv, LtmTypeOK
<1> QED BY <1>2, <1>3 DEF ApplyUpsert, Decisions

\* Whatever was loaded, reloaded or failed to be deleted before: a memory
\* stated for the first time leaves both limits respected.
THEOREM CapsHold == LtmSpec => CapsAfterStore
<1> DEFINE Fits ==
      \A id \in Ids : stores' > stores /\ mem[id] = NoEntry /\ mem'[id] # NoEntry =>
         /\ Cardinality({i \in Ids : mem'[i] # NoEntry}) <= MaxEntries
         /\ Cardinality(byOwner'[mem'[id].session]) <= MaxPerSession
<1>1. LtmInv /\ [LtmNext]_ltmVars => Fits
  <2> SUFFICES ASSUME LtmInv, [LtmNext]_ltmVars, NEW id \in Ids, stores' > stores,
                      mem[id] = NoEntry, mem'[id] # NoEntry
               PROVE  /\ Cardinality({i \in Ids : mem'[i] # NoEntry}) <= MaxEntries
                      /\ Cardinality(byOwner'[mem'[id].session]) <= MaxPerSession
    OBVIOUS
  <2>1. PICK s \in LtmSessions, st \in Statements : Store(s, st)
    BY StatedByStore
  <2>2. CASE Reinforce(st)
    <3>1. mem'[id] = NoEntry
      BY <2>2 DEF Reinforce, Rivals, Known
    <3> QED BY <3>1
  <2>3. CASE StoreNew(s, st)
    BY <2>3, NewFits
  <2> QED BY <2>1, <2>2, <2>3 DEF Store
<1>2. LtmInv /\ [LtmNext]_ltmVars => [Fits]_ltmVars
  BY <1>1
<1>3. LtmSpec => [][Fits]_ltmVars
  BY <1>2, LtmInvariance, PTL DEF LtmSpec
<1> QED BY <1>3 DEF CapsAfterStore

-----------------------------------------------------------------------------
(***************************************************************************)
(* The documents                                                           *)
(***************************************************************************)

\* The failures and the next steps that several actions share.
LEMMA KbCommon ==
  ASSUME NEW j \in Jobs
  PROVE  /\ AfterPurge(j) \in JobSteps
         /\ KbFault("disk") => hit' = hit \cup {"disk"}
         /\ KbFault("milvus") => hit' = hit \cup {"milvus"}
         /\ KbFault("crash") => hit' = hit \cup {"crash"}
         /\ verdict \in [Jobs -> DocStatuses] => AfterMark(j) \in {"ended", "others"}
BY DEF AfterPurge, KbFault, JobSteps, Rest, AfterMark, DocStatuses

LEMMA KbInitTyped == KbInit => KbTypeInv
BY DEF KbInit, KbTypeInv, UnderWay, Rest, JobSteps, DocStatuses, Chunks, KbFaultKinds

\* Steps of one job that leave its document alone.
LEMMA KbStepTyped ==
  ASSUME KbTypeInv, NEW j \in Jobs, JobStep(j)
  PROVE  KbTypeInv'
<1> USE KbCommon DEF KbTypeInv, UnderWay, Rest, dirVars, jobVars, JobGoto,
        DocStatuses, KbFaultKinds
<1>1. CASE j \in Uploads /\ Rename(j)
  BY <1>1 DEF Rename, JobSteps, Jobs
<1>2. CASE MarkUploadStatus(j)
  BY <1>2 DEF MarkUploadStatus, JobSteps
<1>3. CASE OpenMetadata(j)
  <2>1. CASE sidecar' = [sidecar EXCEPT ![doc[j]] = "torn"] /\ JobGoto(j, "write")
             /\ UNCHANGED <<stored, hit>>
    BY <1>3, <2>1 DEF OpenMetadata, JobSteps
  <2>2. CASE Unwritten(j) /\ UNCHANGED sidecar
    <3>1. /\ stored' \subseteq stored /\ hit' = hit \cup {"disk"}
          /\ job' = [job EXCEPT ![j] = AfterMark(j)]
          /\ AfterMark(j) \in {"ended", "others"}
      BY <2>2 DEF Unwritten
    <3> QED BY <1>3, <2>2, <3>1 DEF OpenMetadata, JobSteps
  <2> QED BY <1>3, <2>1, <2>2 DEF OpenMetadata
<1>4. CASE WriteMetadata(j)
  <2>1. \A old \in DocStatuses \cup {"none", "torn"} :
          Written(old, verdict[j]) \in DocStatuses \cup {"none", "torn"}
    BY DEF Written
  <2>2. CASE Unwritten(j) /\ UNCHANGED sidecar
    <3>1. /\ stored' \subseteq stored /\ hit' = hit \cup {"disk"}
          /\ job' = [job EXCEPT ![j] = AfterMark(j)]
          /\ AfterMark(j) \in {"ended", "others"}
      BY <2>2 DEF Unwritten
    <3> QED BY <1>4, <2>2, <3>1 DEF WriteMetadata, JobSteps
  <2>3. CASE /\ sidecar' = [sidecar EXCEPT ![doc[j]] = Written(@, verdict[j])]
             /\ JobGoto(j, IF verdict[j] = "indexing" THEN "load"
                           ELSE AfterMark(j))
             /\ UNCHANGED <<stored, hit>>
    <3>1. AfterMark(j) \in {"ended", "others"}
      OBVIOUS
    <3>2. sidecar' \in [Uploads -> DocStatuses \cup {"none", "torn"}]
      BY <2>1, <2>3
    <3>3. job' \in [Jobs -> JobSteps] /\ \A i \in Jobs : UnderWay(i)' => UnderWay(i)
      BY <1>4, <2>3, <3>1 DEF WriteMetadata, JobSteps
    <3> QED BY <1>4, <2>3, <3>2, <3>3 DEF WriteMetadata
  <2> QED BY <1>4, <2>2, <2>3 DEF WriteMetadata
<1>5. CASE LoadFile(j)
  BY <1>5 DEF LoadFile, Failed, JobSteps
<1>6. CASE InsertChunks(j)
  <2>1. <<doc[j], j>> \in Chunks
    BY <1>6 DEF InsertChunks, Chunks
  <2> QED BY <1>6, <2>1 DEF InsertChunks, Failed, JobSteps
<1>7. CASE QueryChunks(j)
  <2>1. Others(j) \in SUBSET Chunks
    BY DEF Others
  <2>2. CASE VectorFails(j) /\ UNCHANGED doomed
    BY <1>7, <2>2 DEF QueryChunks, VectorFails, Failed, JobSteps
  <2>3. CASE /\ doomed' = [doomed EXCEPT ![j] = Others(j)]
             /\ JobGoto(j, IF Others(j) = {} THEN AfterPurge(j) ELSE "purge")
             /\ UNCHANGED <<verdict, hit>>
    <3>1. (IF Others(j) = {} THEN AfterPurge(j) ELSE "purge") \in JobSteps
      BY DEF JobSteps
    <3>2. doc[j] \in Uploads
      BY <1>7 DEF QueryChunks
    <3> HIDE DEF JobSteps
    <3> QED BY <1>7, <2>1, <2>3, <3>1, <3>2 DEF QueryChunks
  <2> QED BY <1>7, <2>2, <2>3 DEF QueryChunks
<1>8. CASE PurgeChunks(j)
  <2>1. CASE VectorFails(j) /\ chunks' \in {chunks, chunks \ doomed[j]}
    BY <1>8, <2>1 DEF PurgeChunks, VectorFails, Failed, JobSteps
  <2>2. CASE /\ chunks' = chunks \ doomed[j]
             /\ JobGoto(j, AfterPurge(j))
             /\ UNCHANGED <<verdict, hit>>
    <3>1. doc[j] \in Uploads
      BY <1>8 DEF PurgeChunks
    <3> QED BY <1>8, <2>2, <3>1 DEF PurgeChunks
  <2> QED BY <1>8, <2>1, <2>2 DEF PurgeChunks
<1>9. CASE ListFiles(j)
  BY <1>9 DEF ListFiles, JobSteps
<1>10. CASE ReadFile(j)
  <2> DEFINE d == CHOOSE f \in todo[j] : TRUE
  <2>1. d \in Uploads
    BY <1>10 DEF ReadFile
  <2>2. /\ todo' = [todo EXCEPT ![j] = @ \ {d}]
        /\ loaded' = [loaded EXCEPT ![j] = @ \cup ({d} \cap Loadable)]
        /\ UNCHANGED <<stored, sidecar, chunks, lexical, job, doc, deletes,
                       verdict, doomed, hit>>
    BY <1>10 DEF ReadFile
  <2> HIDE DEF d
  <2> QED BY <2>1, <2>2
<1>11. CASE SetSharedBM25Index(j)
  BY <1>11 DEF SetSharedBM25Index, JobSteps
<1>12. CASE ListReplaced(j)
  BY <1>12 DEF ListReplaced, Records, JobSteps
<1>13. CASE LookupUpload(j)
  BY <1>13 DEF LookupUpload, JobSteps
<1>14. CASE RemoveFile(j)
  BY <1>14 DEF RemoveFile, RemovalFails, JobSteps
<1>15. CASE RemoveMetadata(j)
  <2>1. AfterRemoval(j) \in JobSteps
    BY DEF AfterRemoval, JobSteps
  <2>2. CASE RemovalFails(j) /\ UNCHANGED sidecar
    BY <1>15, <2>2 DEF RemoveMetadata, RemovalFails, JobSteps
  <2>3. CASE /\ sidecar' = [sidecar EXCEPT ![Victim(j)] = "none"]
             /\ todo' = [todo EXCEPT ![j] = @ \ {Victim(j)}]
             /\ JobGoto(j, AfterRemoval(j))
             /\ UNCHANGED hit
    <3>1. doc[j] \in Uploads
      BY <1>15 DEF RemoveMetadata
    <3> QED BY <1>15, <2>1, <2>3, <3>1 DEF RemoveMetadata
  <2> QED BY <1>15, <2>2, <2>3 DEF RemoveMetadata
<1> QED
  BY <1>1, <1>2, <1>3, <1>4, <1>5, <1>6, <1>7, <1>8, <1>9, <1>10, <1>11,
     <1>12, <1>13, <1>14, <1>15 DEF JobStep

LEMMA KbTyped == KbTypeInv /\ [KbNext]_kbVars => KbTypeInv'
<1> SUFFICES ASSUME KbTypeInv, [KbNext]_kbVars PROVE KbTypeInv'
  OBVIOUS
<1>1. CASE \E u \in Uploads : SaveUpload(u)
  BY <1>1 DEF SaveUpload, JobGoto, KbTypeInv, UnderWay, Rest, JobSteps, Jobs
<1>2. CASE \E j \in UserCalls, d \in Uploads :
             DeleteDocument(j, d) \/ RetryDocumentIndex(j, d)
  BY <1>2 DEF DeleteDocument, RetryDocumentIndex, OwnedDocument, JobGoto,
    KbTypeInv, UnderWay, Rest, JobSteps, Jobs, DocStatuses, dirVars
<1>3. CASE \E j \in Jobs : JobStep(j)
  BY <1>3, KbStepTyped
<1>4. CASE KbCrash
  BY <1>4 DEF KbCrash, KbFault, KbTypeInv, UnderWay, Rest, JobSteps, Loadable,
    dirVars
<1>5. CASE UNCHANGED kbVars
  BY <1>5 DEF kbVars, dirVars, jobVars, KbTypeInv, UnderWay
<1> QED BY <1>1, <1>2, <1>3, <1>4, <1>5 DEF KbNext

\* The type invariant.
THEOREM KbTypeCorrect == KbSpec => []KbTypeInv
BY KbInitTyped, KbTyped, PTL DEF KbSpec

----------------------------------------------------------------------------
\* Job j is on its way to a verdict on document u, or about to write one.
Judging(j, u) ==
  /\ doc[j] = u /\ j \notin deletes
  /\ \/ job[j] \in {"load", "insert", "query", "purge", "list", "read"}
     \/ job[j] \in {"mark", "open", "write"} /\ verdict[j] # "indexing"

Unharmed == hit \cap {"disk", "crash"} = {}

\* The steps of a deletion, from its first to its last.
RemovalSteps == {"query", "purge", "lookup", "unlink", "unlabel", "list", "read",
                 "ended", "succeeded", "lost"}

\* A deletion judges nothing, and what is shown as being indexed is judged.
JudgedInv ==
  /\ \A j \in deletes : job[j] \in RemovalSteps
  /\ Unharmed =>
    \A u \in Uploads : sidecar[u] = "indexing" => \E j \in Jobs : Judging(j, u)

LEMMA JudgedKept ==
  ASSUME KbTypeInv, JudgedInv, [KbNext]_kbVars
  PROVE  JudgedInv'
<1> USE KbCommon
<1>0. (\A j \in deletes : job[j] \in RemovalSteps)'
  <2>1. CASE \E v \in Uploads : SaveUpload(v)
    BY <2>1 DEF SaveUpload, JobGoto, JudgedInv, KbTypeInv, RemovalSteps, Jobs
  <2>2. CASE \E i \in UserCalls, d \in Uploads :
               DeleteDocument(i, d) \/ RetryDocumentIndex(i, d)
    BY <2>2 DEF DeleteDocument, RetryDocumentIndex, OwnedDocument, JobGoto,
      JudgedInv, KbTypeInv, RemovalSteps, Jobs
  <2>3. CASE \E i \in Jobs : JobStep(i)
    BY <2>3 DEF JobStep, Rename, MarkUploadStatus, OpenMetadata, WriteMetadata,
      Unwritten, LoadFile, InsertChunks, Failed, QueryChunks, PurgeChunks,
      VectorFails, ListFiles, ReadFile, SetSharedBM25Index, ListReplaced,
      LookupUpload, RemoveFile, RemoveMetadata, RemovalFails, AfterRemoval,
      AfterPurge, JobGoto, JudgedInv, KbTypeInv, RemovalSteps, dirVars, jobVars,
      Jobs
  <2>4. CASE KbCrash
    BY <2>4 DEF KbCrash, JudgedInv, KbTypeInv, RemovalSteps, Jobs
  <2>5. CASE UNCHANGED kbVars
    BY <2>5 DEF kbVars, jobVars, JudgedInv
  <2> QED BY <2>1, <2>2, <2>3, <2>4, <2>5 DEF KbNext
<1> SUFFICES ASSUME Unharmed', NEW u \in Uploads, sidecar'[u] = "indexing"
             PROVE  \E j \in Jobs : Judging(j, u)'
  BY <1>0 DEF JudgedInv
<1>1. CASE \E v \in Uploads : SaveUpload(v)
  <2>1. PICK v \in Uploads : SaveUpload(v)
    BY <1>1
  <2>2. PICK j \in Jobs : Judging(j, u)
    BY <2>1 DEF SaveUpload, JudgedInv, Unharmed
  <2>3. Judging(j, u)'
    BY <2>1, <2>2 DEF SaveUpload, Judging, JobGoto, KbTypeInv, Jobs
  <2> QED BY <2>3
<1>2. CASE \E i \in UserCalls, d \in Uploads :
             DeleteDocument(i, d) \/ RetryDocumentIndex(i, d)
  <2>1. PICK i \in UserCalls, d \in Uploads :
          DeleteDocument(i, d) \/ RetryDocumentIndex(i, d)
    BY <1>2
  <2> USE DEF OwnedDocument, DeleteDocument, RetryDocumentIndex, dirVars
  <2>2. PICK j \in Jobs : Judging(j, u)
    BY <2>1 DEF JudgedInv, Unharmed
  <2>3. Judging(j, u)'
    BY <2>1, <2>2 DEF Judging, JobGoto, KbTypeInv, Jobs
  <2> QED BY <2>3
<1>3. CASE \E i \in Jobs : JobStep(i)
  <2>1. PICK i \in Jobs : JobStep(i)
    BY <1>3
  <2>2. Unharmed
    BY <2>1, KbCommon DEF Unharmed, JobStep, Rename, MarkUploadStatus,
      OpenMetadata, WriteMetadata, Unwritten, LoadFile, InsertChunks,
      QueryChunks, PurgeChunks, VectorFails, ListFiles, ReadFile,
      SetSharedBM25Index, ListReplaced, LookupUpload, RemoveFile,
      RemoveMetadata, RemovalFails
  \* The other jobs do not move.
  <2>3. \A j \in Jobs \ {i} : Judging(j, u) => Judging(j, u)'
    BY <2>1 DEF JobStep, Rename, MarkUploadStatus, OpenMetadata, WriteMetadata,
      Unwritten, LoadFile, InsertChunks, Failed, QueryChunks, PurgeChunks,
      VectorFails, ListFiles, ReadFile, SetSharedBM25Index, ListReplaced,
      LookupUpload, RemoveFile, RemoveMetadata, RemovalFails, Judging, JobGoto,
      KbTypeInv, dirVars, jobVars
  <2>4. CASE sidecar[u] = "indexing" /\ ~Judging(i, u)
    BY <2>2, <2>3, <2>4 DEF JudgedInv
  <2>5. CASE sidecar[u] = "indexing" /\ Judging(i, u)
    <3>1. job[i] \in {"load", "insert", "query", "purge", "list", "read"}
          => Judging(i, u)'
      BY <2>1, <2>5 DEF JobStep, Rename, MarkUploadStatus, OpenMetadata, WriteMetadata,
        LoadFile, InsertChunks, Failed, QueryChunks, PurgeChunks,
        VectorFails, ListFiles, ReadFile, SetSharedBM25Index, ListReplaced,
        LookupUpload, RemoveFile, RemoveMetadata, AfterPurge, Judging, JobGoto,
        KbTypeInv, dirVars, jobVars
    \* The record can be read: its writer goes on to write it.
    <3>2. job[i] = "mark" => Judging(i, u)'
      BY <2>1, <2>5 DEF JobStep, Rename, MarkUploadStatus, OpenMetadata, WriteMetadata,
        LoadFile, InsertChunks, QueryChunks, PurgeChunks, ListFiles, ReadFile,
        SetSharedBM25Index, ListReplaced, LookupUpload, RemoveFile,
        RemoveMetadata, Judging, JobGoto, Readable, DocStatuses,
        KbTypeInv, dirVars, jobVars
    \* Opened or written, the record does not say "indexing" any more.
    <3>3. job[i] \notin {"open", "write"}
      BY <2>1, <2>5, KbCommon DEF JobStep, Rename, MarkUploadStatus, OpenMetadata,
        WriteMetadata, Unwritten, Written, LoadFile, InsertChunks, QueryChunks,
        PurgeChunks, ListFiles, ReadFile, SetSharedBM25Index, ListReplaced,
        LookupUpload, RemoveFile, RemoveMetadata, Judging, Longer, DocStatuses,
        Unharmed, KbTypeInv
    <3> QED BY <2>5, <3>1, <3>2, <3>3 DEF Judging
  \* Only a job that has just begun to index writes "indexing".
  <2>6. CASE sidecar[u] # "indexing"
    <3>1. WriteMetadata(i) /\ doc[i] = u /\ verdict[i] = "indexing"
      BY <2>1, <2>6 DEF JobStep, Rename, MarkUploadStatus, OpenMetadata,
        WriteMetadata, Unwritten, Written, LoadFile, InsertChunks, QueryChunks,
        PurgeChunks, ListFiles, ReadFile, SetSharedBM25Index, ListReplaced,
        LookupUpload, RemoveFile, RemoveMetadata, RemovalFails, KbTypeInv, dirVars
    <3>2. i \notin deletes
      BY <3>1 DEF WriteMetadata, JudgedInv, RemovalSteps
    <3>3. Judging(i, u)'
      BY <2>1, <3>1, <3>2, <2>6, KbCommon DEF WriteMetadata, Unwritten, Judging, JobGoto,
        KbTypeInv, jobVars, Unharmed
    <3> QED BY <3>3
  <2> QED BY <2>4, <2>5, <2>6
<1>4. CASE KbCrash
  BY <1>4, KbCommon DEF KbCrash, Unharmed, KbFault
<1>5. CASE UNCHANGED kbVars
  BY <1>5 DEF kbVars, dirVars, jobVars, JudgedInv, Judging, Unharmed
<1> QED BY <1>1, <1>2, <1>3, <1>4, <1>5 DEF KbNext

\* What is shown as being indexed is being indexed (IndexingIsUnderWay), for
\* any number of uploads, deletions and retries in any order, impatient users
\* included, as long as no file fails to be written and no process dies.
THEOREM IndexingGoesOn == KbSpec => []IndexingIsUnderWay
<1>1. KbInit => JudgedInv
  BY DEF KbInit, JudgedInv
<1>2. KbTypeInv /\ JudgedInv => IndexingIsUnderWay
  BY DEF JudgedInv, Judging, Unharmed, IndexingIsUnderWay, UnderWay, Rest
<1>3. JudgedInv /\ KbTypeInv /\ [KbNext]_kbVars => JudgedInv'
  BY JudgedKept
<1> QED BY KbInitTyped, KbTyped, <1>1, <1>2, <1>3, PTL DEF KbSpec

----------------------------------------------------------------------------
(* Patient users: the jobs of one source follow each other *)

\* The chunks of other versions have been deleted, in a deletion all of them.
PastPurge(j) ==
  \/ job[j] \in {"list", "read", "others", "lookup", "unlink", "unlabel"}
  \/ job[j] \in {"mark", "open", "write"} /\ verdict[j] = "ready"

Alone == \A j, k \in Jobs :
           UnderWay(j) /\ UnderWay(k) /\ Source(j) = Source(k) => j = k

Shown == \A c \in chunks : sidecar[c[1]] # "none"

\* What job j has seen to when it comes to a step.
Stage(j) ==
  /\ job[j] \in {"load", "insert", "write"} => sidecar[doc[j]] # "none"
  /\ job[j] = "purge" => doomed[j] = Others(j)
  /\ PastPurge(j) => Others(j) = {}
  /\ job[j] = "lookup" => j \in deletes
  /\ job[j] \in {"unlink", "unlabel"} =>
       /\ todo[j] # {}
       /\ \A d \in todo[j] :
            SourceOf[d] = Source(j) /\ (d = doc[j] => j \in deletes)

OrderInv == Alone /\ Shown /\ \A j \in Jobs : Stage(j)

\* A step of a job changes nothing of another one and only records and chunks
\* of its own source.
LEMMA StepFrame ==
  ASSUME KbTypeInv, OrderInv, NEW i \in Jobs, JobStep(i)
  PROVE  /\ UnderWay(i) /\ UNCHANGED <<doc, deletes>>
         /\ \A k \in Jobs \ {i} :
              /\ job'[k] = job[k] /\ verdict'[k] = verdict[k]
              /\ doomed'[k] = doomed[k] /\ todo'[k] = todo[k]
         /\ \A c \in chunks' \ chunks : c = <<doc[i], i>>
         /\ \A c \in chunks \ chunks' : SourceOf[c[1]] = Source(i)
         /\ \A u \in Uploads :
              sidecar'[u] # sidecar[u] => SourceOf[u] = Source(i)
<1> USE DEF JobStep, Rename, MarkUploadStatus, OpenMetadata, WriteMetadata,
      Unwritten, LoadFile, InsertChunks, Failed, QueryChunks, PurgeChunks,
      VectorFails, ListFiles, ReadFile, SetSharedBM25Index, ListReplaced,
      LookupUpload, RemoveFile, RemoveMetadata, RemovalFails, JobGoto, dirVars,
      jobVars
<1>1. UnderWay(i)
  BY DEF UnderWay, Rest
<1>2. UNCHANGED <<doc, deletes>>
  OBVIOUS
<1>3. \A k \in Jobs \ {i} :
        /\ job'[k] = job[k] /\ verdict'[k] = verdict[k]
        /\ doomed'[k] = doomed[k] /\ todo'[k] = todo[k]
  BY DEF KbTypeInv
<1>4. \A c \in chunks' \ chunks : c = <<doc[i], i>>
  OBVIOUS
<1>5. \A c \in chunks \ chunks' : SourceOf[c[1]] = Source(i)
  BY DEF OrderInv, Stage, Others
<1>6. \A u \in Uploads :
        sidecar'[u] # sidecar[u] => SourceOf[u] = Source(i)
  <2>1. job[i] = "unlabel" => SourceOf[Victim(i)] = Source(i)
    BY DEF OrderInv, Stage, Victim
  <2> QED BY <2>1 DEF KbTypeInv, Source
<1> QED BY <1>1, <1>2, <1>3, <1>4, <1>5, <1>6

\* What the job of a step has seen to after it.
LEMMA StageReached ==
  ASSUME KbTypeInv, OrderInv, NEW i \in Jobs, JobStep(i)
  PROVE  Stage(i)' /\ Shown'
<1> USE DEF dirVars, jobVars, JobGoto, KbTypeInv, OrderInv, Shown, Stage,
      PastPurge, Others, Kept, Source, DocStatuses
<1>1. CASE i \in Uploads /\ Rename(i)
  BY <1>1 DEF Rename
<1>2. CASE MarkUploadStatus(i)
  BY <1>2 DEF MarkUploadStatus, AfterMark
<1>3. CASE OpenMetadata(i)
  <2>1. CASE Unwritten(i) /\ UNCHANGED sidecar
    <3>1. job'[i] = AfterMark(i) /\ UNCHANGED <<sidecar, chunks, jobVars>>
      BY <1>3, <2>1 DEF OpenMetadata, Unwritten
    <3> QED BY <1>3, <3>1 DEF OpenMetadata, AfterMark
  <2>2. CASE /\ sidecar' = [sidecar EXCEPT ![doc[i]] = "torn"]
             /\ JobGoto(i, "write")
    BY <1>3, <2>2 DEF OpenMetadata, UnderWay, Rest
  <2> QED BY <1>3, <2>1, <2>2 DEF OpenMetadata
<1>4. CASE WriteMetadata(i)
  <2>1. CASE Unwritten(i) /\ UNCHANGED sidecar
    <3>1. job'[i] = AfterMark(i) /\ UNCHANGED <<sidecar, chunks, jobVars>>
      BY <1>4, <2>1 DEF WriteMetadata, Unwritten
    <3> QED BY <1>4, <3>1 DEF WriteMetadata, AfterMark
  <2>2. CASE /\ sidecar' = [sidecar EXCEPT ![doc[i]] = Written(@, verdict[i])]
             /\ JobGoto(i, IF verdict[i] = "indexing" THEN "load"
                           ELSE AfterMark(i))
    <3>1. Written(sidecar[doc[i]], verdict[i]) # "none"
      BY <1>4 DEF WriteMetadata, Written
    <3> QED BY <1>4, <2>2, <3>1 DEF WriteMetadata, AfterMark, UnderWay, Rest
  <2> QED BY <1>4, <2>1, <2>2 DEF WriteMetadata
<1>5. CASE LoadFile(i)
  BY <1>5 DEF LoadFile, Failed
<1>6. CASE InsertChunks(i)
  BY <1>6 DEF InsertChunks, Failed
<1>7. CASE QueryChunks(i)
  BY <1>7 DEF QueryChunks, VectorFails, Failed, AfterPurge
<1>8. CASE PurgeChunks(i)
  BY <1>8 DEF PurgeChunks, VectorFails, Failed, AfterPurge
<1>9. CASE ListFiles(i)
  BY <1>9 DEF ListFiles
<1>10. CASE ReadFile(i)
  BY <1>10 DEF ReadFile
<1>11. CASE SetSharedBM25Index(i)
  BY <1>11 DEF SetSharedBM25Index
<1>12. CASE ListReplaced(i)
  BY <1>12 DEF ListReplaced, Records
<1>13. CASE LookupUpload(i)
  <2>1. /\ i \in deletes /\ Others(i) = {} /\ i \in Jobs
        /\ UNCHANGED <<chunks, sidecar, doc, deletes, verdict, doomed>>
    BY <1>13 DEF LookupUpload
  <2>2. \/ job'[i] = "unlink" /\ todo'[i] = {doc[i]}
        \/ job'[i] = "ended"
    BY <1>13 DEF LookupUpload
  <2> QED BY <2>1, <2>2
<1>14. CASE RemoveFile(i)
  BY <1>14 DEF RemoveFile, RemovalFails
\* No chunk is left of the document whose record goes.
<1>15. CASE RemoveMetadata(i)
  <2>1. CASE RemovalFails(i) /\ UNCHANGED sidecar
    BY <1>15, <2>1 DEF RemoveMetadata, RemovalFails
  <2>2. CASE /\ sidecar' = [sidecar EXCEPT ![Victim(i)] = "none"]
             /\ todo' = [todo EXCEPT ![i] = @ \ {Victim(i)}]
             /\ JobGoto(i, AfterRemoval(i))
    <3>1. Victim(i) \in todo[i] /\ job[i] = "unlabel"
      BY <1>15 DEF RemoveMetadata, Victim
    <3>2. \A c \in chunks : c[1] # Victim(i)
      BY <3>1
    <3>3. Shown'
      BY <1>15, <2>2, <3>2 DEF RemoveMetadata, Chunks
    <3>4. job'[i] = AfterRemoval(i) /\ UNCHANGED <<chunks, doc, deletes, verdict>>
      BY <1>15, <2>2 DEF RemoveMetadata
    <3>5. todo'[i] = todo[i] \ {Victim(i)}
      BY <2>2
    <3>6. Stage(i)'
      BY <3>1, <3>4, <3>5 DEF AfterRemoval
    <3> QED BY <3>3, <3>6
  <2> QED BY <1>15, <2>1, <2>2 DEF RemoveMetadata
<1> QED
  BY <1>1, <1>2, <1>3, <1>4, <1>5, <1>6, <1>7, <1>8, <1>9, <1>10, <1>11,
     <1>12, <1>13, <1>14, <1>15 DEF JobStep

LEMMA OrderKept ==
  ASSUME Patient, KbTypeInv, OrderInv, [KbNext]_kbVars
  PROVE  OrderInv'
<1>1. CASE \E v \in Uploads : SaveUpload(v)
  BY <1>1 DEF SaveUpload, Busy, JobGoto, KbTypeInv, OrderInv, Alone, Shown,
    Stage, PastPurge, Others, Kept, Source, UnderWay, Rest, Jobs
<1>2. CASE \E i \in UserCalls, d \in Uploads :
             DeleteDocument(i, d) \/ RetryDocumentIndex(i, d)
  BY <1>2 DEF DeleteDocument, RetryDocumentIndex, OwnedDocument, Busy, JobGoto,
    KbTypeInv, OrderInv, Alone, Shown, Stage, PastPurge, Others, Kept, Source,
    UnderWay, Rest, Jobs, dirVars
<1>3. CASE \E i \in Jobs : JobStep(i)
  <2>1. PICK i \in Jobs : JobStep(i)
    BY <1>3
  <2>2. Alone'
    BY <2>1, StepFrame DEF OrderInv, Alone, UnderWay, Source
  <2>3. \A k \in Jobs \ {i} : Stage(k)'
    <3> SUFFICES ASSUME NEW k \in Jobs \ {i} PROVE Stage(k)'
      OBVIOUS
    <3>1. CASE ~UnderWay(k)
      BY <2>1, <3>1, StepFrame DEF Stage, PastPurge, UnderWay, Rest
    <3>2. CASE UnderWay(k)
      <4>1. Source(k) # Source(i) /\ doc[k] \in Uploads /\ doc[i] \in Uploads
        BY <2>1, <3>2, StepFrame DEF OrderInv, Alone, KbTypeInv
      <4>2. sidecar'[doc[k]] = sidecar[doc[k]]
        BY <2>1, <4>1, StepFrame DEF Source
      <4>3. Others(k)' = Others(k)
        BY <2>1, <4>1, StepFrame DEF Others, Kept, Source
      <4> QED BY <2>1, <4>2, <4>3, StepFrame DEF OrderInv, Stage, PastPurge, Source
    <3> QED BY <3>1, <3>2
  <2>4. Stage(i)' /\ Shown'
    BY <2>1, StageReached
  <2> QED BY <2>2, <2>3, <2>4 DEF OrderInv
<1>4. CASE KbCrash
  BY <1>4 DEF KbCrash, KbTypeInv, OrderInv, Alone, Shown, Stage, PastPurge,
    UnderWay, Rest, dirVars
<1>5. CASE UNCHANGED kbVars
  BY <1>5 DEF kbVars, dirVars, jobVars, OrderInv, Alone, Shown, Stage,
    PastPurge, Others, Kept, Source, UnderWay
<1> QED BY <1>1, <1>2, <1>3, <1>4, <1>5 DEF KbNext

\* What the vector store returns belongs to a document users still see
\* (SearchableIsListed), whatever fails and wherever the process dies, for any
\* number of uploads, deletions and retries of users who wait for the jobs of
\* a source to end: chunks go before the record that names their source.
THEOREM ChunksGoFirst ==
  ASSUME Patient
  PROVE  KbSpec => []SearchableIsListed
<1>1. KbInit => OrderInv
  BY DEF KbInit, OrderInv, Alone, Shown, Stage, PastPurge, UnderWay, Rest
<1>2. OrderInv => SearchableIsListed
  BY DEF OrderInv, Shown, SearchableIsListed
<1>3. OrderInv /\ KbTypeInv /\ [KbNext]_kbVars => OrderInv'
  BY OrderKept
<1> QED BY KbInitTyped, KbTyped, <1>1, <1>2, <1>3, PTL DEF KbSpec

----------------------------------------------------------------------------
(* Versions: the newest recorded document of a source is what is found *)

\* A finite set of numbers has a largest one.
LEMMA LargestExists ==
  ASSUME NEW T \in SUBSET Nat, IsFiniteSet(T), T # {}
  PROVE  Max(T) \in T /\ \A y \in T : y <= Max(T)
<1> DEFINE Larger(m) == {y \in T : y > m}
           F == {Larger(m) : m \in T}
<1>1. IsWellFoundedOn(StrictSubsetOrdering(T), SUBSET T)
  BY FS_StrictSubsetOrderingWellFounded, FS_FiniteSubsetsOfFinite
<1>2. F \subseteq SUBSET T /\ F # {}
  <2>1. PICK m \in T : TRUE
    OBVIOUS
  <2>2. Larger(m) \in F
    BY <2>1
  <2>3. \A n \in T : Larger(n) \in SUBSET T
    OBVIOUS
  <2> QED BY <2>2, <2>3
<1>3. PICK X \in F : \A Y \in F : <<Y, X>> \notin StrictSubsetOrdering(T)
  <2> HIDE DEF F
  <2> QED BY <1>1, <1>2, WFMin, Zenon
<1>4. PICK x \in T : X = Larger(x)
  BY <1>3
<1>5. ASSUME NEW y \in T, y > x PROVE FALSE
  <2>0. Larger(y) \in F
    OBVIOUS
  <2> HIDE DEF F
  <2>1. Larger(y) \subseteq Larger(x) /\ y \in Larger(x) /\ y \notin Larger(y)
    <3>1. x \in Nat /\ y \in Nat /\ \A z \in T : z \in Nat
      OBVIOUS
    <3>2. \A z \in T : z > y => z > x
      BY <1>5, <3>1
    <3>3. Larger(y) \subseteq Larger(x)
      BY <3>2
    <3>4. y \in Larger(x)
      BY <1>5
    <3>5. y \notin Larger(y)
      BY <3>1
    <3> QED BY <3>3, <3>4, <3>5
  <2>2. <<Larger(y), Larger(x)>> \in StrictSubsetOrdering(T)
    BY <2>1 DEF StrictSubsetOrdering
  <2> QED
    BY <1>3, <1>4, <2>0, <2>2
<1>6. \E m \in T : \A y \in T : m >= y
  BY <1>5
<1> QED
  BY <1>6 DEF Max

\* A new version is above those of the records that can be read.
LEMMA VersionAbove ==
  ASSUME version \in [Uploads -> Nat], NEW u \in Uploads
  PROVE  /\ NextVersion(u) \in Nat
         /\ \A r \in Records(SourceOf[u]) : version[r] < NextVersion(u)
<1> DEFINE R == Records(SourceOf[u])
           V == {version[r] : r \in R}
           f == [r \in R |-> version[r]]
           M == Max({0} \cup V)
<1>1. IsFiniteSet(R)
  BY UploadsAssumption, FS_Subset DEF Records
<1>2. f \in Surjection(R, V)
  BY DEF Surjection
<1>3. IsFiniteSet(V)
  BY <1>1, <1>2, FS_Surjection
<1>4. IsFiniteSet({0} \cup V)
  BY <1>3, FS_Singleton, FS_Union
<1>5. V \subseteq Nat
  BY DEF Records
<1>6. M \in Nat /\ \A y \in V : y <= M
  <2> HIDE DEF V
  <2>1. {0} \cup V \in SUBSET Nat /\ {0} \cup V # {}
    BY <1>5
  <2>2. M \in {0} \cup V /\ \A y \in {0} \cup V : y <= M
    BY <1>4, <2>1, LargestExists
  <2> QED BY <2>1, <2>2
<1>7. NextVersion(u) = M + 1
  BY DEF NextVersion
<1>8. \A r \in R : version[r] \in V /\ version[r] \in Nat
  BY DEF Records
<1> HIDE DEF M, V
<1> QED
  BY <1>6, <1>7, <1>8

Recorded(s) == {r \in Uploads : SourceOf[r] = s /\ sidecar[r] # "none"}

Latest(u) == \A r \in Recorded(SourceOf[u]) \ {u} : version[r] < version[u]

\* A deletion was begun, or a record was left half written for good: from then
\* on no listing succeeds.
Excused(s) ==
  \/ s \in tried
  \/ \E u \in Uploads : /\ SourceOf[u] = s /\ sidecar[u] = "torn"
                        /\ \A j \in Jobs : job[j] = "write" => doc[j] # u

\* An upload that has written no record yet.
Unrecorded(j) == \/ job[j] = "rename"
                 \/ job[j] = "open" /\ j \in Uploads /\ verdict[j] = "indexing"

\* What a job that runs knows of the records of its source.
Begun(j) ==
  UnderWay(j) =>
    /\ j \in Uploads => doc[j] = j
    /\ j \in deletes => Source(j) \in tried
    /\ j \notin deletes /\ ~Unrecorded(j) => sidecar[doc[j]] # "none"
    /\ job[j] = "open" => sidecar[doc[j]] # "torn"
    /\ job[j] = "write" => sidecar[doc[j]] = "torn"
    /\ job[j] \in {"unlink", "unlabel"} /\ j \notin deletes =>
         \A u \in Uploads : SourceOf[u] = Source(j) => sidecar[u] # "torn"

BegunInv ==
  /\ version \in [Uploads -> Nat]
  /\ \A u \in Uploads : job[u] \in {"idle", "rename"} => sidecar[u] = "none"
  /\ \A j \in Jobs : Begun(j)

PastInsert(j) ==
  \/ job[j] \in {"query", "purge", "list", "read", "others", "unlink", "unlabel"}
  \/ job[j] \in {"mark", "open", "write"} /\ verdict[j] = "ready"

\* An indexing is about the newest version, which it has placed as far as it
\* has come, and which is not yet shown as ready before it is.
Leading(j) ==
  /\ Latest(doc[j])
  /\ PastInsert(j) \/ job[j] = "insert" => doc[j] \in stored
  /\ PastInsert(j) => <<doc[j], j>> \in chunks
  /\ job[j] \notin {"others", "unlink", "unlabel"} => sidecar[doc[j]] # "ready"

SourceGood(s) ==
  /\ \A u, r \in Recorded(s) : version[u] = version[r] => u = r
  /\ \A j \in Jobs : UnderWay(j) /\ Source(j) = s => Leading(j)
  /\ \A u \in Uploads :
       SourceOf[u] = s /\ sidecar[u] = "ready" /\ Latest(u) => Served(u)
  /\ \A u \in Uploads : SourceOf[u] = s /\ sidecar[u] = "ready" => Current(u)

ServedInv == \A u \in Uploads : Excused(SourceOf[u]) \/ SourceGood(SourceOf[u])

\* The invariants of documents so far.
DocsInv == KbTypeInv /\ JudgedInv /\ OrderInv /\ BegunInv

\* More of what a step of a job leaves alone: everything of other sources.
LEMMA SourceFrame ==
  ASSUME DocsInv, NEW i \in Jobs, JobStep(i)
  PROVE  /\ UNCHANGED <<version, tried>>
         /\ job'[i] \notin {"idle", "rename"}
         /\ \A u \in Uploads :
              (u \in stored' <=> u \in stored) \/ SourceOf[u] = Source(i)
<1> USE DEF dirVars, jobVars, JobGoto, DocsInv, KbTypeInv, Source
<1>1. CASE i \in Uploads /\ Rename(i)
  BY <1>1 DEF Rename, BegunInv, Begun, UnderWay, Rest
<1>2. CASE MarkUploadStatus(i)
  BY <1>2, KbCommon DEF MarkUploadStatus
<1>3. CASE OpenMetadata(i)
  BY <1>3, KbCommon DEF OpenMetadata, Unwritten
<1>4. CASE WriteMetadata(i)
  BY <1>4, KbCommon DEF WriteMetadata, Unwritten
<1>5. CASE RemoveFile(i)
  <2>1. SourceOf[Victim(i)] = SourceOf[doc[i]]
    BY <1>5 DEF RemoveFile, OrderInv, Stage, Victim
  <2> QED BY <1>5, <2>1 DEF RemoveFile, RemovalFails
<1>6. CASE RemoveMetadata(i)
  BY <1>6 DEF RemoveMetadata, RemovalFails, AfterRemoval
<1>7. CASE LoadFile(i) \/ InsertChunks(i) \/ QueryChunks(i) \/ PurgeChunks(i)
           \/ ListFiles(i) \/ ReadFile(i) \/ SetSharedBM25Index(i)
           \/ ListReplaced(i) \/ LookupUpload(i)
  BY <1>7 DEF LoadFile, InsertChunks, Failed, QueryChunks, PurgeChunks,
    VectorFails, AfterPurge, ListFiles, ReadFile, SetSharedBM25Index,
    ListReplaced, LookupUpload
<1> QED
  BY <1>1, <1>2, <1>3, <1>4, <1>5, <1>6, <1>7 DEF JobStep

\* Which records a step of a job changes.
LEMMA RecordFrame ==
  ASSUME DocsInv, NEW i \in Jobs, JobStep(i), NEW u \in Uploads,
         sidecar'[u] # sidecar[u]
  PROVE  \/ /\ u = doc[i] /\ job[i] = "open" /\ job'[i] = "write"
            /\ sidecar'[u] = "torn"
         \/ /\ u = doc[i] /\ job[i] = "write" /\ sidecar'[u] = verdict[i]
            /\ job'[i] = IF verdict[i] = "indexing" THEN "load" ELSE AfterMark(i)
            /\ UNCHANGED stored
         \/ /\ job[i] = "unlabel" /\ sidecar'[u] = "none"
            /\ u = doc[i] => i \in deletes
<1> USE DEF dirVars, jobVars, JobGoto, DocsInv, KbTypeInv
<1>1. CASE OpenMetadata(i)
  BY <1>1 DEF OpenMetadata
<1>2. CASE WriteMetadata(i)
  <2>1. sidecar[doc[i]] = "torn"
    BY <1>2 DEF WriteMetadata, BegunInv, Begun, UnderWay, Rest
  <2>2. Written("torn", verdict[i]) = verdict[i]
    BY DEF Written, Longer
  <2> QED BY <1>2, <2>1, <2>2 DEF WriteMetadata
<1>3. CASE RemoveMetadata(i)
  <2>1. Victim(i) = doc[i] => i \in deletes
    BY <1>3 DEF RemoveMetadata, OrderInv, Stage, Victim
  <2> QED BY <1>3, <2>1 DEF RemoveMetadata
<1>4. CASE JobStep(i) /\ ~OpenMetadata(i) /\ ~WriteMetadata(i)
           /\ ~RemoveMetadata(i)
  BY <1>4 DEF JobStep, Rename, MarkUploadStatus, LoadFile, InsertChunks,
    QueryChunks, PurgeChunks, ListFiles, ReadFile, SetSharedBM25Index,
    ListReplaced, LookupUpload, RemoveFile
<1> QED BY <1>1, <1>2, <1>3, <1>4

LEMMA BegunByStep ==
  ASSUME DocsInv, NEW i \in Jobs, JobStep(i)
  PROVE  BegunInv'
<1> USE DEF DocsInv
<1>1. /\ UnderWay(i) /\ UNCHANGED <<doc, deletes, version, tried>>
      /\ \A k \in Jobs \ {i} : job'[k] = job[k] /\ verdict'[k] = verdict[k]
      /\ job'[i] \notin {"idle", "rename"} /\ doc[i] \in Uploads
  BY StepFrame, SourceFrame DEF KbTypeInv
\* Who opens or writes a record has made it, or has seen it.
<1>2. ASSUME NEW u \in Uploads, job'[u] \in {"idle", "rename"}
      PROVE  sidecar'[u] = "none"
  <2>1. u # i /\ sidecar[u] = "none"
    BY <1>1, <1>2 DEF BegunInv, Jobs
  <2>2. ASSUME u = doc[i], job[i] \in {"open", "write"} PROVE FALSE
    <3>1. i \notin Uploads /\ i \notin deletes
      BY <1>1, <2>1, <2>2 DEF BegunInv, Begun, JudgedInv, RemovalSteps
    <3> QED BY <1>1, <2>1, <2>2, <3>1 DEF BegunInv, Begun, Unrecorded
  <2> QED BY <2>1, <2>2, RecordFrame
<1>3. ASSUME NEW k \in Jobs \ {i} PROVE Begun(k)'
  <2>1. CASE ~UnderWay(k)
    BY <1>1, <2>1 DEF Begun, UnderWay
  <2>2. CASE UnderWay(k)
    <3>1. Source(k) # Source(i) /\ doc[k] \in Uploads
      BY <1>1, <2>2 DEF OrderInv, Alone, KbTypeInv
    <3>2. \A u \in Uploads : SourceOf[u] = Source(k) => sidecar'[u] = sidecar[u]
      BY <3>1, StepFrame
    <3>3. sidecar'[doc[k]] = sidecar[doc[k]]
      BY <3>1, <3>2 DEF Source
    <3>4. Begun(k)
      BY DEF BegunInv
    <3> QED
      BY <1>1, <2>2, <3>2, <3>3, <3>4 DEF Begun, UnderWay, Unrecorded, Source
  <2> QED BY <2>1, <2>2
<1>4. Begun(i)'
  <2> SUFFICES ASSUME UnderWay(i)' PROVE Begun(i)'
    BY DEF Begun
  <2>0. /\ i \in Uploads => doc[i] = i
        /\ i \in deletes => Source(i) \in tried
        /\ i \notin deletes /\ ~Unrecorded(i) => sidecar[doc[i]] # "none"
    BY <1>1 DEF BegunInv, Begun
  <2>1. i \notin deletes /\ ~Unrecorded(i)' => sidecar'[doc[i]] # "none"
    <3>1. CASE sidecar'[doc[i]] = sidecar[doc[i]]
      <4>1. CASE i \in Uploads /\ Rename(i)
        BY <4>1 DEF Rename, JobGoto, Unrecorded, KbTypeInv, UnderWay, Rest
      <4>2. CASE OpenMetadata(i)
        <5>1. CASE Unwritten(i)
          <6>1. job'[i] = AfterMark(i) /\ verdict' = verdict
            BY <4>2, <5>1 DEF OpenMetadata, Unwritten, JobGoto, jobVars, KbTypeInv
          <6>2. verdict[i] # "indexing"
            BY <2>0, <6>1, <1>1 DEF AfterMark, UnderWay, Rest
          <6> QED BY <2>0, <3>1, <4>2, <6>2 DEF OpenMetadata, Unrecorded
        <5>2. CASE ~Unwritten(i)
          BY <1>1, <4>2, <5>2 DEF OpenMetadata, KbTypeInv
        <5> QED BY <5>1, <5>2
      <4>3. CASE ~(i \in Uploads /\ Rename(i)) /\ ~OpenMetadata(i)
        <5>1. job[i] \notin {"rename", "open"}
          BY <4>3 DEF JobStep, MarkUploadStatus, WriteMetadata, LoadFile,
            InsertChunks, QueryChunks, PurgeChunks, ListFiles, ReadFile,
            SetSharedBM25Index, ListReplaced, LookupUpload, RemoveFile,
            RemoveMetadata
        <5> QED BY <2>0, <3>1, <5>1 DEF Unrecorded
      <4> QED BY <4>1, <4>2, <4>3
    <3>2. CASE sidecar'[doc[i]] # sidecar[doc[i]]
      BY <1>1, <3>2, RecordFrame DEF KbTypeInv, DocStatuses
    <3> QED BY <3>1, <3>2
  <2>2. job'[i] = "open" => sidecar'[doc[i]] # "torn"
    <3>1. CASE i \in Uploads /\ Rename(i)
      <4>1. sidecar[i] = "none" /\ UNCHANGED sidecar
        BY <3>1 DEF Rename, BegunInv
      <4> QED BY <2>0, <3>1, <4>1
    <3>2. CASE MarkUploadStatus(i)
      BY <3>2, KbCommon DEF MarkUploadStatus, JobGoto, Readable, DocStatuses, dirVars,
        KbTypeInv
    <3>3. CASE ~(i \in Uploads /\ Rename(i)) /\ ~MarkUploadStatus(i)
      BY <3>3, KbCommon DEF JobStep, OpenMetadata, WriteMetadata, Unwritten, LoadFile,
        InsertChunks, Failed, QueryChunks, PurgeChunks, VectorFails, AfterPurge,
        ListFiles, ReadFile, SetSharedBM25Index, ListReplaced, LookupUpload,
        RemoveFile, RemoveMetadata, RemovalFails, AfterRemoval, JobGoto, KbTypeInv
    <3> QED BY <3>1, <3>2, <3>3
  <2>3. job'[i] = "write" => sidecar'[doc[i]] = "torn"
    BY <1>1, KbCommon DEF JobStep, Rename, MarkUploadStatus, OpenMetadata, WriteMetadata,
      Unwritten, LoadFile, InsertChunks, Failed, QueryChunks, PurgeChunks,
      VectorFails, AfterPurge, ListFiles, ReadFile, SetSharedBM25Index,
      ListReplaced, LookupUpload, RemoveFile, RemoveMetadata, RemovalFails,
      AfterRemoval, JobGoto, KbTypeInv
  <2>4. ASSUME job'[i] \in {"unlink", "unlabel"}, i \notin deletes,
               NEW u \in Uploads, SourceOf[u] = Source(i)
        PROVE  sidecar'[u] # "torn"
    <3>1. CASE ListReplaced(i)
      BY <2>4, <3>1 DEF ListReplaced, Listable, JobGoto, dirVars, KbTypeInv
    <3>2. CASE ~ListReplaced(i)
      <4>1. job[i] \in {"unlink", "unlabel"}
        BY <2>4, <3>2, KbCommon DEF JobStep, Rename, MarkUploadStatus, OpenMetadata,
          WriteMetadata, Unwritten, LoadFile, InsertChunks, Failed, QueryChunks,
          PurgeChunks, VectorFails, AfterPurge, ListFiles, ReadFile,
          SetSharedBM25Index, LookupUpload, RemoveFile, RemoveMetadata,
          JobGoto, KbTypeInv, OrderInv, Stage
      <4>2. sidecar[u] # "torn"
        BY <1>1, <2>4, <4>1 DEF BegunInv, Begun
      <4> QED BY <4>1, <4>2, RecordFrame
    <3> QED BY <3>1, <3>2
  <2> QED BY <1>1, <2>0, <2>1, <2>2, <2>3, <2>4 DEF Begun, Source
<1> QED
  BY <1>1, <1>2, <1>3, <1>4 DEF BegunInv

\* A record left half written stays so.
LEMMA ExcusedByStep ==
  ASSUME DocsInv, NEW i \in Jobs, JobStep(i), NEW s, Excused(s)
  PROVE  Excused(s)'
<1> USE DEF DocsInv
<1>1. UNCHANGED <<doc, deletes, tried>> /\ doc[i] \in Uploads /\ UnderWay(i)
  BY StepFrame, SourceFrame DEF KbTypeInv
<1>2. CASE s \in tried
  BY <1>1, <1>2 DEF Excused
<1>3. CASE s \notin tried
  <2>1. PICK u \in Uploads : /\ SourceOf[u] = s /\ sidecar[u] = "torn"
                             /\ \A j \in Jobs : job[j] = "write" => doc[j] # u
    BY <1>3 DEF Excused
  <2>2. job[i] = "open" => u # doc[i]
    BY <1>1, <2>1 DEF BegunInv, Begun
  <2>3. job[i] = "unlabel" => SourceOf[u] # Source(i)
    BY <1>1, <1>3, <2>1 DEF BegunInv, Begun
  <2>4. sidecar'[u] = "torn"
    BY <2>1, <2>2, <2>3, RecordFrame, StepFrame
  <2>5. job'[i] = "write" => job[i] = "open"
    BY <1>1, KbCommon DEF JobStep, Rename, MarkUploadStatus, OpenMetadata, WriteMetadata,
      Unwritten, LoadFile, InsertChunks, Failed, QueryChunks, PurgeChunks,
      VectorFails, AfterPurge, ListFiles, ReadFile, SetSharedBM25Index,
      ListReplaced, LookupUpload, RemoveFile, RemoveMetadata, RemovalFails,
      AfterRemoval, JobGoto, KbTypeInv
  <2>6. \A j \in Jobs : job'[j] = "write" => doc'[j] # u
    BY <1>1, <2>1, <2>2, <2>5, StepFrame
  <2> QED BY <2>1, <2>4, <2>6 DEF Excused
<1> QED BY <1>2, <1>3

\* A step of a job leaves what holds of the other sources.
LEMMA GoodElsewhere ==
  ASSUME DocsInv, NEW i \in Jobs, JobStep(i), NEW s, SourceGood(s),
         s # Source(i)
  PROVE  SourceGood(s)'
<1> USE DEF DocsInv
<1>1. /\ UNCHANGED <<doc, deletes, version, tried>> /\ doc[i] \in Uploads
      /\ UnderWay(i)
      /\ \A k \in Jobs \ {i} : job'[k] = job[k] /\ verdict'[k] = verdict[k]
  BY StepFrame, SourceFrame DEF KbTypeInv
<1>2. \A u \in Uploads : SourceOf[u] = s =>
        /\ sidecar'[u] = sidecar[u]
        /\ u \in stored' <=> u \in stored
  BY StepFrame, SourceFrame
<1>3. \A c : c \in chunks' /\ SourceOf[c[1]] = s <=>
             c \in chunks /\ SourceOf[c[1]] = s
  BY <1>1, StepFrame DEF Source
<1>4. Recorded(s)' = Recorded(s)
  BY <1>2 DEF Recorded
<1>5. \A u \in Uploads : SourceOf[u] = s => (Latest(u)' <=> Latest(u))
  BY <1>1, <1>4 DEF Latest
<1>6. ASSUME NEW j \in Jobs, UnderWay(j)', Source(j)' = s PROVE Leading(j)'
  <2>1. j # i /\ Source(j) = s
    BY <1>1, <1>6 DEF Source
  <2>2. UnderWay(j) /\ doc[j] \in Uploads /\ SourceOf[doc[j]] = s
    BY <1>1, <1>6, <2>1 DEF UnderWay, KbTypeInv, Source
  <2>3. Leading(j)
    BY <2>1, <2>2 DEF SourceGood
  <2>4. Latest(doc[j])' <=> Latest(doc[j])
    BY <1>1, <1>5, <2>2
  <2>5. <<doc[j], j>> \in chunks => <<doc[j], j>> \in chunks'
    BY <1>3, <2>2
  <2> QED
    BY <1>1, <1>2, <2>1, <2>2, <2>3, <2>4, <2>5 DEF Leading, PastInsert
<1>7. ASSUME NEW u \in Uploads, SourceOf[u] = s, sidecar'[u] = "ready", Latest(u)'
      PROVE  Served(u)'
  <2>1. Served(u)
    BY <1>2, <1>5, <1>7 DEF SourceGood
  <2> QED BY <1>2, <1>3, <1>7, <2>1 DEF Served
<1>8. ASSUME NEW u \in Uploads, SourceOf[u] = s, sidecar'[u] = "ready"
      PROVE  Current(u)'
  <2>1. Current(u)
    BY <1>2, <1>8 DEF SourceGood
  <2> QED BY <1>1, <1>3, <1>8, <2>1 DEF Current
<1> QED
  BY <1>1, <1>4, <1>6, <1>7, <1>8 DEF SourceGood

\* An indexing places its version step by step, before it shows it as ready.
LEMMA LeadingByStep ==
  ASSUME DocsInv, NEW i \in Jobs, JobStep(i), i \notin deletes, Leading(i),
         Latest(doc[i])', UnderWay(i)'
  PROVE  Leading(i)'
<1> DEFINE d == doc[i]
           Placed == PastInsert(i) \/ job[i] = "insert" => d \in stored
           Inserted == PastInsert(i) => <<d, i>> \in chunks
           Unready == job[i] \notin {"others", "unlink", "unlabel"}
                        => sidecar[d] # "ready"
<1> USE DEF DocsInv
<1>0. /\ UNCHANGED <<doc, deletes>> /\ d \in Uploads /\ UnderWay(i)
      /\ Placed /\ Inserted /\ Unready
  BY StepFrame DEF KbTypeInv, Leading
<1> SUFFICES Placed' /\ Inserted' /\ Unready'
  BY DEF Leading
<1> USE KbCommon DEF JobGoto, KbTypeInv, dirVars, jobVars, PastInsert
<1>1. CASE i \in Uploads /\ Rename(i)
  <2>1. /\ job'[i] = "open" /\ verdict'[i] = "indexing" /\ UNCHANGED sidecar
    BY <1>0, <1>1 DEF Rename, UnderWay, Rest
  <2>2. sidecar[d] = "none"
    BY <1>0, <1>1 DEF Rename, BegunInv, Begun
  <2> QED BY <1>0, <2>1, <2>2
<1>2. CASE MarkUploadStatus(i)
  <2>1. UNCHANGED <<stored, chunks, sidecar, verdict>> /\ job[i] = "mark"
    BY <1>2 DEF MarkUploadStatus
  <2>2. job'[i] = "open" \/ (job'[i] = "others" /\ verdict[i] = "ready")
    BY <1>0, <1>2 DEF MarkUploadStatus, AfterMark, UnderWay, Rest, DocStatuses
  <2> QED BY <1>0, <2>1, <2>2
<1>3. CASE OpenMetadata(i)
  <2>1. CASE Unwritten(i) /\ UNCHANGED sidecar
    <3>1. job'[i] = "others" /\ verdict[i] = "ready" /\ stored' = stored
      BY <1>0, <1>3, <2>1 DEF OpenMetadata, Unwritten, AfterMark, UnderWay, Rest,
        DocStatuses
    <3> QED BY <1>0, <1>3, <3>1 DEF OpenMetadata
  <2>2. CASE /\ sidecar' = [sidecar EXCEPT ![doc[i]] = "torn"]
             /\ JobGoto(i, "write")
             /\ UNCHANGED <<stored, hit>>
    BY <1>0, <1>3, <2>2 DEF OpenMetadata
  <2> QED BY <1>3, <2>1, <2>2 DEF OpenMetadata
<1>4. CASE WriteMetadata(i)
  <2>1. CASE Unwritten(i) /\ UNCHANGED sidecar
    <3>1. job'[i] = "others" /\ verdict[i] = "ready" /\ stored' = stored
      BY <1>0, <1>4, <2>1 DEF WriteMetadata, Unwritten, AfterMark, UnderWay, Rest,
        DocStatuses
    <3> QED BY <1>0, <1>4, <3>1 DEF WriteMetadata
  <2>2. CASE ~(Unwritten(i) /\ UNCHANGED sidecar)
    <3>1. /\ sidecar'[d] = verdict[i] /\ UNCHANGED <<stored, chunks, verdict>>
          /\ job[i] = "write"
          /\ job'[i] = IF verdict[i] = "indexing" THEN "load" ELSE AfterMark(i)
      <4>1. sidecar[d] = "torn" /\ verdict[i] # "torn"
        BY <1>0, <1>4 DEF WriteMetadata, BegunInv, Begun, DocStatuses
      <4>2. Written("torn", verdict[i]) = verdict[i]
        BY DEF Written, Longer
      <4> QED BY <1>0, <1>4, <2>2, <4>1, <4>2 DEF WriteMetadata
    <3>2. \/ verdict[i] = "indexing" /\ job'[i] = "load"
          \/ verdict[i] = "ready" /\ job'[i] = "others"
      BY <1>0, <3>1 DEF AfterMark, UnderWay, Rest, DocStatuses
    <3> QED BY <1>0, <3>1, <3>2
  <2> QED BY <2>1, <2>2
<1>5. CASE LoadFile(i)
  BY <1>0, <1>5 DEF LoadFile, Failed, Loadable
<1>6. CASE InsertChunks(i)
  BY <1>0, <1>6 DEF InsertChunks, Failed
<1>7. CASE QueryChunks(i)
  BY <1>0, <1>7 DEF QueryChunks, VectorFails, Failed, AfterPurge
<1>8. CASE PurgeChunks(i)
  <2>1. <<d, i>> \notin doomed[i]
    BY <1>8 DEF PurgeChunks, OrderInv, Stage, Others, Kept
  <2> QED BY <1>0, <1>8, <2>1 DEF PurgeChunks, VectorFails, Failed, AfterPurge
<1>9. CASE ListFiles(i)
  BY <1>0, <1>9 DEF ListFiles
<1>10. CASE ReadFile(i)
  BY <1>0, <1>10 DEF ReadFile
<1>11. CASE SetSharedBM25Index(i)
  BY <1>0, <1>11 DEF SetSharedBM25Index
<1>12. CASE ListReplaced(i)
  BY <1>0, <1>12 DEF ListReplaced, UnderWay, Rest
<1>13. ~LookupUpload(i)
  BY DEF LookupUpload, OrderInv, Stage
<1>14. CASE RemoveFile(i)
  <2>1. Victim(i) # d
    BY <1>14 DEF RemoveFile, OrderInv, Stage, Victim
  <2> QED BY <1>0, <1>14, <2>1 DEF RemoveFile, RemovalFails, UnderWay, Rest
<1>15. CASE RemoveMetadata(i)
  BY <1>0, <1>15 DEF RemoveMetadata, RemovalFails, AfterRemoval, UnderWay, Rest
<1> QED
  BY <1>1, <1>2, <1>3, <1>4, <1>5, <1>6, <1>7, <1>8, <1>9, <1>10, <1>11,
     <1>12, <1>13, <1>14, <1>15 DEF JobStep

\* What holds of the source a step is about.
LEMMA GoodByStep ==
  ASSUME DocsInv, NEW i \in Jobs, JobStep(i), NEW s, s = Source(i),
         SourceGood(s), ~Excused(s)
  PROVE  SourceGood(s)'
<1> DEFINE d == doc[i]
<1> USE DEF DocsInv
<1>1. /\ UNCHANGED <<doc, deletes, version, tried>> /\ d \in Uploads
      /\ UnderWay(i) /\ SourceOf[d] = s
      /\ \A k \in Jobs \ {i} : job'[k] = job[k] /\ verdict'[k] = verdict[k]
  BY StepFrame, SourceFrame DEF KbTypeInv, Source
<1>2. i \notin deletes /\ Leading(i) /\ Latest(d) /\ version \in [Uploads -> Nat]
  BY <1>1 DEF Excused, BegunInv, Begun, SourceGood, Leading
<1>3. Recorded(s)' \subseteq Recorded(s) \cup {d}
  BY <1>1, RecordFrame DEF Recorded
<1>4. d \in Recorded(s) => d \in Recorded(s)'
  BY <1>1, <1>2, RecordFrame DEF Recorded, KbTypeInv, DocStatuses
<1>5. \A r \in Recorded(s)' \ {d} : r \in Uploads /\ version[r] < version[d]
  BY <1>1, <1>2, <1>3 DEF Latest, Recorded
<1>6. Latest(d)'
  BY <1>1, <1>5 DEF Latest, Source
<1>7. ASSUME NEW u \in Recorded(s)', NEW r \in Recorded(s)', version[u] = version[r]
      PROVE  u = r
  <2>1. CASE u # d /\ r # d
    BY <1>3, <1>7, <2>1 DEF SourceGood
  <2>2. CASE u = d \/ r = d
    BY <1>2, <1>5, <1>7, <2>2
  <2> QED BY <2>1, <2>2
<1>8. ASSUME NEW j \in Jobs, UnderWay(j)', Source(j)' = s PROVE Leading(j)'
  <2>1. Source(j) = s /\ (j # i => UnderWay(j))
    BY <1>1, <1>8 DEF Source, UnderWay
  <2>2. j = i
    BY <1>1, <2>1 DEF OrderInv, Alone
  <2> QED BY <1>1, <1>2, <1>6, <1>8, <2>2, LeadingByStep
\* Another version is the newest only as long as this one is not recorded.
<1>9. ASSUME NEW u \in Uploads, SourceOf[u] = s, sidecar'[u] = "ready",
             Latest(u)', u # d
      PROVE  Served(u)'
  <2>1. u \in Recorded(s)'
    BY <1>9 DEF Recorded
  <2>2. version[u] < version[d] /\ version[u] \in Nat /\ version[d] \in Nat
    BY <1>1, <1>2, <1>5, <1>9, <2>1
  <2>3. d \notin Recorded(s)'
    BY <1>1, <1>9, <2>2 DEF Latest
  <2>4. d \notin Recorded(s)
    BY <1>4, <2>3
  <2>5. Unrecorded(i)
    BY <1>1, <1>2, <2>4 DEF BegunInv, Begun, Recorded
  <2>6. /\ UNCHANGED <<chunks, sidecar>>
        /\ u \in stored => u \in stored'
    <3>1. CASE Rename(i)
      BY <3>1 DEF Rename
    <3>2. CASE OpenMetadata(i)
      <4>1. sidecar'[d] = "none"
        BY <1>1, <2>3 DEF Recorded, Source
      <4>2. Unwritten(i) /\ UNCHANGED sidecar
        BY <1>1, <3>2, <4>1 DEF OpenMetadata, KbTypeInv
      <4> QED BY <1>9, <3>2, <4>2 DEF OpenMetadata, Unwritten
    <3> QED BY <2>5, <3>1, <3>2 DEF Unrecorded, JobStep, MarkUploadStatus,
      WriteMetadata, LoadFile, InsertChunks, QueryChunks, PurgeChunks, ListFiles,
      ReadFile, SetSharedBM25Index, ListReplaced, LookupUpload, RemoveFile,
      RemoveMetadata
  <2>7. Recorded(s)' = Recorded(s)
    BY <2>6 DEF Recorded
  <2>8. Latest(u)
    BY <1>1, <1>9, <2>7 DEF Latest
  <2>9. Served(u)
    BY <1>9, <2>6, <2>8 DEF SourceGood
  <2> QED BY <2>6, <2>9 DEF Served
<1>10. ASSUME sidecar'[d] = "ready" PROVE Served(d)'
  <2>1. CASE sidecar[d] = "ready"
    <3>1. job[i] \in {"others", "unlink", "unlabel"}
      BY <1>2, <2>1 DEF Leading
    <3>2. Served(d)
      BY <1>1, <1>2, <2>1 DEF SourceGood
    <3>3. job[i] \in {"unlink", "unlabel"} => Victim(i) # d
      BY <1>2 DEF OrderInv, Stage, Victim
    <3>4. UNCHANGED chunks /\ (d \in stored => d \in stored')
      BY <3>1, <3>3 DEF JobStep, Rename, MarkUploadStatus, OpenMetadata,
        WriteMetadata, LoadFile, InsertChunks, QueryChunks, PurgeChunks,
        ListFiles, ReadFile, SetSharedBM25Index, ListReplaced, LookupUpload,
        RemoveFile, RemovalFails, RemoveMetadata, dirVars
    <3> QED BY <1>1, <3>2, <3>4 DEF Served
  <2>2. CASE sidecar[d] # "ready"
    <3>1. job[i] = "write" /\ verdict[i] = "ready" /\ UNCHANGED stored
      BY <1>1, <1>10, <2>2, RecordFrame
    <3>2. UNCHANGED chunks
      BY <3>1 DEF JobStep, Rename, MarkUploadStatus, OpenMetadata,
        WriteMetadata, LoadFile, InsertChunks, QueryChunks, PurgeChunks,
        ListFiles, ReadFile, SetSharedBM25Index, ListReplaced, LookupUpload,
        RemoveFile, RemoveMetadata
    <3>3. d \in stored /\ <<d, i>> \in chunks
      BY <1>2, <3>1 DEF Leading, PastInsert
    <3>4. Others(i) = {}
      BY <3>1 DEF OrderInv, Stage, PastPurge
    <3>5. \A c \in chunks : SourceOf[c[1]] = s => c = <<d, i>>
      BY <1>2, <3>4 DEF Others, Kept
    <3> QED BY <1>1, <3>1, <3>2, <3>3, <3>5 DEF Served
  <2> QED BY <2>1, <2>2
<1>11. \A u, r \in Recorded(s)' : version'[u] = version'[r] => u = r
  BY <1>1, <1>7
\* What the step inserts is of a newer version, what it deletes it replaces.
<1>12. ASSUME NEW u \in Uploads, SourceOf[u] = s, sidecar'[u] = "ready", u # d
       PROVE  Current(u)'
  <2>1. sidecar[u] = "ready"
    BY <1>12, RecordFrame
  <2>2. Current(u)
    BY <1>12, <2>1 DEF SourceGood
  <2>3. version[u] < version[d]
    BY <1>5, <1>12 DEF Recorded
  <2>4. \A c \in chunks' \ chunks : c = <<d, i>>
    BY StepFrame
  <2>5. \A c \in chunks' :
          SourceOf[c[1]] = s => c[1] = u \/ version[u] < version[c[1]]
    BY <1>12, <2>2, <2>3, <2>4 DEF Current
  <2>6. \E c \in chunks' : SourceOf[c[1]] = s
    <3>1. CASE PurgeChunks(i)
      <4>1. <<d, i>> \in chunks
        BY <1>2, <3>1 DEF PurgeChunks, Leading, PastInsert
      <4>2. <<d, i>> \notin doomed[i]
        BY <1>2, <3>1 DEF PurgeChunks, OrderInv, Stage, Others, Kept
      <4>3. <<d, i>> \in chunks'
        BY <3>1, <4>1, <4>2 DEF PurgeChunks
      <4> QED BY <1>1, <4>3
    <3>2. CASE ~PurgeChunks(i)
      <4>1. chunks \subseteq chunks'
        BY <3>2 DEF JobStep, Rename, MarkUploadStatus, OpenMetadata, WriteMetadata,
          LoadFile, InsertChunks, QueryChunks, ListFiles, ReadFile,
          SetSharedBM25Index, ListReplaced, LookupUpload, RemoveFile,
          RemoveMetadata, dirVars
      <4> QED BY <1>12, <2>2, <4>1 DEF Current
    <3> QED BY <3>1, <3>2
  <2> QED BY <1>1, <1>12, <2>5, <2>6 DEF Current
<1>13. ASSUME sidecar'[d] = "ready" PROVE Current(d)'
  BY <1>10, <1>13 DEF Served, Current
<1> QED
  BY <1>1, <1>8, <1>9, <1>10, <1>11, <1>12, <1>13 DEF SourceGood

LEMMA ServedBySave ==
  ASSUME Patient, DocsInv, ServedInv, NEW u \in Uploads, SaveUpload(u)
  PROVE  BegunInv' /\ ServedInv'
<1> USE DEF DocsInv, JobGoto, Source
<1>0. /\ job[u] = "idle" /\ sidecar[u] = "none" /\ u \in Jobs
      /\ UNCHANGED <<stored, sidecar, chunks, deletes, verdict, tried>>
      /\ \A k \in Jobs \ {u} : job'[k] = job[k] /\ doc'[k] = doc[k]
  BY DEF SaveUpload, BegunInv, Jobs, KbTypeInv
<1>1. \/ /\ Listable /\ job'[u] = "rename" /\ doc'[u] = u
         /\ version' = [version EXCEPT ![u] = NextVersion(u)]
      \/ job'[u] = "ended" /\ UNCHANGED <<doc, version>>
  BY <1>0 DEF SaveUpload, KbTypeInv
<1>2. /\ NextVersion(u) \in Nat
      /\ \A r \in Records(SourceOf[u]) : version[r] < NextVersion(u)
  BY VersionAbove DEF BegunInv
<1>3. BegunInv'
  <2>1. version' \in [Uploads -> Nat]
    BY <1>1, <1>2 DEF BegunInv
  <2>2. \A v \in Uploads : job'[v] \in {"idle", "rename"} => sidecar'[v] = "none"
    BY <1>0 DEF BegunInv, Jobs
  <2>3. Begun(u)'
    BY <1>0, <1>1, UploadsAssumption DEF Begun, UnderWay, Rest, Unrecorded, KbTypeInv
  <2>4. \A k \in Jobs \ {u} : Begun(k)'
    BY <1>0 DEF BegunInv, Begun, UnderWay, Unrecorded
  <2> QED BY <2>1, <2>2, <2>3, <2>4 DEF BegunInv
<1>4. ASSUME NEW s, Excused(s) PROVE Excused(s)'
  BY <1>0, <1>1, <1>4 DEF Excused
<1>5. ASSUME NEW s, SourceGood(s) PROVE SourceGood(s)'
  <2>1. Recorded(s)' = Recorded(s) /\ u \notin Recorded(s)
    BY <1>0 DEF Recorded
  <2>2. \A r \in Uploads \ {u} : version'[r] = version[r]
    BY <1>1 DEF BegunInv
  <2>3. \A r \in Uploads \ {u} : SourceOf[r] = s => (Latest(r)' <=> Latest(r))
    BY <2>1, <2>2 DEF Latest, Recorded
  <2>4. \A v, r \in Recorded(s)' : version'[v] = version'[r] => v = r
    BY <1>5, <2>1, <2>2 DEF SourceGood, Recorded
  <2>5. ASSUME NEW v \in Uploads, SourceOf[v] = s, sidecar'[v] = "ready",
               Latest(v)'
        PROVE  Served(v)'
    <3>1. Served(v)
      BY <1>0, <1>5, <2>3, <2>5 DEF SourceGood
    <3> QED BY <1>0, <3>1 DEF Served
  <2>7. ASSUME NEW v \in Uploads, SourceOf[v] = s, sidecar'[v] = "ready"
        PROVE  Current(v)'
    <3>1. Current(v) /\ v # u
      BY <1>0, <1>5, <2>7 DEF SourceGood
    <3>2. \A c \in chunks : c[1] \in Uploads \ {u}
      BY <1>0 DEF OrderInv, Shown, KbTypeInv, Chunks
    <3> QED BY <1>0, <2>2, <3>1, <3>2 DEF Current
  <2>6. ASSUME NEW j \in Jobs, UnderWay(j)', Source(j)' = s PROVE Leading(j)'
    <3>1. CASE j # u
      <4>1. UnderWay(j) /\ Source(j) = s /\ doc[j] \in Uploads
        BY <1>0, <2>6, <3>1 DEF UnderWay, KbTypeInv
      <4>2. doc[j] # u
        <5>1. CASE j \in Uploads
          BY <3>1, <4>1, <5>1 DEF BegunInv, Begun
        <5>2. CASE SourceOf[u] = s
          BY <4>1, <5>2 DEF SaveUpload, Busy
        <5> QED BY <4>1, <5>2
      <4>3. Leading(j)
        BY <1>5, <4>1 DEF SourceGood
      <4> QED BY <1>0, <2>3, <3>1, <4>1, <4>2, <4>3 DEF Leading, PastInsert
    <3>2. CASE j = u
      <4>1. /\ Listable /\ job'[u] = "rename" /\ doc'[u] = u
            /\ version' = [version EXCEPT ![u] = NextVersion(u)]
            /\ SourceOf[u] = s
        BY <1>0, <1>1, <2>6, <3>2 DEF UnderWay, Rest
      <4>2. Recorded(s) = Records(s)
        BY <4>1 DEF Recorded, Records, Readable, Listable, KbTypeInv, DocStatuses
      <4>3. version'[u] = NextVersion(u)
        BY <4>1 DEF BegunInv
      <4>4. \A r \in Recorded(s) : version'[r] < version'[u]
        BY <1>2, <2>1, <2>2, <4>1, <4>2, <4>3 DEF Recorded
      <4>5. Latest(u)'
        BY <2>1, <4>1, <4>4 DEF Latest
      <4> QED BY <1>0, <3>2, <4>1, <4>5 DEF Leading, PastInsert
    <3> QED BY <3>1, <3>2
  <2> QED BY <2>4, <2>5, <2>6, <2>7 DEF SourceGood
<1> QED BY <1>3, <1>4, <1>5 DEF ServedInv

LEMMA ServedByCall ==
  ASSUME Patient, DocsInv, ServedInv, NEW i \in UserCalls, NEW d \in Uploads,
         DeleteDocument(i, d) \/ RetryDocumentIndex(i, d)
  PROVE  BegunInv' /\ ServedInv'
<1> USE DEF DocsInv, JobGoto, Source
<1>0. /\ i \in Jobs /\ i \notin Uploads /\ job[i] = "idle" /\ i \notin deletes
      /\ UNCHANGED <<stored, sidecar, version, chunks>>
      /\ \A k \in Jobs \ {i} : /\ job'[k] = job[k] /\ doc'[k] = doc[k]
                               /\ verdict'[k] = verdict[k]
                               /\ k \in deletes' <=> k \in deletes
      /\ doc'[i] = d /\ Readable(d) /\ ~Busy(SourceOf[d])
      /\ tried \subseteq tried'
  BY UploadsAssumption DEF DeleteDocument, RetryDocumentIndex, OwnedDocument,
    Jobs, KbTypeInv, JudgedInv, RemovalSteps, dirVars
<1>1. \/ job'[i] = "query" /\ SourceOf[d] \in tried'
      \/ /\ job'[i] = "mark" /\ verdict'[i] = "indexing" /\ deletes' = deletes
         /\ sidecar[d] = "failed" /\ Newest(d)
  BY <1>0 DEF DeleteDocument, RetryDocumentIndex, KbTypeInv
<1>2. BegunInv'
  <2>1. Begun(i)'
    BY <1>0, <1>1 DEF Begun, UnderWay, Rest, Unrecorded, Readable, DocStatuses
  <2>2. \A k \in Jobs \ {i} : Begun(k)'
    BY <1>0 DEF BegunInv, Begun, UnderWay, Unrecorded
  <2>3. \A u \in Uploads : job'[u] \in {"idle", "rename"} => sidecar'[u] = "none"
    BY <1>0 DEF BegunInv, Jobs
  <2> QED BY <1>0, <2>1, <2>2, <2>3 DEF BegunInv
<1>3. ASSUME NEW s, Excused(s) PROVE Excused(s)'
  <2>1. CASE s \in tried
    BY <1>0, <2>1 DEF Excused
  <2>2. CASE s \notin tried
    <3>1. PICK u \in Uploads : /\ SourceOf[u] = s /\ sidecar[u] = "torn"
                               /\ \A j \in Jobs : job[j] = "write" => doc[j] # u
      BY <1>3, <2>2 DEF Excused
    <3>2. \A j \in Jobs : job'[j] = "write" => doc'[j] # u
      BY <1>0, <1>1, <3>1
    <3> QED BY <1>0, <3>1, <3>2 DEF Excused
  <2> QED BY <2>1, <2>2
<1>4. ASSUME NEW s, SourceGood(s), ~Excused(s), ~Excused(s)' PROVE SourceGood(s)'
  <2>1. Recorded(s)' = Recorded(s)
    BY <1>0 DEF Recorded
  <2>2. \A u \in Uploads : SourceOf[u] = s => (Latest(u)' <=> Latest(u))
    BY <1>0, <2>1 DEF Latest
  <2>3. ASSUME NEW u \in Uploads, SourceOf[u] = s, sidecar'[u] = "ready",
               Latest(u)'
        PROVE  Served(u)'
    <3>1. Served(u)
      BY <1>0, <1>4, <2>2, <2>3 DEF SourceGood
    <3> QED BY <1>0, <3>1 DEF Served
  <2>5. ASSUME NEW u \in Uploads, SourceOf[u] = s, sidecar'[u] = "ready"
        PROVE  Current(u)'
    <3>1. Current(u)
      BY <1>0, <1>4, <2>5 DEF SourceGood
    <3> QED BY <1>0, <3>1 DEF Current
  <2>4. ASSUME NEW j \in Jobs, UnderWay(j)', Source(j)' = s PROVE Leading(j)'
    <3>1. CASE j # i
      <4>1. UnderWay(j) /\ Source(j) = s /\ doc[j] \in Uploads
        BY <1>0, <2>4, <3>1 DEF UnderWay, KbTypeInv
      <4>2. Leading(j)
        BY <1>4, <4>1 DEF SourceGood
      <4> QED BY <1>0, <2>2, <3>1, <4>1, <4>2 DEF Leading, PastInsert
    <3>2. CASE j = i
      <4>1. SourceOf[d] = s
        BY <1>0, <2>4, <3>2
      <4>2. /\ job'[i] = "mark" /\ verdict'[i] = "indexing"
            /\ sidecar[d] = "failed" /\ Newest(d)
        BY <1>1, <1>4, <4>1 DEF Excused
      <4>3. \A r \in Recorded(s) : Readable(r)
        <5> SUFFICES ASSUME NEW r \in Recorded(s), sidecar[r] = "torn" PROVE FALSE
          BY DEF Recorded, Readable, KbTypeInv
        <5>1. PICK j_1 \in Jobs : job[j_1] = "write" /\ doc[j_1] = r
          BY <1>4 DEF Excused, Recorded
        <5> QED BY <1>0, <4>1, <5>1 DEF Busy, UnderWay, Rest, Recorded
      <4>4. \A r \in Recorded(s) : version[r] <= version[d]
        BY <4>1, <4>2, <4>3 DEF Newest, Records, Recorded
      <4>5. d \in Recorded(s)
        BY <4>1, <4>2 DEF Recorded
      <4>6. \A r \in Recorded(s) \ {d} : version[r] # version[d]
        BY <1>4, <4>5 DEF SourceGood
      <4>7. \A r \in Recorded(s) : version[r] \in Nat
        BY DEF BegunInv, Recorded
      <4>8. Latest(d)
        BY <4>1, <4>4, <4>5, <4>6, <4>7 DEF Latest
      <4>9. Latest(d)'
        BY <2>2, <4>1, <4>8
      <4> QED BY <1>0, <3>2, <4>2, <4>9 DEF Leading, PastInsert
    <3> QED BY <3>1, <3>2
  <2> QED BY <1>0, <1>4, <2>1, <2>3, <2>4, <2>5 DEF SourceGood
<1> QED BY <1>2, <1>3, <1>4 DEF ServedInv

LEMMA ServedByCrash ==
  ASSUME DocsInv, ServedInv, KbCrash
  PROVE  BegunInv' /\ ServedInv'
<1> USE DEF DocsInv
<1>0. /\ UNCHANGED <<stored, sidecar, version, chunks, doc, deletes, tried>>
      /\ \A j \in Jobs : job'[j] \in Rest /\ (job'[j] = "idle" => job[j] = "idle")
      /\ \A j \in Jobs : ~UnderWay(j)'
  BY DEF KbCrash, dirVars, UnderWay, Rest
<1>1. BegunInv'
  BY <1>0 DEF BegunInv, Begun, Rest, Jobs
<1>2. ASSUME NEW s, Excused(s) PROVE Excused(s)'
  BY <1>0, <1>2 DEF Excused, Rest
<1>3. ASSUME NEW s, SourceGood(s) PROVE SourceGood(s)'
  <2>1. Recorded(s)' = Recorded(s)
    BY <1>0 DEF Recorded
  <2>2. \A u \in Uploads : SourceOf[u] = s => (Latest(u)' <=> Latest(u))
    BY <1>0, <2>1 DEF Latest
  <2>3. \A u \in Uploads : (Served(u)' <=> Served(u)) /\ (Current(u)' <=> Current(u))
    BY <1>0 DEF Served, Current
  <2> QED BY <1>0, <1>3, <2>1, <2>2, <2>3 DEF SourceGood
<1> QED BY <1>1, <1>2, <1>3 DEF ServedInv

LEMMA ServedKept ==
  ASSUME Patient, DocsInv, ServedInv, [KbNext]_kbVars
  PROVE  BegunInv' /\ ServedInv'
<1>1. ASSUME NEW i \in Jobs, JobStep(i) PROVE BegunInv' /\ ServedInv'
  <2>1. \A u \in Uploads : Excused(SourceOf[u]) => Excused(SourceOf[u])'
    BY <1>1, ExcusedByStep
  <2>2. ASSUME NEW u \in Uploads, ~Excused(SourceOf[u]), SourceGood(SourceOf[u])
        PROVE  SourceGood(SourceOf[u])'
    BY <1>1, <2>2, GoodElsewhere, GoodByStep
  <2> QED BY <1>1, <2>1, <2>2, BegunByStep DEF ServedInv
<1>2. CASE UNCHANGED kbVars
  <2>1. BegunInv'
    BY <1>2 DEF kbVars, dirVars, jobVars, DocsInv, BegunInv, Begun, UnderWay,
      Unrecorded, Source
  <2>2. \A s : Recorded(s)' = Recorded(s)
    BY <1>2 DEF kbVars, dirVars, Recorded
  <2>3. \A u \in Uploads : /\ Latest(u)' <=> Latest(u)
                           /\ Served(u)' <=> Served(u)
                           /\ Current(u)' <=> Current(u)
    BY <1>2, <2>2 DEF kbVars, dirVars, Latest, Served, Current
  <2>4. \A s : Excused(s)' <=> Excused(s)
    BY <1>2 DEF kbVars, dirVars, jobVars, Excused
  <2>5. \A j \in Jobs : UnderWay(j)' => (Leading(j)' <=> Leading(j))
    BY <1>2, <2>3 DEF kbVars, dirVars, jobVars, Leading, PastInsert, UnderWay,
      DocsInv, KbTypeInv
  <2>6. ASSUME NEW s, SourceGood(s) PROVE SourceGood(s)'
    BY <1>2, <2>2, <2>3, <2>5, <2>6 DEF kbVars, dirVars, jobVars, SourceGood,
      Source, UnderWay
  <2> QED BY <2>1, <2>4, <2>6 DEF ServedInv
<1> QED BY <1>1, <1>2, ServedBySave, ServedByCall, ServedByCrash DEF KbNext

\* A version shown as ready, or newer ones of its source, are what retrieval
\* finds, and the newest one is found alone (ReadyIsSearchable), at every
\* moment, whatever fails and wherever the process dies, for any number of
\* uploads, deletions and retries of users who wait for the jobs of a source
\* to end and index only its newest version again.
THEOREM ReadyIsFound ==
  ASSUME Patient
  PROVE  KbSpec => []ReadyIsSearchable
<1>1. KbInit => DocsInv /\ ServedInv
  <2> SUFFICES ASSUME KbInit PROVE DocsInv /\ ServedInv
    OBVIOUS
  <2>1. KbTypeInv
    BY KbInitTyped
  <2>2. JudgedInv /\ OrderInv
    BY DEF KbInit, JudgedInv, OrderInv, Alone, Shown, Stage, PastPurge, UnderWay,
      Rest
  <2>3. BegunInv
    BY DEF KbInit, BegunInv, Begun, UnderWay, Rest, Jobs
  <2>4. \A s : Recorded(s) = {}
    BY DEF KbInit, Recorded
  <2>5. ServedInv
    BY <2>4 DEF KbInit, ServedInv, SourceGood, UnderWay, Rest
  <2> QED BY <2>1, <2>2, <2>3, <2>5 DEF DocsInv
<1>2. DocsInv /\ ServedInv => ReadyIsSearchable
  <2> SUFFICES ASSUME DocsInv, ServedInv, NEW u \in Uploads,
                      sidecar[u] = "ready", Listable, SourceOf[u] \notin tried
               PROVE  Current(u) /\ (Newest(u) => Served(u))
    BY DEF ReadyIsSearchable
  <2>1. ~Excused(SourceOf[u])
    BY DEF Excused, Listable
  <2>2. SourceGood(SourceOf[u]) /\ version \in [Uploads -> Nat]
    BY <2>1 DEF ServedInv, DocsInv, BegunInv
  <2>3. u \in Recorded(SourceOf[u])
    BY DEF Recorded
  <2>4. \A r \in Recorded(SourceOf[u]) : r \in Records(SourceOf[u])
    BY DEF Recorded, Records, Readable, Listable, DocsInv, KbTypeInv
  <2>5. ASSUME Newest(u), NEW r \in Recorded(SourceOf[u]) \ {u}
        PROVE  version[r] < version[u]
    <3>1. version[r] <= version[u] /\ version[r] \in Nat /\ version[u] \in Nat
      BY <2>2, <2>4, <2>5 DEF Newest, Recorded
    <3>2. version[r] # version[u]
      BY <2>2, <2>3, <2>5 DEF SourceGood
    <3> QED BY <3>1, <3>2
  <2>6. Newest(u) => Latest(u)
    BY <2>5 DEF Latest
  <2> QED BY <2>2, <2>6 DEF SourceGood
<1>3. DocsInv /\ ServedInv /\ [KbNext]_kbVars => DocsInv' /\ ServedInv'
  BY ServedKept, KbTyped, JudgedKept, OrderKept DEF DocsInv
<1> QED BY <1>1, <1>2, <1>3, PTL DEF KbSpec

-----------------------------------------------------------------------------
(***************************************************************************)
(* The graph of a diagnosis                                                *)
(***************************************************************************)

Hyp == [label : Labels, level : Nat, parent : Nat, score : 0 .. TopScore,
        active : BOOLEAN, actionable : BOOLEAN]

Evid == [src : {i.src : i \in Items}, target : Nat, rel : {i.rel : i \in Items},
         active : BOOLEAN]

\* Each hypothesis comes after the one it refines, one level below it, and is
\* retracted with it.
Tree(hyps) ==
  \A x \in DOMAIN hyps :
    /\ hyps[x].parent < x
    /\ hyps[x].parent = 0 => hyps[x].level = 1
    /\ hyps[x].parent # 0 =>
         /\ hyps[x].level = hyps[hyps[x].parent].level + 1
         /\ hyps[x].active => hyps[hyps[x].parent].active

GraphOK(g) ==
  /\ g \in [hyps : Seq(Hyp), ev : SUBSET Evid]
  /\ IsFiniteSet(g.ev)
  /\ Tree(g.hyps)
  /\ ValidGraph(g)

Parent(g, x) == g.hyps[x].parent

\* A number that is not above every counterexample is not the first one.
LEMMA FirstOf ==
  ASSUME NEW T \in SUBSET Nat, T # {}
  PROVE  \E x \in T : \A y \in T : x <= y
<1>1. PICK n \in T : TRUE
  OBVIOUS
<1> DEFINE Low == {k \in T : k <= n}
           Upto(m) == {k \in T : k <= m}
           F == {Upto(m) : m \in Low}
<1>2. IsFiniteSet(Low)
  BY FS_BoundedSetOfNaturals
<1>3. IsWellFoundedOn(StrictSubsetOrdering(Low), SUBSET Low)
  BY <1>2, FS_StrictSubsetOrderingWellFounded, FS_FiniteSubsetsOfFinite
<1>4. F \subseteq SUBSET Low /\ F # {}
  <2>1. n \in Low
    OBVIOUS
  <2>2. Upto(n) \in F
    BY <2>1
  <2>3. ASSUME NEW m \in Low PROVE Upto(m) \subseteq Low
    <3>1. m \in Nat /\ n \in Nat /\ m <= n /\ \A z \in T : z \in Nat
      OBVIOUS
    <3>2. \A z \in T : z <= m => z <= n
      BY <3>1
    <3> QED BY <3>2
  <2> QED BY <2>2, <2>3
<1>5. PICK X \in F : \A Y \in F : <<Y, X>> \notin StrictSubsetOrdering(Low)
  <2> HIDE DEF F
  <2> QED BY <1>3, <1>4, WFMin, Zenon
<1>6. PICK x \in Low : X = Upto(x)
  BY <1>5
<1>7. ASSUME NEW y \in T, y < x PROVE FALSE
  <2>1. x \in Nat /\ y \in Nat /\ n \in Nat /\ \A z \in T : z \in Nat
    BY <1>1
  <2>2. y \in Low
    BY <1>6, <1>7, <2>1
  <2>3. Upto(y) \in F
    BY <2>2
  <2> HIDE DEF F
  <2>4. \A z \in T : z <= y => z <= x
    BY <1>7, <2>1
  <2>5. x \in Upto(x) /\ x \notin Upto(y)
    BY <1>6, <1>7, <2>1
  <2>6. Upto(y) \subseteq Upto(x) /\ Upto(y) # Upto(x)
    BY <2>4, <2>5
  <2>7. Upto(y) \in SUBSET Low /\ Upto(x) \in SUBSET Low
    BY <1>4, <1>5, <1>6, <2>3
  <2>8. <<Upto(y), Upto(x)>> \in StrictSubsetOrdering(Low)
    BY <2>6, <2>7 DEF StrictSubsetOrdering
  <2> QED BY <1>5, <1>6, <2>3, <2>8
<1> QED
  <2>1. x \in Nat /\ \A z \in T : z \in Nat
    OBVIOUS
  <2> QED BY <1>7, <2>1

\* The recursion that collects the hypotheses above one has a solution: for
\* each hypothesis the least set that holds its parent and theirs.
LEMMA AncestorsUnfold ==
  ASSUME NEW g, g.hyps \in Seq(Hyp), Tree(g.hyps), NEW h \in DOMAIN g.hyps
  PROVE  Ancestors(g, h) = IF Parent(g, h) = 0 THEN {}
                           ELSE {Parent(g, h)} \cup Ancestors(g, Parent(g, h))
<1> DEFINE D == DOMAIN g.hyps
           Up(f, x) == IF Parent(g, x) = 0 THEN {}
                       ELSE {Parent(g, x)} \cup f[Parent(g, x)]
           Eq(f) == f = [x \in D |-> Up(f, x)]
           up == CHOOSE f : Eq(f)
           Holds(S, x) == Parent(g, x) = 0 \/ Parent(g, x) \in S
           Closed(S) == \A x \in S : Holds(S, x)
           Least(x) == {a \in D : \A S \in SUBSET D :
                                    Closed(S) /\ Holds(S, x) => a \in S}
           least == [x \in D |-> Least(x)]
<1>1. \A x \in D : Ancestors(g, x) = up[x]
  BY DEF Ancestors, Parent
<1>2. \A x \in D : Parent(g, x) = 0 \/ Parent(g, x) \in D
  <2>1. D = 1 .. Len(g.hyps) /\ Len(g.hyps) \in Nat
    OBVIOUS
  <2>2. ASSUME NEW x \in D
        PROVE  x \in Nat /\ x <= Len(g.hyps) /\ Parent(g, x) \in Nat /\ Parent(g, x) < x
    <3>1. g.hyps[x] \in Hyp
      OBVIOUS
    <3>2. Parent(g, x) \in Nat
      BY <3>1 DEF Hyp, Parent
    <3> QED BY <2>1, <3>2 DEF Tree, Parent
  <2> HIDE DEF D
  <2>3. \A x \in D : Parent(g, x) # 0 => Parent(g, x) \in 1 .. Len(g.hyps)
    BY <2>1, <2>2
  <2> QED BY <2>1, <2>3
<1> HIDE DEF D
<1>3. ASSUME NEW x \in D PROVE Least(x) = Up(least, x)
  <2>1. CASE Parent(g, x) = 0
    <3>1. Closed({}) /\ Holds({}, x) /\ {} \in SUBSET D
      BY <2>1
    <3>2. Least(x) = {}
      BY <3>1
    <3> QED BY <2>1, <3>2
  <2>2. CASE Parent(g, x) # 0
    <3> DEFINE p == Parent(g, x)
    <3>1. p \in D /\ least[p] = Least(p)
      BY <1>2, <2>2
    <3>2. {p} \cup Least(p) \subseteq Least(x)
      <4>1. ASSUME NEW S \in SUBSET D, Closed(S), Holds(S, x)
            PROVE  p \in S /\ Holds(S, p)
        BY <2>2, <4>1
      <4> QED BY <3>1, <4>1
    <3>3. Least(x) \subseteq {p} \cup Least(p)
      <4> DEFINE S == {p} \cup Least(p)
      <4>1. S \in SUBSET D /\ Holds(S, x)
        BY <3>1
      <4>2. Holds(S, p)
        BY <1>2, <3>1
      <4>3. ASSUME NEW y \in Least(p) PROVE Holds(S, y)
        <5>1. \A U \in SUBSET D : Closed(U) /\ Holds(U, p) => Holds(U, y)
          BY <4>3
        <5>2. Parent(g, y) # 0 => Parent(g, y) \in Least(p)
          BY <1>2, <4>3, <5>1
        <5> QED BY <5>2
      <4>4. Closed(S)
        BY <4>2, <4>3
      <4> QED BY <4>1, <4>4
    <3> QED BY <2>2, <3>1, <3>2, <3>3
  <2> QED BY <2>1, <2>2
<1>4. Eq(least)
  BY <1>3
<1>5. Eq(up)
  <2> HIDE DEF Eq
  <2> QED BY <1>4
<1>6. h \in D
  BY DEF D
<1>7. up[h] = Up(up, h)
  <2> HIDE DEF up
  <2> QED BY <1>5, <1>6
<1> QED
  <2> HIDE DEF up
  <2> QED BY <1>1, <1>2, <1>6, <1>7

LEMMA TreeFacts ==
  ASSUME NEW g, g.hyps \in Seq(Hyp), Tree(g.hyps)
  PROVE  /\ DOMAIN g.hyps \subseteq Nat \ {0}
         /\ IsFiniteSet(DOMAIN g.hyps)
         /\ \A x \in DOMAIN g.hyps :
              /\ g.hyps[x] \in Hyp
              /\ Parent(g, x) = 0 \/ Parent(g, x) \in DOMAIN g.hyps
              /\ Parent(g, x) \in Nat /\ Parent(g, x) < x
              /\ g.hyps[x].level \in Nat \ {0}
<1>1. DOMAIN g.hyps = 1 .. Len(g.hyps) /\ Len(g.hyps) \in Nat
  OBVIOUS
<1>2. IsFiniteSet(DOMAIN g.hyps)
  BY <1>1, FS_Interval
<1>3. ASSUME NEW x \in DOMAIN g.hyps
      PROVE  /\ g.hyps[x] \in Hyp
             /\ Parent(g, x) = 0 \/ Parent(g, x) \in DOMAIN g.hyps
             /\ Parent(g, x) \in Nat /\ Parent(g, x) < x
  <2>1. g.hyps[x] \in Hyp
    OBVIOUS
  <2>2. Parent(g, x) \in Nat /\ Parent(g, x) < x
    BY <2>1 DEF Hyp, Parent, Tree
  <2> QED BY <1>1, <2>1, <2>2
<1>4. ASSUME NEW x \in DOMAIN g.hyps PROVE g.hyps[x].level \in Nat \ {0}
  <2>1. CASE Parent(g, x) = 0
    BY <2>1 DEF Parent, Tree
  <2>2. CASE Parent(g, x) # 0
    <3>1. g.hyps[Parent(g, x)].level \in Nat
      BY <1>3, <2>2 DEF Hyp
    <3>2. g.hyps[x].level = g.hyps[Parent(g, x)].level + 1
      BY <2>2 DEF Parent, Tree
    <3> QED BY <3>1, <3>2
  <2> QED BY <2>1, <2>2
<1> QED BY <1>1, <1>2, <1>3, <1>4

\* The hypotheses above h are older and on the levels above it, one on each,
\* and active with it.
Lineage(g, h) ==
  /\ Ancestors(g, h) \subseteq DOMAIN g.hyps
  /\ \A a \in Ancestors(g, h) :
       /\ a < h /\ g.hyps[a].level < g.hyps[h].level
       /\ g.hyps[h].active => g.hyps[a].active
  /\ \A l \in 1 .. g.hyps[h].level - 1 :
       \E a : {x \in Ancestors(g, h) : g.hyps[x].level = l} = {a}

\* Every hypothesis of a tree has such a lineage.
LEMMA AncestorFacts ==
  ASSUME NEW g, g.hyps \in Seq(Hyp), Tree(g.hyps), NEW h \in DOMAIN g.hyps
  PROVE  Lineage(g, h)
<1> DEFINE D == DOMAIN g.hyps
           Older(x) == /\ Ancestors(g, x) \subseteq D
                       /\ \A a \in Ancestors(g, x) :
                            /\ a < x /\ g.hyps[a].level < g.hyps[x].level
                            /\ g.hyps[x].active => g.hyps[a].active
           At(x, l) == {a \in Ancestors(g, x) : g.hyps[a].level = l}
           OneEach(x) == \A l \in 1 .. g.hyps[x].level - 1 : \E a : At(x, l) = {a}
           Bad == {x \in D : ~(Older(x) /\ OneEach(x))}
<1>1. D \subseteq Nat \ {0} /\ \A x \in D : g.hyps[x].level \in Nat \ {0}
  BY TreeFacts
<1>2. ASSUME NEW x \in D, \A y \in Bad : x <= y PROVE Older(x) /\ OneEach(x)
  <2>1. CASE Parent(g, x) = 0
    <3>1. Ancestors(g, x) = {} /\ g.hyps[x].level = 1
      BY <2>1, AncestorsUnfold DEF Parent, Tree
    <3> QED BY <3>1
  <2>2. CASE Parent(g, x) # 0
    <3> DEFINE p == Parent(g, x)
    <3>1. /\ p \in D /\ p < x /\ g.hyps[x].level = g.hyps[p].level + 1
          /\ g.hyps[x].active => g.hyps[p].active
      BY <2>2, TreeFacts DEF Parent, Tree
    <3>2. Ancestors(g, x) = {p} \cup Ancestors(g, p)
      BY <2>2, AncestorsUnfold
    <3>3. Older(p) /\ OneEach(p)
      <4>1. ~(x <= p)
        BY <1>1, <3>1
      <4>2. p \notin Bad
        BY <1>2, <4>1
      <4> QED BY <3>1, <4>2
    <3> HIDE DEF p
    <3>4. Older(x)
      <4>1. ASSUME NEW a \in Ancestors(g, p)
            PROVE  /\ a < x /\ g.hyps[a].level < g.hyps[x].level
                   /\ g.hyps[x].active => g.hyps[a].active
        BY <1>1, <3>1, <3>3, <4>1
      <4>2. p < x /\ g.hyps[p].level < g.hyps[x].level
        BY <1>1, <3>1
      <4> QED BY <3>1, <3>2, <3>3, <4>1, <4>2
    <3>5. ASSUME NEW l \in 1 .. g.hyps[x].level - 1 PROVE \E a : At(x, l) = {a}
      <4>1. CASE l = g.hyps[p].level
        <5>1. \A a \in Ancestors(g, p) : g.hyps[a].level # l
          BY <1>1, <3>1, <3>3, <4>1
        <5>2. At(x, l) = {p}
          BY <3>2, <4>1, <5>1
        <5> QED BY <5>2
      <4>2. CASE l # g.hyps[p].level
        <5>1. l \in 1 .. g.hyps[p].level - 1
          BY <1>1, <3>1, <4>2
        <5>2. At(x, l) = At(p, l)
          BY <3>2, <4>2
        <5> QED BY <3>3, <5>1, <5>2
      <4> QED BY <4>1, <4>2
    <3> QED BY <3>4, <3>5
  <2> QED BY <2>1, <2>2
<1>3. Bad = {}
  <2> SUFFICES ASSUME Bad # {} PROVE FALSE
    OBVIOUS
  <2>1. Bad \in SUBSET Nat
    BY <1>1
  <2>2. PICK x \in Bad : \A y \in Bad : x <= y
    <3> HIDE DEF Bad
    <3> QED BY <2>1, FirstOf
  <2>3. x \in D
    OBVIOUS
  <2> QED BY <1>2, <2>2, <2>3
<1> QED
  <2>1. Older(h) /\ OneEach(h)
    BY <1>3
  <2> QED BY <2>1 DEF Lineage

\* A level with an active hypothesis has a best one.
LEMMA BestFound ==
  ASSUME NEW g, g.hyps \in Seq(Hyp), Tree(g.hyps), NEW l, ActiveAt(g, l) # {}
  PROVE  Best(g, l) \in ActiveAt(g, l) /\ Best(g, l) # 0
<1> DEFINE S == ActiveAt(g, l)
           marks == {g.hyps[x].score : x \in S}
           m == Max(marks)
           T == {x \in S : g.hyps[x].score = m}
<1>1. /\ S \subseteq Nat \ {0} /\ IsFiniteSet(S)
      /\ \A x \in S : g.hyps[x].score \in Nat
  <2>1. S \in SUBSET DOMAIN g.hyps
    BY DEF ActiveAt
  <2>2. IsFiniteSet(S)
    BY <2>1, TreeFacts, FS_Subset
  <2>3. ASSUME NEW x \in S PROVE g.hyps[x].score \in Nat
    <3>1. g.hyps[x] \in Hyp
      BY <2>1, TreeFacts
    <3>2. g.hyps[x].score \in 0 .. TopScore
      BY <3>1 DEF Hyp
    <3> QED BY <3>2, GosAssumption
  <2> QED BY <2>1, <2>2, <2>3, TreeFacts
<1>2. m \in marks /\ \A y \in marks : y <= m
  <2>1. marks \in SUBSET Nat /\ marks # {}
    BY <1>1
  <2>2. marks \in SUBSET (0 .. TopScore)
    BY TreeFacts DEF ActiveAt, Hyp
  <2>3. IsFiniteSet(marks)
    <3>1. IsFiniteSet(0 .. TopScore)
      BY FS_Interval, GosAssumption
    <3> QED BY <2>2, <3>1, FS_Subset
  <2> HIDE DEF marks
  <2> QED BY <2>1, <2>3, LargestExists
<1>3. T \in SUBSET Nat /\ T # {}
  BY <1>1, <1>2
<1>4. PICK h \in T : \A y \in T : h <= y
  <2> HIDE DEF T
  <2> QED BY <1>3, FirstOf
<1>5. ASSUME NEW o \in S \ {h} PROVE Above(g, h, o)
  <2>1. g.hyps[o].score <= g.hyps[h].score
    BY <1>2, <1>4
  <2>2. o \in T => h <= o
    BY <1>4
  <2> QED BY <1>1, <1>4, <2>1, <2>2 DEF Above
<1>6. \E x \in S : \A o \in S \ {x} : Above(g, x, o)
  BY <1>4, <1>5
<1>7. Best(g, l) \in S
  BY <1>6 DEF Best
<1> QED BY <1>1, <1>7

\* b is g and k active hypotheses under p on level l after its own.
Grown(g, b, k, p, l) ==
  /\ b \in [hyps : Seq(Hyp), ev : SUBSET Evid] /\ b.ev = g.ev
  /\ k \in Nat /\ Len(b.hyps) = Len(g.hyps) + k
  /\ \A x \in 1 .. Len(g.hyps) : b.hyps[x] = g.hyps[x]
  /\ \A x \in Len(g.hyps) + 1 .. Len(g.hyps) + k :
        b.hyps[x].level = l /\ b.hyps[x].parent = p /\ b.hyps[x].active = TRUE

\* Candidates are appended to the hypotheses, under the parent and on the
\* level they are given.
LEMMA AddedShape ==
  ASSUME NEW g \in [hyps : Seq(Hyp), ev : SUBSET Evid], NEW p \in Nat, NEW l \in Nat,
         NEW cands \in SUBSET Proposals, IsFiniteSet(cands)
  PROVE  Grown(g, Added(g, cands, p, l), Cardinality(cands), p, l)
<1> DEFINE k == Cardinality(cands)
           InOrder(f) == \A x, y \in 1 .. k : x # y => f[x] # f[y]
           order == CHOOSE f \in [1 .. k -> cands] : InOrder(f)
           node(c) == [label |-> c.label, level |-> l, parent |-> p, score |-> c.score,
                       active |-> TRUE, actionable |-> c.actionable]
           more == [x \in 1 .. k |-> node(order[x])]
<1>1. k \in Nat
  BY FS_CardinalityType
<1>2. order \in [1 .. k -> cands]
  <2>1. \E f \in [1 .. k -> cands] : InOrder(f)
    <3>1. PICK f \in Bijection(1 .. k, cands) : TRUE
      BY FS_CardinalityType DEF ExistsBijection
    <3>2. f \in [1 .. k -> cands] /\ \A x, y \in 1 .. k : f[x] = f[y] => x = y
      <4> HIDE DEF k
      <4> QED BY <3>1 DEF Bijection, Injection, IsInjective
    <3> QED BY <3>2
  <2> HIDE DEF InOrder
  <2> QED BY <2>1
<1> HIDE DEF order
<1>3. ASSUME NEW c \in cands PROVE node(c) \in Hyp
  <2>1. c \in [label : Labels, score : 0 .. TopScore, actionable : BOOLEAN]
    BY GosAssumption
  <2> QED BY <2>1 DEF Hyp
<1>4. more \in Seq(Hyp) /\ Len(more) = k /\ \A x \in 1 .. k : more[x] = node(order[x])
  <2>1. \A x \in 1 .. k : node(order[x]) \in Hyp
    BY <1>2, <1>3
  <2> HIDE DEF node, k
  <2> QED BY <1>1, <2>1
<1>5. Added(g, cands, p, l) = [g EXCEPT !.hyps = g.hyps \o more]
  BY DEF Added, order
<1> HIDE DEF more
<1>6. /\ g.hyps \o more \in Seq(Hyp) /\ Len(g.hyps \o more) = Len(g.hyps) + k
      /\ \A x \in 1 .. Len(g.hyps) : (g.hyps \o more)[x] = g.hyps[x]
      /\ \A x \in Len(g.hyps) + 1 .. Len(g.hyps) + k :
            x - Len(g.hyps) \in 1 .. k /\ (g.hyps \o more)[x] = more[x - Len(g.hyps)]
  <2>1. Len(g.hyps) \in Nat /\ g.hyps \in Seq(Hyp)
    OBVIOUS
  <2> HIDE DEF k
  <2>2. /\ g.hyps \o more \in Seq(Hyp) /\ Len(g.hyps \o more) = Len(g.hyps) + k
        /\ \A x \in 1 .. Len(g.hyps) : (g.hyps \o more)[x] = g.hyps[x]
    <3>1. g.hyps \o more \in Seq(Hyp)
      BY <1>4, <2>1
    <3>2. Len(g.hyps \o more) = Len(g.hyps) + k
      BY <1>4, <2>1
    <3>3. ASSUME NEW x \in 1 .. Len(g.hyps) PROVE (g.hyps \o more)[x] = g.hyps[x]
      BY <1>1, <1>4, <2>1
    <3> QED BY <3>1, <3>2, <3>3
  <2>3. ASSUME NEW x \in Len(g.hyps) + 1 .. Len(g.hyps) + k
        PROVE  x - Len(g.hyps) \in 1 .. k /\ (g.hyps \o more)[x] = more[x - Len(g.hyps)]
    BY <1>1, <1>4, <2>1
  <2> QED BY <2>2, <2>3
<1>7. ASSUME NEW x \in Len(g.hyps) + 1 .. Len(g.hyps) + k
      PROVE  /\ (g.hyps \o more)[x].level = l
             /\ (g.hyps \o more)[x].parent = p
             /\ (g.hyps \o more)[x].active = TRUE
  BY <1>4, <1>6
<1>8. /\ Added(g, cands, p, l).hyps = g.hyps \o more
      /\ Added(g, cands, p, l).ev = g.ev
      /\ Added(g, cands, p, l) \in [hyps : Seq(Hyp), ev : SUBSET Evid]
  BY <1>5, <1>6
<1> HIDE DEF k
<1> QED
  <2>1. Grown(g, Added(g, cands, p, l), k, p, l)
    BY <1>1, <1>6, <1>7, <1>8 DEF Grown
  <2> QED BY <2>1 DEF k

\* The graph stays sound as it grows under an active hypothesis, one level
\* down, or with roots on level 1.
LEMMA AddedOK ==
  ASSUME NEW g, GraphOK(g), NEW p \in Nat, NEW l \in Nat,
         \/ p = 0 /\ l = 1
         \/ p \in DOMAIN g.hyps /\ g.hyps[p].active /\ l = g.hyps[p].level + 1,
         NEW cands \in SUBSET Proposals, IsFiniteSet(cands)
  PROVE  /\ GraphOK(Added(g, cands, p, l))
         /\ \A k : ActiveAt(g, k) \subseteq ActiveAt(Added(g, cands, p, l), k)
         /\ cands # {} => ActiveAt(Added(g, cands, p, l), l) # {}
<1> DEFINE b == Added(g, cands, p, l)
           n == Len(g.hyps)
           k == Cardinality(cands)
<1>1. /\ b \in [hyps : Seq(Hyp), ev : SUBSET Evid] /\ b.ev = g.ev
      /\ Len(b.hyps) = n + k /\ n \in Nat /\ k \in Nat
      /\ \A x \in 1 .. n : b.hyps[x] = g.hyps[x]
      /\ \A x \in n + 1 .. n + k :
            b.hyps[x].level = l /\ b.hyps[x].parent = p /\ b.hyps[x].active = TRUE
  <2>1. g \in [hyps : Seq(Hyp), ev : SUBSET Evid]
    BY DEF GraphOK
  <2>2. Grown(g, b, k, p, l)
    BY <2>1, AddedShape
  <2> HIDE DEF b, k
  <2> QED BY <2>1, <2>2 DEF Grown
<1>2. /\ DOMAIN g.hyps = 1 .. n /\ DOMAIN b.hyps = 1 .. n + k
      /\ \A x \in DOMAIN b.hyps : x \in 1 .. n \/ x \in n + 1 .. n + k
      /\ 1 .. n \subseteq 1 .. n + k
  <2>1. DOMAIN b.hyps = 1 .. Len(b.hyps) /\ DOMAIN g.hyps = 1 .. n
    BY <1>1 DEF GraphOK
  <2> HIDE DEF b, n, k
  <2> QED BY <1>1, <2>1
<1>3. cands # {} => n + 1 \in n + 1 .. n + k /\ n + 1 \in DOMAIN b.hyps
  <2>1. cands # {} => k # 0
    BY FS_EmptySet
  <2> HIDE DEF b, n, k
  <2> QED BY <1>1, <1>2, <2>1
<1>4. \A x \in 1 .. n : g.hyps[x].parent = 0 \/ g.hyps[x].parent \in 1 .. n
  BY <1>2, TreeFacts DEF GraphOK, Parent
<1>5. p < n + 1 /\ (p = 0 \/ p \in 1 .. n)
  BY <1>1, <1>2
<1> HIDE DEF b, n, k
<1>6. Tree(b.hyps)
  <2>1. ASSUME NEW x \in 1 .. n
        PROVE  /\ b.hyps[x].parent < x
               /\ b.hyps[x].parent = 0 => b.hyps[x].level = 1
               /\ b.hyps[x].parent # 0 =>
                    /\ b.hyps[x].level = b.hyps[b.hyps[x].parent].level + 1
                    /\ b.hyps[x].active => b.hyps[b.hyps[x].parent].active
    <3>1. b.hyps[x] = g.hyps[x]
      BY <1>1
    <3>2. /\ g.hyps[x].parent < x
          /\ g.hyps[x].parent = 0 => g.hyps[x].level = 1
          /\ g.hyps[x].parent # 0 =>
               /\ g.hyps[x].level = g.hyps[g.hyps[x].parent].level + 1
               /\ g.hyps[x].active => g.hyps[g.hyps[x].parent].active
      BY <1>2 DEF GraphOK, Tree
    <3>3. g.hyps[x].parent # 0 => b.hyps[g.hyps[x].parent] = g.hyps[g.hyps[x].parent]
      BY <1>1, <1>4
    <3> QED BY <3>1, <3>2, <3>3
  <2>2. ASSUME NEW x \in n + 1 .. n + k
        PROVE  /\ b.hyps[x].parent < x
               /\ b.hyps[x].parent = 0 => b.hyps[x].level = 1
               /\ b.hyps[x].parent # 0 =>
                    /\ b.hyps[x].level = b.hyps[b.hyps[x].parent].level + 1
                    /\ b.hyps[x].active => b.hyps[b.hyps[x].parent].active
    <3>1. b.hyps[x].parent = p /\ b.hyps[x].level = l /\ b.hyps[x].active
      BY <1>1
    <3>2. p < x
      BY <1>1, <1>5
    <3>3. p # 0 => b.hyps[p] = g.hyps[p] /\ l = g.hyps[p].level + 1 /\ g.hyps[p].active
      BY <1>1, <1>5
    <3>4. p = 0 => l = 1
      BY <1>2, <1>1
    <3> QED BY <3>1, <3>2, <3>3, <3>4
  <2> QED BY <1>2, <2>1, <2>2 DEF Tree
<1>7. ValidGraph(b)
  <2>1. \A e \in b.ev : e.target \in DOMAIN b.hyps /\ (e.active => b.hyps[e.target].active)
    BY <1>1, <1>2 DEF GraphOK, ValidGraph
  <2>2. \A e, f \in b.ev : e.src = f.src /\ e.target = f.target => e = f
    BY <1>1 DEF GraphOK, ValidGraph
  <2>3. \A h \in DOMAIN b.hyps : b.hyps[h].parent # 0 => b.hyps[h].parent \in DOMAIN b.hyps
    BY <1>1, <1>2, <1>4, <1>5
  <2>4. ASSUME NEW h \in DOMAIN b.hyps
        PROVE  IF b.hyps[h].parent = 0 THEN b.hyps[h].level = 1
               ELSE /\ b.hyps[h].parent \in DOMAIN b.hyps
                    /\ b.hyps[h].level = b.hyps[b.hyps[h].parent].level + 1
    BY <1>6, <2>3 DEF Tree
  <2> QED BY <2>1, <2>2, <2>4 DEF ValidGraph
<1>8. GraphOK(b)
  BY <1>1, <1>6, <1>7 DEF GraphOK
<1>9. \A j : ActiveAt(g, j) \subseteq ActiveAt(b, j)
  BY <1>1, <1>2 DEF ActiveAt
<1>10. cands # {} => ActiveAt(b, l) # {}
  BY <1>1, <1>3 DEF ActiveAt
<1> QED BY <1>8, <1>9, <1>10 DEF b

\* A branch that is retracted takes its hypotheses and the evidence aimed at
\* them with it, and leaves its root.
LEMMA WithoutBranchOK ==
  ASSUME NEW g, GraphOK(g), NEW root \in DOMAIN g.hyps
  PROVE  /\ GraphOK(WithoutBranch(g, root))
         /\ g.hyps[root].active =>
              root \in ActiveAt(WithoutBranch(g, root), g.hyps[root].level)
<1> DEFINE b == WithoutBranch(g, root)
           B == Below(g, root)
           D == DOMAIN g.hyps
           gone(e) == IF e.target \in B THEN [e EXCEPT !.active = FALSE] ELSE e
<1>1. /\ g.hyps \in Seq(Hyp) /\ g.ev \in SUBSET Evid /\ IsFiniteSet(g.ev)
      /\ Tree(g.hyps) /\ ValidGraph(g)
  BY DEF GraphOK
<1>2. /\ b = [hyps |-> b.hyps, ev |-> b.ev]
      /\ b.ev = {gone(e) : e \in g.ev}
      /\ b.hyps = [h \in D |-> IF h \in B THEN [g.hyps[h] EXCEPT !.active = FALSE]
                               ELSE g.hyps[h]]
  BY DEF WithoutBranch
<1> HIDE DEF b
<1>3. \A h \in D : g.hyps[h] \in Hyp
  BY <1>1
<1>4. b.hyps \in Seq(Hyp) /\ DOMAIN b.hyps = D
  <2>1. \A h \in D : b.hyps[h] \in Hyp
    <3>1. \A r \in Hyp : [r EXCEPT !.active = FALSE] \in Hyp
      BY DEF Hyp
    <3> HIDE DEF B
    <3> QED BY <1>2, <1>3, <3>1
  <2>2. D = 1 .. Len(g.hyps) /\ Len(g.hyps) \in Nat
    BY <1>1
  <2>3. b.hyps \in [1 .. Len(g.hyps) -> Hyp]
    BY <1>2, <2>1, <2>2
  <2> QED BY <2>2, <2>3
<1>5. \A h \in D : /\ b.hyps[h].parent = g.hyps[h].parent
                   /\ b.hyps[h].level = g.hyps[h].level
                   /\ b.hyps[h].active <=> g.hyps[h].active /\ h \notin B
  <2> HIDE DEF B
  <2> QED BY <1>2, <1>3 DEF Hyp
<1>6. \A e \in g.ev : /\ gone(e) \in Evid
                      /\ gone(e).src = e.src /\ gone(e).target = e.target
                      /\ gone(e).active => e.active /\ e.target \notin B
  <2> HIDE DEF B
  <2> QED BY <1>1 DEF Evid
<1> HIDE DEF gone
<1>7. ASSUME NEW x \in D, g.hyps[x].parent # 0, b.hyps[x].active
      PROVE  b.hyps[g.hyps[x].parent].active
  <2> DEFINE p == g.hyps[x].parent
  <2>1. g.hyps[x].active /\ x \notin B /\ p \in D /\ g.hyps[p].active
    BY <1>1, <1>5, <1>7, TreeFacts DEF Parent, Tree
  <2>2. Ancestors(g, x) = {p} \cup Ancestors(g, p)
    BY <1>1, <1>7, AncestorsUnfold DEF Parent
  <2>3. p \notin B
    BY <2>1, <2>2 DEF Below
  <2> QED BY <1>5, <2>1, <2>3
<1>8. Tree(b.hyps)
  <2>1. \A x \in D : g.hyps[x].parent = 0 \/ g.hyps[x].parent \in D
    BY <1>1, TreeFacts DEF Parent
  <2> QED BY <1>1, <1>4, <1>5, <1>7, <2>1 DEF Tree
<1>9. ValidGraph(b)
  <2>1. \A e \in b.ev : e.target \in DOMAIN b.hyps /\ (e.active => b.hyps[e.target].active)
    BY <1>1, <1>2, <1>4, <1>5, <1>6 DEF ValidGraph
  <2>2. \A e, f \in b.ev : e.src = f.src /\ e.target = f.target => e = f
    <3>1. SUFFICES ASSUME NEW e \in g.ev, NEW f \in g.ev,
                          gone(e).src = gone(f).src, gone(e).target = gone(f).target
                   PROVE  gone(e) = gone(f)
      BY <1>2
    <3>2. e = f
      BY <1>1, <1>6, <3>1 DEF ValidGraph
    <3> QED BY <3>2
  <2>3. ASSUME NEW h \in D
        PROVE  IF b.hyps[h].parent = 0 THEN b.hyps[h].level = 1
               ELSE /\ b.hyps[h].parent \in D
                    /\ b.hyps[h].level = b.hyps[b.hyps[h].parent].level + 1
    BY <1>1, <1>5 DEF ValidGraph
  <2> QED BY <1>4, <2>1, <2>2, <2>3 DEF ValidGraph
<1>10. b \in [hyps : Seq(Hyp), ev : SUBSET Evid] /\ IsFiniteSet(b.ev)
  <2>1. b.ev \in SUBSET Evid
    BY <1>2, <1>6
  <2> DEFINE f == [e \in g.ev |-> gone(e)]
  <2>2. f \in Surjection(g.ev, b.ev)
    BY <1>2 DEF Surjection
  <2>3. IsFiniteSet(b.ev)
    <3> HIDE DEF f
    <3> QED BY <1>1, <2>2, FS_Surjection
  <2> QED BY <1>2, <1>4, <2>1, <2>3
<1>11. g.hyps[root].active => root \in ActiveAt(b, g.hyps[root].level)
  <2>1. root \notin Ancestors(g, root)
    BY <1>1, AncestorFacts, TreeFacts DEF Lineage
  <2>2. root \notin B
    BY <2>1 DEF Below
  <2> QED BY <1>4, <1>5, <2>2 DEF ActiveAt
<1> QED BY <1>8, <1>9, <1>10, <1>11 DEF GraphOK, b

Refinements(a) == UNION {a[x].refines : x \in DOMAIN a}
Brought(a) == UNION {a[x].found : x \in DOMAIN a}

\* What the experts of a round bring back is finite.
LEMMA RoundIsFinite ==
  ASSUME NEW P, IsFiniteSet(P), NEW a \in [P -> Findings]
  PROVE  IsFiniteSet(Refinements(a)) /\ IsFiniteSet(Brought(a))
<1> DEFINE R == {a[x].refines : x \in P}
           F == {a[x].found : x \in P}
<1>1. [x \in P |-> a[x].refines] \in Surjection(P, R)
  BY DEF Surjection
<1>2. [x \in P |-> a[x].found] \in Surjection(P, F)
  BY DEF Surjection
<1>3. (\A T \in R : IsFiniteSet(T)) /\ (\A T \in F : IsFiniteSet(T))
  BY GosAssumption
<1> HIDE DEF R, F
<1>4. IsFiniteSet(R) /\ IsFiniteSet(F)
  BY <1>1, <1>2, FS_Surjection
<1>5. IsFiniteSet(UNION R) /\ IsFiniteSet(UNION F)
  BY <1>3, <1>4, FS_UNION
<1>6. Refinements(a) = UNION R /\ Brought(a) = UNION F
  BY DEF Refinements, Brought, R, F
<1> QED BY <1>5, <1>6

\* A merged round leaves a sound graph and retracts nothing.
LEMMA UpdatesOK ==
  ASSUME NEW g, GraphOK(g), NEW f \in DOMAIN g.hyps,
         NEW P, IsFiniteSet(P), NEW a \in [P -> Findings], NEW u \in Updates(g, f, a)
  PROVE  GraphOK(u) /\ \A k : ActiveAt(g, k) \subseteq ActiveAt(u, k)
<1> DEFINE new == Fresh(g, f, a)
           promoted == g.hyps[f].actionable \/ \E x \in DOMAIN a : a[x].promote
           cands == {p[2] : p \in Refined(a)}
           grown == Added(g, cands, f, g.hyps[f].level + 1)
           hyps(s) == [grown.hyps EXCEPT ![f].score = s, ![f].actionable = promoted]
<1>1. PICK s \in Scores(g.hyps[f].score, new) :
        u = [hyps |-> hyps(s), ev |-> g.ev \cup new]
  BY DEF Updates
<1>2. ValidGraph(u) /\ g.hyps[f].active
  BY DEF Updates, Acceptable
<1>3. /\ g.hyps \in Seq(Hyp) /\ g.ev \in SUBSET Evid /\ IsFiniteSet(g.ev) /\ Tree(g.hyps)
      /\ g.hyps[f] \in Hyp /\ f \in Nat /\ g.hyps[f].level + 1 \in Nat
  <2>1. g.hyps \in Seq(Hyp) /\ g.ev \in SUBSET Evid /\ IsFiniteSet(g.ev) /\ Tree(g.hyps)
    BY DEF GraphOK
  <2> QED BY <2>1, TreeFacts
<1>4. cands \in SUBSET Proposals /\ IsFiniteSet(cands)
  <2> DEFINE R == Refinements(a)
  <2>1. cands = R
    <3>1. ASSUME NEW r \in R PROVE r \in cands
      <4>1. PICK x \in P : r \in a[x].refines
        BY DEF Refinements
      <4>2. <<x, r>> \in Refined(a)
        BY <4>1 DEF Refined
      <4>3. <<x, r>>[2] = r
        OBVIOUS
      <4> QED BY <4>2, <4>3
    <3>2. ASSUME NEW p \in Refined(a) PROVE p[2] \in R
      <4>1. PICK x \in P : p \in {<<x, r>> : r \in a[x].refines}
        BY DEF Refined
      <4>2. PICK r \in a[x].refines : p = <<x, r>>
        BY <4>1
      <4> QED BY <4>2 DEF Refinements
    <3> QED BY <3>1, <3>2
  <2>2. R \subseteq Proposals
    <3>1. ASSUME NEW x \in P PROVE a[x].refines \in {h.refines : h \in Findings}
      BY a[x] \in Findings
    <3>2. UNION {h.refines : h \in Findings} \subseteq Proposals
      BY DEF Proposals
    <3>3. R \subseteq UNION {h.refines : h \in Findings}
      BY <3>1 DEF Refinements
    <3> QED BY <3>2, <3>3
  <2>3. IsFiniteSet(R)
    BY RoundIsFinite
  <2> HIDE DEF cands, R
  <2> QED BY <2>1, <2>2, <2>3
<1>5. GraphOK(grown) /\ \A k : ActiveAt(g, k) \subseteq ActiveAt(grown, k)
  <2> HIDE DEF cands
  <2> QED BY <1>2, <1>3, <1>4, AddedOK
<1>6. f \in ActiveAt(grown, g.hyps[f].level)
  <2>1. f \in ActiveAt(g, g.hyps[f].level)
    BY <1>2 DEF ActiveAt
  <2> QED BY <1>5, <2>1
<1> HIDE DEF grown
<1>7. grown.hyps \in Seq(Hyp) /\ Tree(grown.hyps) /\ f \in DOMAIN grown.hyps
  BY <1>5, <1>6 DEF GraphOK, ActiveAt
<1>8. s \in 0 .. TopScore /\ promoted \in BOOLEAN
  <2>1. g.hyps[f].score \in 0 .. TopScore
    BY <1>3 DEF Hyp
  <2>2. s \in 0 .. TopScore
    BY <2>1, GosAssumption DEF Scores
  <2> QED BY <2>2
<1> HIDE DEF promoted
<1>9. /\ u.hyps \in Seq(Hyp) /\ DOMAIN u.hyps = DOMAIN grown.hyps
      /\ \A x \in DOMAIN grown.hyps : /\ u.hyps[x].parent = grown.hyps[x].parent
                                      /\ u.hyps[x].level = grown.hyps[x].level
                                      /\ u.hyps[x].active = grown.hyps[x].active
  <2> DEFINE r == [grown.hyps[f] EXCEPT !.score = s, !.actionable = promoted]
  <2>1. u.hyps = [grown.hyps EXCEPT ![f] = r]
    BY <1>1
  <2>2. grown.hyps[f] \in Hyp
    BY <1>7
  <2>3. /\ r \in Hyp /\ r.parent = grown.hyps[f].parent
        /\ r.level = grown.hyps[f].level /\ r.active = grown.hyps[f].active
    BY <1>8, <2>2 DEF Hyp
  <2> HIDE DEF r
  <2>4. u.hyps \in Seq(Hyp) /\ DOMAIN u.hyps = DOMAIN grown.hyps
    BY <1>7, <2>1, <2>3
  <2> QED BY <1>7, <2>1, <2>3, <2>4
<1>10. Tree(u.hyps)
  <2>1. \A x \in DOMAIN grown.hyps :
           grown.hyps[x].parent = 0 \/ grown.hyps[x].parent \in DOMAIN grown.hyps
    BY <1>7, TreeFacts DEF Parent
  <2> QED BY <1>7, <1>9, <2>1 DEF Tree
<1>11. u.ev \in SUBSET Evid /\ IsFiniteSet(u.ev)
  <2> DEFINE found == Brought(a)
             as(i) == [src |-> i.src, target |-> f, rel |-> i.rel, active |-> TRUE]
             all == {as(i) : i \in found}
  <2>1. new \subseteq all
    BY DEF Fresh, Brought
  <2>2. found \subseteq Items
    BY DEF Items, Brought
  <2>3. all \subseteq Evid
    <3>1. ASSUME NEW i \in Items PROVE as(i) \in Evid
      BY <1>3 DEF Evid
    <3> HIDE DEF as, found
    <3> QED BY <2>2, <3>1
  <2>4. IsFiniteSet(all)
    <3>1. IsFiniteSet(found)
      BY RoundIsFinite
    <3> HIDE DEF found
    <3>2. [i \in found |-> as(i)] \in Surjection(found, all)
      BY DEF Surjection
    <3> HIDE DEF all
    <3> QED BY <3>1, <3>2, FS_Surjection
  <2> HIDE DEF all, new
  <2>5. IsFiniteSet(new)
    BY <2>1, <2>4, FS_Subset
  <2> QED BY <1>1, <1>3, <2>1, <2>3, <2>5, FS_Union
<1>12. GraphOK(u)
  <2>1. u \in [hyps : Seq(Hyp), ev : SUBSET Evid]
    BY <1>1, <1>9, <1>11
  <2> QED BY <1>2, <1>10, <1>11, <2>1 DEF GraphOK
<1>13. ASSUME NEW k PROVE ActiveAt(g, k) \subseteq ActiveAt(u, k)
  <2>1. ActiveAt(g, k) \subseteq ActiveAt(grown, k)
    BY <1>5
  <2>2. ActiveAt(grown, k) \subseteq ActiveAt(u, k)
    BY <1>9 DEF ActiveAt
  <2> QED BY <2>1, <2>2
<1> QED BY <1>12, <1>13

\* Each source supports a hypothesis once, so that its supports count sources.
LEMMA SourcesCounted ==
  ASSUME NEW g, GraphOK(g), NEW h
  PROVE  Cardinality({e.src : e \in EvidenceOn(g, h, "support")}) = Supports(g, h)
<1> DEFINE E == EvidenceOn(g, h, "support")
           srcs == {e.src : e \in E}
           src == [e \in E |-> e.src]
<1>1. E \in SUBSET g.ev /\ IsFiniteSet(E)
  <2>1. E \in SUBSET g.ev
    BY DEF EvidenceOn
  <2> QED BY <2>1, FS_Subset DEF GraphOK
<1>2. \A e, f \in E : e.src = f.src => e = f
  BY DEF EvidenceOn, GraphOK, ValidGraph
<1> HIDE DEF E
<1>3. src \in Surjection(E, srcs) /\ src \in Injection(E, srcs)
  BY <1>2 DEF Surjection, Injection, IsInjective
<1> HIDE DEF src, srcs
<1>4. Cardinality(srcs) = Cardinality(E)
  BY <1>1, <1>3, FS_Surjection
<1> QED BY <1>4 DEF Supports, E, srcs

\* What a report names is active, and on the current level if that has a
\* hypothesis.
LEMMA ReportFrontierFacts ==
  ASSUME NEW g, GraphOK(g), NEW l \in Nat
  PROVE  /\ ReportFrontier(g, l) # 0 =>
              /\ ReportFrontier(g, l) \in DOMAIN g.hyps
              /\ g.hyps[ReportFrontier(g, l)].active
         /\ l # 0 /\ ActiveAt(g, l) # {} => ReportFrontier(g, l) = Best(g, l)
<1> DEFINE having == {k \in 1 .. l : ActiveAt(g, k) # {}}
<1>1. g.hyps \in Seq(Hyp) /\ Tree(g.hyps)
  BY DEF GraphOK
<1>2. having \in SUBSET Nat /\ IsFiniteSet(having) /\ \A k \in having : k <= l
  <2>1. having \in SUBSET (1 .. l)
    OBVIOUS
  <2>2. IsFiniteSet(1 .. l)
    BY FS_Interval
  <2>3. IsFiniteSet(having)
    <3> HIDE DEF having
    <3> QED BY <2>1, <2>2, FS_Subset
  <2> QED BY <2>1, <2>3
<1>3. ReportFrontier(g, l) = IF having = {} THEN 0 ELSE Best(g, Max(having))
  BY DEF ReportFrontier
<1>4. having # {} => Max(having) \in having /\ \A k \in having : k <= Max(having)
  <2> HIDE DEF having
  <2> QED BY <1>2, LargestExists
<1>5. ASSUME ReportFrontier(g, l) # 0
      PROVE  /\ ReportFrontier(g, l) \in DOMAIN g.hyps
             /\ g.hyps[ReportFrontier(g, l)].active
  <2>1. having # {} /\ ReportFrontier(g, l) = Best(g, Max(having))
    BY <1>3, <1>5
  <2>2. ActiveAt(g, Max(having)) # {}
    BY <1>4, <2>1
  <2> HIDE DEF having
  <2>3. Best(g, Max(having)) \in ActiveAt(g, Max(having))
    BY <1>1, <2>2, BestFound
  <2> QED BY <2>1, <2>3 DEF ActiveAt
<1>6. ASSUME l # 0, ActiveAt(g, l) # {} PROVE ReportFrontier(g, l) = Best(g, l)
  <2>1. l \in having
    BY <1>6
  <2> HIDE DEF having
  <2>2. Max(having) = l
    <3>1. Max(having) \in Nat /\ Max(having) <= l /\ l <= Max(having)
      BY <1>2, <1>4, <2>1
    <3> QED BY <3>1
  <2> QED BY <1>3, <2>1, <2>2
<1> QED BY <1>5, <1>6

-----------------------------------------------------------------------------
(* The rounds keep the graph sound, the frontier on the current level, and     *)
(* the reasons a diagnosis ends with free of the engine's own book-keeping.    *)

BookKeeping == {"graph_invalid", "invalid_state_conversion_input", "no_candidates",
                "invalid_refines_ancestry", "state_conversion_failed"}

GosInv ==
  /\ legacy \in BOOLEAN /\ level \in Nat \ {0} /\ IsFiniteSet(plan)
  /\ GraphOK(graph)
  /\ stage = "ingest" => level = 1
  /\ stage \in {"act", "convert"} \/ (stage = "plan" /\ ~legacy) =>
       ActiveAt(graph, level) # {}
  /\ stage # "done" => report = NoReport

Reported == report.reason \notin BookKeeping /\ RootCauseIsBacked

\* Where a decision is due, the graph allows it: the frontier has one active
\* hypothesis above it on each level.
LEMMA PathFacts ==
  ASSUME GosInv, stage = "convert"
  PROVE  /\ Misstep = "none"
         /\ Frontier \in ActiveAt(graph, level) /\ Frontier # 0
         /\ \A x \in Ancestors(graph, Frontier) :
              graph.hyps[x].level \in 1 .. level - 1 /\ x \in AncestorAt(graph.hyps[x].level)
         /\ \A l \in 1 .. level - 1 : AncestorAt(l) # {}
<1> DEFINE F == Frontier
<1>1. graph.hyps \in Seq(Hyp) /\ Tree(graph.hyps) /\ ValidGraph(graph) /\ level \in Nat \ {0}
  BY DEF GosInv, GraphOK
<1>2. F \in ActiveAt(graph, level) /\ F # 0
  BY <1>1, BestFound DEF GosInv, Frontier
<1>3. F \in DOMAIN graph.hyps /\ graph.hyps[F].active /\ graph.hyps[F].level = level
  BY <1>2 DEF ActiveAt
<1> HIDE DEF F
<1>4. /\ Ancestors(graph, F) \subseteq DOMAIN graph.hyps
      /\ \A a \in Ancestors(graph, F) :
            a < F /\ graph.hyps[a].level < graph.hyps[F].level /\ graph.hyps[a].active
      /\ \A l \in 1 .. graph.hyps[F].level - 1 :
            \E a : {x \in Ancestors(graph, F) : graph.hyps[x].level = l} = {a}
  <2>1. Lineage(graph, F)
    BY <1>1, <1>3, AncestorFacts
  <2> QED BY <1>3, <2>1 DEF Lineage
<1>5. \A l \in 1 .. level - 1 :
         AncestorAt(l) = {x \in Ancestors(graph, F) : graph.hyps[x].level = l}
  BY <1>4 DEF AncestorAt, F
<1>6. ASSUME NEW l \in 1 .. level - 1
      PROVE  AncestorAt(l) # {} /\ Cardinality(AncestorAt(l)) = 1
  <2>1. PICK a : {x \in Ancestors(graph, F) : graph.hyps[x].level = l} = {a}
    BY <1>3, <1>4
  <2>2. AncestorAt(l) = {a}
    BY <1>5, <2>1
  <2> QED BY <2>2, FS_Singleton
<1>7. OrphanAt = {}
  BY <1>6 DEF OrphanAt
<1>8. Misstep = "none"
  BY <1>1, <1>2, <1>7 DEF Misstep, F
<1>9. ASSUME NEW x \in Ancestors(graph, F)
      PROVE  /\ graph.hyps[x].level \in 1 .. level - 1
             /\ x \in AncestorAt(graph.hyps[x].level)
  <2>1. graph.hyps[x].level \in Nat \ {0} /\ graph.hyps[x].level < level
    BY <1>1, <1>3, <1>4, TreeFacts
  <2>2. graph.hyps[x].level \in 1 .. level - 1
    BY <1>1, <2>1
  <2> QED BY <1>4, <2>2 DEF AncestorAt, F
<1> QED BY <1>2, <1>6, <1>8, <1>9 DEF F

\* A report of success names a hypothesis that has the backing it needs.
LEMMA ReportIsBacked ==
  ASSUME GosInv, NEW l \in Nat, Report(graph, l), UNCHANGED <<legacy, graph, mishap>>,
         ~legacy => stage = "convert" /\ l = level /\ Misplaced = {} /\ Granular
  PROVE  Reported' /\ stage' = "done"
<1> DEFINE h == ReportFrontier(graph, l)
<1>1. GraphOK(graph) /\ ValidGraph(graph)
  BY DEF GosInv, GraphOK
<1>2. stage' = "done" /\ report'.reason \in {"none", "insufficient"}
  BY <1>1 DEF Report
<1>3. ASSUME report'.status = "succeeded" PROVE RootCauseIsBacked'
  <2>1. Sufficient(graph, h) /\ report'.hyp = h
    BY <1>1, <1>3 DEF Report
  <2>2. h # 0 /\ graph.hyps[h].active /\ ~mishap
    BY <1>1, <2>1, ReportFrontierFacts DEF Sufficient
  <2>3. \A x \in {h} \cup Ancestors(graph, h) : EvidenceOn(graph, x, "refute") = {}
    BY <2>1 DEF Sufficient
  <2>4. Cardinality({e.src : e \in EvidenceOn(graph, h, "support")}) >= MinSupport
    <3>1. Supports(graph, h) >= Max({MinSupport, 1})
      BY <2>1 DEF Sufficient
    <3>2. IsFiniteSet({MinSupport, 1}) /\ {MinSupport, 1} \in SUBSET Nat
      <4>1. {MinSupport, 1} = {MinSupport} \cup {1}
        OBVIOUS
      <4>2. IsFiniteSet({MinSupport} \cup {1})
        BY FS_Singleton, FS_AddElement
      <4>3. {MinSupport, 1} \in SUBSET Nat
        BY GosAssumption
      <4> QED BY <4>1, <4>2, <4>3
    <3>3. Max({MinSupport, 1}) \in Nat /\ Max({MinSupport, 1}) >= MinSupport
      BY <3>2, LargestExists
    <3>4. Supports(graph, h) \in Nat
      BY <1>1, FS_Subset, FS_CardinalityType DEF Supports, EvidenceOn, GraphOK
    <3>5. Cardinality({e.src : e \in EvidenceOn(graph, h, "support")}) = Supports(graph, h)
      BY <1>1, SourcesCounted
    <3> QED BY <3>1, <3>3, <3>4, <3>5, GosAssumption
  <2>5. ASSUME ~legacy
        PROVE  /\ graph.hyps[h].actionable
               /\ \A x \in {h} \cup Ancestors(graph, h) :
                     x = Best(graph, graph.hyps[x].level)
    <3>1. stage = "convert" /\ l = level /\ Misplaced = {} /\ Granular
      BY <2>5
    <3>2. h = Frontier /\ Frontier = Best(graph, level)
      BY <1>1, <3>1, ReportFrontierFacts DEF GosInv, Frontier
    <3> HIDE DEF h
    <3>3. graph.hyps[h].level = level
      BY <3>1, <3>2, PathFacts DEF ActiveAt
    <3>4. ASSUME NEW x \in Ancestors(graph, h) PROVE x = Best(graph, graph.hyps[x].level)
      <4>1. graph.hyps[x].level \in 1 .. level - 1 /\ x \in AncestorAt(graph.hyps[x].level)
        BY <3>1, <3>2, PathFacts
      <4>2. AncestorAt(graph.hyps[x].level) = {Best(graph, graph.hyps[x].level)}
        BY <3>1, <4>1 DEF Misplaced
      <4> QED BY <4>1, <4>2
    <3> QED BY <3>1, <3>2, <3>3, <3>4 DEF Granular
  <2> HIDE DEF h
  <2> QED BY <2>1, <2>2, <2>3, <2>4, <2>5 DEF RootCauseIsBacked
<1>4. RootCauseIsBacked'
  BY <1>3 DEF RootCauseIsBacked
<1> QED BY <1>2, <1>4 DEF Reported, BookKeeping

\* A degraded result for any other reason reports no root cause, nor does a
\* diagnosis that goes on.
LEMMA EndedDegraded ==
  ASSUME NEW r, r \notin BookKeeping, NEW g, Degraded(r, g)
  PROVE  Reported' /\ stage' = "done"
<1>1. stage' = "done" /\ report'.status = "degraded" /\ report'.reason = r
  BY DEF Degraded
<1>2. RootCauseIsBacked'
  BY <1>1 DEF RootCauseIsBacked
<1> QED BY <1>1, <1>2 DEF Reported

LEMMA GoesOn ==
  ASSUME GosInv, stage # "done", report' = report
  PROVE  Reported' /\ report' = NoReport
<1>1. report' = NoReport /\ report'.status = "none" /\ report'.reason = "none"
  BY DEF GosInv, NoReport
<1>2. RootCauseIsBacked'
  BY <1>1 DEF RootCauseIsBacked
<1> QED BY <1>1, <1>2 DEF Reported, BookKeeping

\* The candidates a rule or ingestion yields are some, and finitely many.
LEMMA CandidatesExist ==
  ASSUME NEW s \in Roots \cup {RuleChildren[l] : l \in DOMAIN RuleChildren}
  PROVE  s \in SUBSET Proposals /\ IsFiniteSet(s) /\ s # {}
BY GosAssumption DEF Proposals

LEMMA GosByIngest ==
  ASSUME GosInv, IngestWithOutcome
  PROVE  GosInv' /\ Reported'
<1>1. stage = "ingest" /\ level = 1 /\ UNCHANGED <<legacy, level, plan>>
  BY DEF IngestWithOutcome, roundVars, GosInv
<1>2. ASSUME NEW roots \in Roots, graph' = Added(graph, roots, 0, 1), stage' = "plan",
             report' = report
      PROVE  GosInv' /\ Reported'
  <2>1. GraphOK(graph') /\ ActiveAt(graph', 1) # {}
    BY <1>2, CandidatesExist, AddedOK DEF GosInv
  <2> QED BY <1>1, <1>2, <2>1, GoesOn DEF GosInv
<1>3. ASSUME Degraded("ingest_failed", graph), graph' = graph
      PROVE  GosInv' /\ Reported'
  <2>1. Reported' /\ stage' = "done"
    BY <1>3, EndedDegraded DEF BookKeeping
  <2> QED BY <1>1, <1>3, <2>1 DEF GosInv
<1> QED BY <1>2, <1>3 DEF IngestWithOutcome

LEMMA GosByPlan ==
  ASSUME GosInv, PlanRound \/ PlanFails \/ NoFrontier
  PROVE  GosInv' /\ Reported'
<1>1. stage = "plan" /\ UNCHANGED <<legacy, graph, level>>
  BY DEF PlanRound, PlanFails, NoFrontier
<1>2. Frontier # 0 => ActiveAt(graph, level) # {}
  BY DEF Frontier, Best
<1>3. CASE PlanRound
  <2>1. PICK items \in SUBSET OpenItems : plan' = items
    BY <1>3 DEF PlanRound
  <2>2. IsFiniteSet(GosExperts \X Goals)
    BY GosAssumption, FS_Product
  <2>3. plan' \in SUBSET (GosExperts \X Goals)
    BY <2>1 DEF OpenItems
  <2>4. IsFiniteSet(plan')
    BY <2>2, <2>3, FS_Subset
  <2>5. stage' = "act" /\ report' = report /\ Frontier # 0
    BY <1>3 DEF PlanRound
  <2> QED BY <1>1, <1>2, <2>4, <2>5, GoesOn DEF GosInv
<1>4. CASE PlanFails
  <2>1. Reported' /\ stage' = "done"
    BY <1>4, EndedDegraded DEF PlanFails, BookKeeping
  <2> QED BY <1>1, <1>4, <2>1 DEF GosInv, PlanFails, roundVars
<1>5. CASE NoFrontier
  <2>1. legacy
    <3>1. Frontier = 0
      BY <1>5 DEF NoFrontier
    <3>2. ActiveAt(graph, level) = {}
      BY <3>1, BestFound DEF GosInv, GraphOK, Frontier
    <3> QED BY <1>1, <3>2 DEF GosInv
  <2>2. Reported' /\ stage' = "done"
    BY <1>5, <2>1, ReportIsBacked DEF NoFrontier, roundVars, GosInv
  <2> QED BY <1>1, <1>5, <2>2 DEF GosInv, NoFrontier, roundVars
<1> QED BY <1>3, <1>4, <1>5

LEMMA GosByRound ==
  ASSUME GosInv, RoundRejected \/ RoundMerged
  PROVE  GosInv' /\ Reported'
<1>1. stage = "act" /\ UNCHANGED <<legacy, level, plan>>
  BY DEF RoundRejected, RoundMerged
<1>2. Frontier \in DOMAIN graph.hyps
  BY <1>1, BestFound DEF GosInv, GraphOK, Frontier, ActiveAt
<1>3. ASSUME NEW a \in [plan -> Findings], NEW u \in Updates(graph, Frontier, a)
      PROVE  GraphOK(u) /\ ActiveAt(u, level) # {}
  BY <1>1, <1>2, UpdatesOK DEF GosInv
<1>4. CASE RoundRejected
  <2>1. PICK a \in [plan -> Findings] :
          /\ graph' = graph \/ graph' \in Updates(graph, Frontier, a)
          /\ Degraded("update_failed", graph')
    BY <1>4 DEF RoundRejected
  <2>2. GraphOK(graph')
    BY <1>3, <2>1 DEF GosInv
  <2>3. Reported' /\ stage' = "done"
    BY <2>1, EndedDegraded DEF BookKeeping
  <2> QED BY <1>1, <2>2, <2>3 DEF GosInv
<1>5. CASE RoundMerged
  <2>1. PICK a \in [plan -> Findings] :
          /\ graph' \in Updates(graph, Frontier, a)
          /\ \/ Degraded("act_failed", graph')
             \/ Degraded("no_progress_loop", graph')
             \/ stage' = "convert" /\ report' = report
    BY <1>5 DEF RoundMerged
  <2>2. GraphOK(graph') /\ ActiveAt(graph', level) # {}
    BY <1>3, <2>1
  <2>3. CASE Degraded("act_failed", graph') \/ Degraded("no_progress_loop", graph')
    <3>1. Reported' /\ stage' = "done"
      BY <2>3, EndedDegraded DEF BookKeeping
    <3> QED BY <1>1, <2>2, <3>1 DEF GosInv
  <2>4. CASE stage' = "convert" /\ report' = report
    BY <1>1, <2>2, <2>4, GoesOn DEF GosInv
  <2> QED BY <2>1, <2>3, <2>4
<1> QED BY <1>4, <1>5

LEMMA GosByBacktrack ==
  ASSUME GosInv, Backtrack
  PROVE  GosInv' /\ Reported'
<1> DEFINE l == Max(Misplaced)
           root == CHOOSE x \in AncestorAt(l) : TRUE
           after == WithoutBranch(graph, root)
<1>1. stage = "convert" /\ ~legacy /\ UNCHANGED <<legacy, plan>> /\ level \in Nat
  BY DEF Backtrack, Converting, resumeVars, GosInv
<1>2. Misstep = "none" /\ Misplaced # {} /\ \A k \in 1 .. level - 1 : AncestorAt(k) # {}
  BY <1>1, PathFacts DEF Backtrack
<1>3. l \in 1 .. level - 1
  <2>1. Misplaced \in SUBSET (1 .. level - 1) /\ IsFiniteSet(1 .. level - 1)
    BY <1>1, FS_Interval DEF Misplaced
  <2>2. IsFiniteSet(Misplaced)
    BY <2>1, FS_Subset
  <2>3. Misplaced \in SUBSET Nat
    BY <2>1
  <2> QED BY <1>2, <2>1, <2>2, <2>3, LargestExists
<1> HIDE DEF l
<1>4. root \in AncestorAt(l)
  BY <1>2, <1>3
<1> HIDE DEF root
<1>5. root \in DOMAIN graph.hyps /\ graph.hyps[root].active /\ graph.hyps[root].level = l
  <2>1. Frontier \in DOMAIN graph.hyps
    BY <1>1, PathFacts DEF ActiveAt
  <2>2. Lineage(graph, Frontier)
    BY <2>1, AncestorFacts DEF GosInv, GraphOK
  <2> QED BY <1>4, <2>2 DEF AncestorAt, Lineage
<1>6. GraphOK(after) /\ ValidGraph(after) /\ ActiveAt(after, l) # {}
  <2>1. GraphOK(after) /\ root \in ActiveAt(after, l)
    BY <1>5, WithoutBranchOK DEF GosInv
  <2> QED BY <2>1 DEF GraphOK
<1>7. \/ Degraded("budget_exhausted", graph) /\ UNCHANGED <<graph, level>>
      \/ graph' = after /\ level' = l /\ stage' = "plan" /\ report' = report
  <2>1. ~(Misstep # "none") /\ ~(~ValidGraph(after))
    BY <1>2, <1>6
  <2> QED BY <2>1 DEF Backtrack, l, root
<1>8. CASE Degraded("budget_exhausted", graph) /\ UNCHANGED <<graph, level>>
  <2>1. Reported' /\ stage' = "done"
    BY <1>8, EndedDegraded DEF BookKeeping
  <2> QED BY <1>1, <1>8, <2>1 DEF GosInv
<1>9. CASE graph' = after /\ level' = l /\ stage' = "plan" /\ report' = report
  <2>1. Reported' /\ report' = NoReport
    BY <1>1, <1>9, GoesOn
  <2>2. l \in Nat \ {0}
    BY <1>1, <1>3
  <2> HIDE DEF after
  <2> QED BY <1>1, <1>6, <1>9, <2>1, <2>2 DEF GosInv
<1> QED BY <1>7, <1>8, <1>9

LEMMA GosByConclude ==
  ASSUME GosInv, Conclude \/ Continue
  PROVE  GosInv' /\ Reported'
<1>1. stage = "convert" /\ UNCHANGED <<legacy, graph, level, plan, mishap>>
  BY DEF Conclude, Continue, Converting, roundVars
<1>2. CASE Conclude
  <2>1. Report(graph, level) /\ Misplaced = {} /\ Granular /\ level \in Nat
    BY <1>2 DEF Conclude, OnPath, GosInv
  <2>2. Reported' /\ stage' = "done"
    BY <1>1, <2>1, ReportIsBacked
  <2> QED BY <1>1, <2>2 DEF GosInv
<1>3. CASE Continue
  <2>1. \/ \E r \in {"budget_exhausted", "ambiguous_frontier", "level_step_limit"} :
             Degraded(r, graph)
        \/ stage' = "plan" /\ report' = report
    BY <1>3 DEF Continue, Stay
  <2>2. ASSUME NEW r \in {"budget_exhausted", "ambiguous_frontier", "level_step_limit"},
               Degraded(r, graph)
        PROVE  GosInv' /\ Reported'
    <3>1. Reported' /\ stage' = "done"
      BY <2>2, EndedDegraded DEF BookKeeping
    <3> QED BY <1>1, <3>1 DEF GosInv
  <2>3. CASE stage' = "plan" /\ report' = report
    BY <1>1, <2>3, GoesOn DEF GosInv
  <2> QED BY <2>1, <2>2, <2>3
<1> QED BY <1>2, <1>3

LEMMA GosByRefine ==
  ASSUME GosInv, Refine
  PROVE  GosInv' /\ Reported'
<1> DEFINE label == graph.hyps[Frontier].label
           kids == Children(graph, Frontier)
           after == IF kids # {} THEN graph
                    ELSE Added(graph, RuleChildren[label], Frontier, level + 1)
           ends(r) == Degraded(r, graph) /\ UNCHANGED <<graph, level>>
<1>1. stage = "convert" /\ UNCHANGED <<legacy, plan>> /\ level \in Nat \ {0}
  BY DEF Refine, Converting, resumeVars, GosInv
<1>2. /\ Frontier \in DOMAIN graph.hyps /\ Frontier \in Nat /\ Frontier # 0
      /\ graph.hyps[Frontier].active /\ graph.hyps[Frontier].level = level
  BY <1>1, PathFacts, TreeFacts DEF ActiveAt, GosInv, GraphOK
<1>3. ASSUME kids # {} \/ label \in DOMAIN RuleChildren
      PROVE  GraphOK(after) /\ ActiveAt(after, level + 1) # {}
  <2>1. CASE kids # {}
    <3>1. PICK c \in kids : TRUE
      BY <2>1
    <3>2. c \in DOMAIN graph.hyps /\ graph.hyps[c].active /\ graph.hyps[c].parent = Frontier
      BY <3>1 DEF Children
    <3>3. graph.hyps[c].level = level + 1
      BY <1>2, <3>2 DEF GosInv, GraphOK, Tree
    <3>4. c \in ActiveAt(graph, level + 1)
      BY <3>2, <3>3 DEF ActiveAt
    <3> QED BY <2>1, <3>4 DEF GosInv
  <2>2. CASE kids = {}
    <3>1. label \in DOMAIN RuleChildren
      BY <1>3, <2>2
    <3> DEFINE s == RuleChildren[label]
    <3>2. s \in SUBSET Proposals /\ IsFiniteSet(s) /\ s # {}
      BY <3>1, CandidatesExist
    <3> HIDE DEF s, label, kids
    <3>3. /\ GraphOK(Added(graph, s, Frontier, level + 1))
          /\ ActiveAt(Added(graph, s, Frontier, level + 1), level + 1) # {}
      BY <1>1, <1>2, <3>2, AddedOK DEF GosInv
    <3> QED BY <2>2, <3>3 DEF s
  <2> QED BY <2>1, <2>2
<1> HIDE DEF after
<1>4. ASSUME kids # {} \/ label \in DOMAIN RuleChildren PROVE ValidGraph(after)
  BY <1>3, <1>4 DEF GraphOK
<1>5. \/ \E r \in {"budget_exhausted", "max_depth", "no_refinement_rule"} : ends(r)
      \/ /\ kids # {} \/ label \in DOMAIN RuleChildren
         /\ graph' = after /\ level' = level + 1 /\ stage' = "plan" /\ report' = report
  <2>1. \/ ends("budget_exhausted") \/ ends("max_depth") \/ ends("no_refinement_rule")
        \/ /\ kids # {} \/ label \in DOMAIN RuleChildren
           /\ IF ~ValidGraph(after) \/ ActiveAt(after, level + 1) = {}
              THEN ends("state_conversion_failed")
              ELSE graph' = after /\ Descended /\ stage' = "plan" /\ report' = report
    BY DEF Refine, after
  <2> HIDE DEF ends, kids, label
  <2> QED BY <1>3, <1>4, <2>1 DEF Descended
<1> HIDE DEF kids, label
<1>6. ASSUME NEW r \in {"budget_exhausted", "max_depth", "no_refinement_rule"}, ends(r)
      PROVE  GosInv' /\ Reported'
  <2>1. Reported' /\ stage' = "done"
    BY <1>6, EndedDegraded DEF BookKeeping
  <2> QED BY <1>1, <1>6, <2>1 DEF GosInv
<1>7. CASE /\ kids # {} \/ label \in DOMAIN RuleChildren
           /\ graph' = after /\ level' = level + 1 /\ stage' = "plan" /\ report' = report
  <2>1. Reported' /\ report' = NoReport
    BY <1>1, <1>7, GoesOn
  <2>2. GraphOK(graph') /\ ActiveAt(graph', level') # {}
    BY <1>3, <1>7
  <2>3. level' \in Nat \ {0}
    BY <1>1, <1>7
  <2> QED BY <1>1, <1>7, <2>1, <2>2, <2>3 DEF GosInv
<1> QED BY <1>5, <1>6, <1>7

LEMMA GosByLegacy ==
  ASSUME GosInv, LegacyDecide
  PROVE  GosInv' /\ Reported'
<1>1. /\ stage = "convert" /\ legacy /\ UNCHANGED <<legacy, graph, plan, mishap>>
      /\ level \in Nat \ {0}
  BY DEF LegacyDecide, resumeVars, GosInv
<1>2. /\ level' \in {level, level + 1}
      /\ \/ Report(graph, level) \/ Report(graph, level')
         \/ stage' = "plan" /\ report' = report
  BY DEF LegacyDecide, Descended
<1>3. level' \in Nat \ {0}
  BY <1>1, <1>2
<1>4. CASE Report(graph, level) \/ Report(graph, level')
  <2>1. Reported' /\ stage' = "done"
    BY <1>1, <1>3, <1>4, ReportIsBacked
  <2> QED BY <1>1, <1>3, <2>1 DEF GosInv
<1>5. CASE stage' = "plan" /\ report' = report
  BY <1>1, <1>3, <1>5, GoesOn DEF GosInv
<1> QED BY <1>2, <1>4, <1>5

LEMMA GosKept == GosInv /\ Reported /\ [GosNext]_gosVars => GosInv' /\ Reported'
<1> SUFFICES ASSUME GosInv, Reported, [GosNext]_gosVars PROVE GosInv' /\ Reported'
  OBVIOUS
<1>1. CASE UNCHANGED gosVars
  BY <1>1 DEF gosVars, GosInv, Reported, RootCauseIsBacked
<1> QED BY <1>1, GosByIngest, GosByPlan, GosByRound, GosByBacktrack, GosByConclude,
           GosByRefine, GosByLegacy DEF GosNext

LEMMA GosHolds == GosSpec => [](GosInv /\ Reported)
<1>1. GosInit => GosInv /\ Reported
  <2> SUFFICES ASSUME GosInit PROVE GosInv /\ Reported
    OBVIOUS
  <2>1. GraphOK(graph)
    <3>1. graph = [hyps |-> <<>>, ev |-> {}] /\ <<>> \in Seq(Hyp) /\ DOMAIN <<>> = {}
      BY DEF GosInit
    <3> QED BY <3>1, FS_EmptySet DEF GraphOK, Tree, ValidGraph
  <2>2. GosInv
    BY <2>1, FS_EmptySet DEF GosInit, GosInv
  <2> QED BY <2>2 DEF GosInit, Reported, NoReport, BookKeeping, RootCauseIsBacked
<1>2. GosInv /\ Reported /\ [GosNext]_gosVars => GosInv' /\ Reported'
  BY GosKept
<1> QED BY <1>1, <1>2, PTL DEF GosSpec

\* No diagnosis ends because of the engine's own book-keeping: every graph it
\* commits passes its self-check and every conversion it decides on can be
\* carried out (SelfChecksHold), for any experts, findings and rules.
THEOREM SelfChecksPass == GosSpec => []SelfChecksHold
<1>1. GosInv /\ Reported => SelfChecksHold
  BY DEF GosInv, GraphOK, Reported, BookKeeping, SelfChecksHold
<1> QED BY <1>1, GosHolds, PTL

\* A root cause is reported as found only with the support it needs and nothing
\* against it or what it refines, and by the converter only where it is
\* actionable and the best of its level, like all it refines
\* (RootCauseIsBacked).
THEOREM RootCauseHasBacking == GosSpec => []RootCauseIsBacked
<1>1. Reported => RootCauseIsBacked
  BY DEF Reported
<1> QED BY <1>1, GosHolds, PTL

=============================================================================
