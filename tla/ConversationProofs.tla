------------------------- MODULE ConversationProofs -------------------------
(***************************************************************************)
(* What stands between a user and an answer, for any number of turns,      *)
(* sessions, processes and requests: the lock of a chat session, whose     *)
(* entry is deleted and made anew in between; the copies of a session, of  *)
(* which a turn reads one that has everything said before; and the limit   *)
(* on a client's requests, kept in Redis or, when it does not answer, in   *)
(* each process.                                                           *)
(***************************************************************************)
EXTENDS SessionMemory, RateLimiter, FiniteSetTheorems, TLAPS

USE SessTurnsAssumption

----------------------------------------------------------------------------
(* The invariant *)

\* Where a turn of the AIOps runtime may stand: it never has the lock.
OpsSteps == {"new", "get", "append", "marshal", "set", "done", "dead"}

\* Between taking an entry and giving it back.
Using(t) == t \notin OpsTurns /\ at[t] \in Steps \ {"new", "done", "dead"}

Users(e) == {t \in SessTurns : lockIn[t] = e}

\* The shape of the part of the state the lock is made of.
LockTypeOK ==
  /\ at \in [SessTurns -> Steps]
  /\ where \in [SessTurns -> Pods]
  /\ podOf \in [Sessions -> Pods]
  /\ lockOf \in [Pods -> [Sessions -> CopyIds \cup {0}]]
  /\ lockIn \in [SessTurns -> CopyIds \cup {0}]
  /\ refs \in [CopyIds -> Nat]
  /\ holder \in [CopyIds -> SessTurns \cup {NoTurn}]
  /\ \A t \in OpsTurns : at[t] \in OpsSteps

\* A turn uses the entry its process has for its session, and nothing else.
UsersAgree ==
  /\ \A t \in SessTurns :
       IF Using(t) THEN lockIn[t] # 0 /\ lockOf[where[t]][SessionOf[t]] = lockIn[t]
                   ELSE lockIn[t] = 0
  /\ \A t \in SessTurns : InLock(t) => holder[lockIn[t]] = t

\* An entry in a map has users, whom its counter counts, and one place.
EntriesAgree ==
  /\ \A e \in CopyIds : refs[e] = Cardinality(Users(e))
  /\ \A i \in Pods, s \in Sessions, e \in CopyIds : lockOf[i][s] = e => Users(e) # {}
  /\ \A i, j \in Pods, r, s \in Sessions :
       lockOf[i][r] = lockOf[j][s] /\ lockOf[i][r] # 0 => i = j /\ r = s

LockInv == LockTypeOK /\ UsersAgree /\ EntriesAgree

\* Entries are numbered from one.
LEMMA Numbered == CopyIds \subseteq Nat /\ 0 \notin CopyIds
BY FS_CardinalityType DEF CopyIds

\* The users of an entry are finitely many.
LEMMA FiniteUsers ==
  ASSUME NEW e
  PROVE  IsFiniteSet(Users(e)) /\ Cardinality(Users(e)) \in Nat
BY FS_Subset, FS_CardinalityType DEF Users

\* There is always a number left for a new entry.
LEMMA FreshEntry ==
  ASSUME LockInv, NEW t \in SessTurns
  PROVE  NewId(EntriesInUse) \in CopyIds /\ NewId(EntriesInUse) \notin EntriesInUse
<1> DEFINE T == {lockIn[u] : u \in SessTurns}
           n == Cardinality(SessTurns)
<1>1. EntriesInUse \subseteq T \cup {0}
  <2> SUFFICES ASSUME NEW i \in Pods, NEW s \in Sessions, lockOf[i][s] # 0
               PROVE  lockOf[i][s] \in T
    BY DEF EntriesInUse
  <2>1. lockOf[i][s] \in CopyIds
    BY DEF LockInv, LockTypeOK
  <2>2. Users(lockOf[i][s]) # {}
    BY <2>1 DEF LockInv, EntriesAgree
  <2> QED BY <2>2 DEF Users
<1>2. lockIn \in Surjection(SessTurns, T)
  BY DEF Surjection, LockInv, LockTypeOK
<1>3. IsFiniteSet(T) /\ Cardinality(T) <= n
  BY <1>2, FS_Surjection
<1>4. n \in Nat /\ n # 0 /\ Cardinality(T) \in Nat
  BY <1>3, FS_CardinalityType, FS_EmptySet
<1>5. IsFiniteSet(CopyIds) /\ Cardinality(CopyIds) = 2 * n
  <2>1. 1 \in Int /\ 2 * n \in Int /\ ~(1 > 2 * n)
    BY <1>4
  <2>2. Cardinality(1..(2 * n)) = 2 * n - 1 + 1 /\ IsFiniteSet(1..(2 * n))
    BY <2>1, FS_Interval
  <2> HIDE DEF n
  <2> QED BY <1>4, <2>2 DEF CopyIds, n
<1>6. ~(CopyIds \subseteq T)
  <2> SUFFICES ASSUME CopyIds \subseteq T PROVE FALSE
    OBVIOUS
  <2>1. Cardinality(CopyIds) <= Cardinality(T)
    BY <1>3, FS_Subset
  <2> HIDE DEF n, T
  <2> QED BY <1>3, <1>4, <1>5, <2>1
<1>7. \E k \in CopyIds : k \notin EntriesInUse
  BY <1>1, <1>6, Numbered
<1> QED BY <1>7 DEF NewId

----------------------------------------------------------------------------
(* The steps *)

\* A step that leaves the locks alone and moves no turn in or out of one.
LEMMA LocksKept ==
  ASSUME LockInv, UNCHANGED lockVars, UNCHANGED where,
         podOf' \in [Sessions -> Pods], at' \in [SessTurns -> Steps],
         \A u \in OpsTurns : at'[u] \in OpsSteps,
         \A u \in SessTurns : (Using(u)' <=> Using(u)) /\ (InLock(u)' => InLock(u))
  PROVE  LockInv'
<1> USE DEF lockVars
<1>1. LockTypeOK'
  BY DEF LockInv, LockTypeOK
<1>2. UsersAgree'
  BY DEF LockInv, UsersAgree
<1>3. \A e : Users(e)' = Users(e)
  BY DEF Users
<1>4. EntriesAgree'
  BY <1>3 DEF LockInv, EntriesAgree
<1> QED BY <1>1, <1>2, <1>4 DEF LockInv

\* A turn arrives and takes the entry of its session, or a new one.
LEMMA ArriveStep ==
  ASSUME LockInv, NEW t \in SessTurns, Arrive(t)
  PROVE  LockInv'
<1>1. PICK i \in Pods :
        /\ where' = [where EXCEPT ![t] = i]
        /\ IF t \in OpsTurns
             THEN SessGoto(t, "get") /\ UNCHANGED lockVars
             ELSE SessGoto(t, "waiting") /\ TakeEntry(t, i)
  BY DEF Arrive
<1>2. at[t] = "new" /\ ~Using(t) /\ lockIn[t] = 0 /\ UNCHANGED podOf
  BY DEF Arrive, Using, LockInv, UsersAgree
<1>3. CASE t \in OpsTurns
  <2>1. at' = [at EXCEPT ![t] = "get"] /\ UNCHANGED <<lockOf, lockIn, refs, holder>>
    BY <1>1, <1>3 DEF SessGoto, lockVars
  <2>2. LockTypeOK'
    BY <1>1, <1>2, <1>3, <2>1 DEF LockInv, LockTypeOK, Steps, OpsSteps
  <2>3. \A u \in SessTurns \ {t} : at'[u] = at[u] /\ where'[u] = where[u]
    BY <1>1, <2>1 DEF LockInv, LockTypeOK
  <2>4. ~Using(t)' /\ ~InLock(t)'
    BY <1>3 DEF Using, InLock
  <2>5. \A u \in SessTurns \ {t} : (Using(u)' <=> Using(u)) /\ (InLock(u)' <=> InLock(u))
    BY <2>3 DEF Using, InLock
  <2>6. UsersAgree'
    BY <1>2, <2>1, <2>3, <2>4, <2>5 DEF LockInv, UsersAgree
  <2>7. EntriesAgree'
    BY <2>1 DEF LockInv, EntriesAgree, Users
  <2> QED BY <2>2, <2>6, <2>7 DEF LockInv
<1>4. CASE t \notin OpsTurns
  <2> DEFINE s == SessionOf[t]
  <2> PICK e : e = IF lockOf[i][s] # 0 THEN lockOf[i][s] ELSE NewId(EntriesInUse)
    OBVIOUS
  <2>0. s \in Sessions
    OBVIOUS
  <2>1. /\ at' = [at EXCEPT ![t] = "waiting"]
        /\ lockOf' = [lockOf EXCEPT ![i][s] = e]
        /\ lockIn' = [lockIn EXCEPT ![t] = e]
        /\ refs' = [refs EXCEPT ![e] = @ + 1]
        /\ UNCHANGED holder
    BY <1>1, <1>4 DEF SessGoto, TakeEntry
  <2>2. e \in CopyIds /\ e # 0
    BY <2>0, FreshEntry, Numbered DEF LockInv, LockTypeOK
  <2>3. \A j \in Pods, r \in Sessions : lockOf[j][r] = e => j = i /\ r = s
    <3> TAKE j \in Pods, r \in Sessions
    <3>1. CASE lockOf[i][s] # 0
      BY <2>0, <3>1 DEF LockInv, EntriesAgree
    <3>2. CASE lockOf[i][s] = 0
      <4>1. e \notin EntriesInUse
        BY <3>2, FreshEntry
      <4>2. lockOf[j][r] \in EntriesInUse
        BY DEF EntriesInUse
      <4> QED BY <4>1, <4>2
    <3> QED BY <3>1, <3>2
  <2> HIDE DEF s
  <2>4. LockTypeOK'
    BY <1>1, <1>2, <1>4, <2>0, <2>1, <2>2 DEF LockInv, LockTypeOK, Steps
  <2>5. /\ \A u \in SessTurns \ {t} : at'[u] = at[u] /\ where'[u] = where[u] /\ lockIn'[u] = lockIn[u]
        /\ at'[t] = "waiting" /\ where'[t] = i /\ lockIn'[t] = e
        /\ lockOf'[i][s] = e
        /\ \A j \in Pods, r \in Sessions : (j # i \/ r # s) => lockOf'[j][r] = lockOf[j][r]
    BY <1>1, <2>0, <2>1 DEF LockInv, LockTypeOK
  <2>6. Using(t)' /\ ~InLock(t)'
    BY <1>4, <2>5 DEF Using, InLock, Steps
  <2>7. \A u \in SessTurns \ {t} : (Using(u)' <=> Using(u)) /\ (InLock(u)' <=> InLock(u))
    BY <2>5 DEF Using, InLock
  <2>8. UsersAgree'
    <3>1. ASSUME NEW u \in SessTurns \ {t}, Using(u)
          PROVE  lockOf'[where[u]][SessionOf[u]] = lockIn[u] /\ lockIn[u] # 0
      <4>1. lockOf[where[u]][SessionOf[u]] = lockIn[u] /\ lockIn[u] # 0
        BY <3>1 DEF LockInv, UsersAgree
      <4>2. where[u] \in Pods /\ SessionOf[u] \in Sessions
        BY DEF LockInv, LockTypeOK
      <4>3. CASE where[u] = i /\ SessionOf[u] = s
        BY <2>5, <4>1, <4>3
      <4>4. CASE where[u] # i \/ SessionOf[u] # s
        BY <2>5, <4>1, <4>2, <4>4
      <4> QED BY <4>1, <4>3, <4>4
    <3>2. lockOf'[where'[t]][SessionOf[t]] = lockIn'[t] /\ lockIn'[t] # 0
      BY <2>2, <2>5 DEF s
    <3>3. \A u \in SessTurns : InLock(u)' => holder'[lockIn'[u]] = u
      BY <2>1, <2>5, <2>6, <2>7 DEF LockInv, UsersAgree
    <3> QED BY <2>5, <2>6, <2>7, <3>1, <3>2, <3>3 DEF LockInv, UsersAgree
  <2>9. Users(e)' = Users(e) \cup {t} /\ t \notin Users(e)
    BY <1>2, <2>2, <2>5 DEF Users
  <2>10. \A f \in CopyIds \ {e} : Users(f)' = Users(f)
    BY <1>2, <2>5, Numbered DEF Users
  <2>11. \A f \in CopyIds : refs'[f] = Cardinality(Users(f)')
    <3>1. refs'[e] = Cardinality(Users(e)')
      <4>1. refs[e] = Cardinality(Users(e)) /\ refs'[e] = refs[e] + 1
        BY <2>1, <2>2 DEF LockInv, EntriesAgree, LockTypeOK
      <4> QED BY <2>9, <4>1, FiniteUsers, FS_AddElement
    <3> QED BY <2>1, <2>10, <3>1 DEF LockInv, EntriesAgree, LockTypeOK
  <2>12. \A j \in Pods, r \in Sessions, f \in CopyIds :
           lockOf'[j][r] = f => Users(f)' # {}
    <3> SUFFICES ASSUME NEW j \in Pods, NEW r \in Sessions, NEW f \in CopyIds,
                        lockOf'[j][r] = f
                 PROVE  Users(f)' # {}
      OBVIOUS
    <3>1. CASE f = e
      BY <2>9, <3>1
    <3>2. CASE f # e
      <4>1. lockOf[j][r] = f
        BY <2>5, <3>2
      <4>2. Users(f) # {}
        BY <4>1 DEF LockInv, EntriesAgree
      <4> QED BY <2>10, <3>2, <4>2
    <3> QED BY <3>1, <3>2
  <2>13. \A j, k \in Pods, q, r \in Sessions :
           lockOf'[j][q] = lockOf'[k][r] /\ lockOf'[j][q] # 0 => j = k /\ q = r
    <3> SUFFICES ASSUME NEW j \in Pods, NEW k \in Pods, NEW q \in Sessions, NEW r \in Sessions,
                        lockOf'[j][q] = lockOf'[k][r], lockOf'[j][q] # 0
                 PROVE  j = k /\ q = r
      OBVIOUS
    <3>1. CASE lockOf'[j][q] = e
      <4>1. j = i /\ q = s
        BY <2>3, <2>5, <3>1
      <4>2. k = i /\ r = s
        <5>1. lockOf'[k][r] = e
          BY <3>1
        <5> HIDE <3>1
        <5> QED BY <2>3, <2>5, <5>1
      <4> QED BY <4>1, <4>2
    <3>2. CASE lockOf'[j][q] # e
      BY <2>5, <3>2 DEF LockInv, EntriesAgree
    <3> QED BY <3>1, <3>2
  <2> QED BY <2>4, <2>8, <2>11, <2>12, <2>13 DEF LockInv, EntriesAgree
<1> QED BY <1>3, <1>4

\* The entry's mutex is taken and given back.
LEMMA MutexStep ==
  ASSUME LockInv, NEW t \in SessTurns, Lock(t) \/ Unlock(t)
  PROVE  LockInv'
<1>1. t \notin OpsTurns /\ Using(t)
  BY DEF Lock, Unlock, LockInv, LockTypeOK, OpsSteps, Using, Steps
<1>2. /\ UNCHANGED <<where, podOf, lockOf, lockIn, refs>>
      /\ at' \in [SessTurns -> Steps]
      /\ \A u \in SessTurns \ {t} : at'[u] = at[u]
      /\ at'[t] \in {"locked", "unref"}
      /\ holder' \in [CopyIds -> SessTurns \cup {NoTurn}]
  <2>1. /\ UNCHANGED <<where, podOf, lockOf, lockIn, refs>>
        /\ \E next \in {"locked", "unref"} : at' = [at EXCEPT ![t] = next]
        /\ \E h \in {t, NoTurn} : holder' = [holder EXCEPT ![lockIn[t]] = h]
    BY DEF Lock, Unlock, SessGoto
  <2>2. holder' \in [CopyIds -> SessTurns \cup {NoTurn}]
    <3>1. PICK h \in SessTurns \cup {NoTurn} : holder' = [holder EXCEPT ![lockIn[t]] = h]
      BY <2>1
    <3>2. holder \in [CopyIds -> SessTurns \cup {NoTurn}]
      BY DEF LockInv, LockTypeOK
    <3> QED BY <3>1, <3>2
  <2>3. /\ at' \in [SessTurns -> Steps]
        /\ \A u \in SessTurns \ {t} : at'[u] = at[u]
        /\ at'[t] \in {"locked", "unref"}
    BY <2>1 DEF LockInv, LockTypeOK, Steps
  <2> QED BY <2>1, <2>2, <2>3
<1>3. lockIn[t] \in CopyIds
  BY <1>1 DEF LockInv, LockTypeOK, UsersAgree
<1>4. LockTypeOK'
  BY <1>1, <1>2 DEF LockInv, LockTypeOK
<1>5. \A u \in SessTurns : Using(u)' <=> Using(u)
  BY <1>1, <1>2 DEF Using, Steps
<1>6. \A u \in SessTurns : InLock(u)' => holder'[lockIn[u]] = u
  <2>1. CASE Lock(t)
    <3>1. holder[lockIn[t]] = NoTurn /\ holder' = [holder EXCEPT ![lockIn[t]] = t]
      BY <2>1 DEF Lock
    <3>2. holder'[lockIn[t]] = t
      BY <1>3, <3>1 DEF LockInv, LockTypeOK
    <3>3. ASSUME NEW u \in SessTurns \ {t}, InLock(u)' PROVE holder'[lockIn[u]] = u
      <4>1. InLock(u)
        BY <1>2, <3>3 DEF InLock
      <4>2. holder[lockIn[u]] = u /\ u # NoTurn
        BY <4>1 DEF LockInv, UsersAgree
      <4>3. lockIn[u] # lockIn[t]
        BY <3>1, <4>2
      <4> QED BY <3>1, <4>2, <4>3 DEF LockInv, LockTypeOK
    <3> QED BY <3>2, <3>3
  <2>2. CASE Unlock(t)
    <3>1. /\ InLock(t) /\ holder' = [holder EXCEPT ![lockIn[t]] = NoTurn]
          /\ at'[t] = "unref"
      BY <1>1, <2>2 DEF Unlock, InLock, SessGoto, LockInv, LockTypeOK
    <3>2. ASSUME NEW u \in SessTurns, InLock(u)' PROVE holder'[lockIn[u]] = u
      <4>1. InLock(u) /\ u # t
        BY <1>2, <3>1, <3>2 DEF InLock
      <4>2. holder[lockIn[u]] = u /\ holder[lockIn[t]] = t
        BY <3>1, <4>1 DEF LockInv, UsersAgree
      <4>3. lockIn[u] # lockIn[t]
        BY <4>1, <4>2
      <4> QED BY <3>1, <4>2, <4>3 DEF LockInv, LockTypeOK
    <3> QED BY <3>2
  <2> QED BY <2>1, <2>2
<1>7. UsersAgree'
  BY <1>2, <1>5, <1>6 DEF LockInv, UsersAgree
<1>8. EntriesAgree'
  BY <1>2 DEF LockInv, EntriesAgree, Users
<1> QED BY <1>4, <1>7, <1>8 DEF LockInv

\* The last user deletes the entry.
LEMMA UnrefStep ==
  ASSUME LockInv, NEW t \in SessTurns, Unref(t)
  PROVE  LockInv'
<1> DEFINE s == SessionOf[t]
<1> PICK e : e = lockIn[t]
  OBVIOUS
<1> PICK i : i = where[t]
  OBVIOUS
<1>1. t \notin OpsTurns /\ Using(t) /\ at[t] = "unref"
  BY DEF Unref, LockInv, LockTypeOK, OpsSteps, Using, Steps
<1>2. /\ e \in CopyIds /\ e # 0 /\ i \in Pods /\ s \in Sessions /\ lockOf[i][s] = e
  BY <1>1 DEF LockInv, LockTypeOK, UsersAgree
<1>3. /\ refs' = [refs EXCEPT ![e] = @ - 1]
      /\ lockOf' = IF refs[e] = 1 THEN [lockOf EXCEPT ![i][s] = 0] ELSE lockOf
      /\ lockIn' = [lockIn EXCEPT ![t] = 0]
      /\ at' = [at EXCEPT ![t] = "done"]
      /\ UNCHANGED <<where, holder, podOf>>
  BY <1>2 DEF Unref, Unrefed, LastRef, SessGoto
<1>4. /\ \A u \in SessTurns \ {t} : at'[u] = at[u] /\ lockIn'[u] = lockIn[u]
      /\ at'[t] = "done" /\ lockIn'[t] = 0 /\ lockIn[t] = e
  BY <1>3 DEF LockInv, LockTypeOK
<1>5. Users(e)' = Users(e) \ {t} /\ t \in Users(e)
  BY <1>2, <1>4 DEF Users
<1>6. \A f \in CopyIds \ {e} : Users(f)' = Users(f)
  BY <1>4, Numbered DEF Users
<1>7. /\ refs[e] = Cardinality(Users(e)) /\ refs[e] \in Nat
      /\ Cardinality(Users(e) \ {t}) = refs[e] - 1
      /\ Cardinality(Users(e) \ {t}) \in Nat
  <2>1. refs[e] = Cardinality(Users(e)) /\ refs[e] \in Nat
    BY <1>2 DEF LockInv, EntriesAgree, LockTypeOK
  <2>2. IsFiniteSet(Users(e))
    BY FiniteUsers
  <2>3. /\ Cardinality(Users(e) \ {t}) = Cardinality(Users(e)) - 1
        /\ IsFiniteSet(Users(e) \ {t})
    BY <1>5, <2>2, FS_RemoveElement
  <2> QED BY <2>1, <2>3, FS_CardinalityType
<1>8. refs' \in [CopyIds -> Nat] /\ refs'[e] = refs[e] - 1
  BY <1>2, <1>3, <1>7 DEF LockInv, LockTypeOK
<1>9. LockTypeOK'
  BY <1>1, <1>2, <1>3, <1>8 DEF LockInv, LockTypeOK, Steps, OpsSteps
<1>10. ~Using(t)' /\ ~InLock(t)'
  BY <1>4 DEF Using, InLock
<1>11. \A u \in SessTurns \ {t} : (Using(u)' <=> Using(u)) /\ (InLock(u)' <=> InLock(u))
  BY <1>4 DEF Using, InLock
<1>12. \A u \in SessTurns \ {t} : Using(u) => lockOf'[where[u]][SessionOf[u]] = lockIn[u]
  <2> SUFFICES ASSUME NEW u \in SessTurns \ {t}, Using(u)
               PROVE  lockOf'[where[u]][SessionOf[u]] = lockIn[u]
    OBVIOUS
  <2>1. /\ lockOf[where[u]][SessionOf[u]] = lockIn[u]
        /\ where[u] \in Pods /\ SessionOf[u] \in Sessions
    BY DEF LockInv, UsersAgree, LockTypeOK
  <2>2. CASE refs[e] # 1
    BY <1>3, <2>1, <2>2
  <2>3. CASE refs[e] = 1
    <3>1. Users(e) \ {t} = {}
      <4>1. IsFiniteSet(Users(e) \ {t}) /\ Cardinality(Users(e) \ {t}) = 0
        BY <1>7, <2>3, FiniteUsers, FS_RemoveElement
      <4> QED BY <4>1, FS_EmptySet
    <3>2. lockIn[u] # e
      BY <3>1 DEF Users
    <3>3. where[u] # i \/ SessionOf[u] # s
      BY <1>2, <2>1, <3>2
    <3> QED BY <1>2, <1>3, <2>1, <2>3, <3>3 DEF LockInv, LockTypeOK
  <2> QED BY <2>2, <2>3
<1>13. UsersAgree'
  BY <1>3, <1>4, <1>10, <1>11, <1>12 DEF LockInv, UsersAgree
<1>14. \A f \in CopyIds : refs'[f] = Cardinality(Users(f)')
  <2> TAKE f \in CopyIds
  <2>1. CASE f = e
    BY <1>5, <1>7, <1>8, <2>1
  <2>2. CASE f # e
    <3>1. refs'[f] = refs[f] /\ Users(f)' = Users(f)
      BY <1>3, <1>6, <2>2 DEF LockInv, LockTypeOK
    <3> QED BY <3>1 DEF LockInv, EntriesAgree
  <2> QED BY <2>1, <2>2
<1>15. \A j \in Pods, r \in Sessions : lockOf'[j][r] \in {0, lockOf[j][r]}
  BY <1>2, <1>3 DEF LockInv, LockTypeOK
<1>17. \A j \in Pods, r \in Sessions, f \in CopyIds : lockOf'[j][r] = f => Users(f)' # {}
  <2> SUFFICES ASSUME NEW j \in Pods, NEW r \in Sessions, NEW f \in CopyIds,
                      lockOf'[j][r] = f
               PROVE  Users(f)' # {}
    OBVIOUS
  <2>1. lockOf[j][r] = f /\ f # 0
    BY <1>15, Numbered
  <2>2. CASE f = e
    <3>1. j = i /\ r = s
      BY <1>2, <2>1, <2>2 DEF LockInv, EntriesAgree
    <3>2. refs[e] # 1
      BY <1>2, <1>3, <2>1, <3>1 DEF LockInv, LockTypeOK
    <3>3. Cardinality(Users(e) \ {t}) # 0
      BY <1>7, <3>2
    <3>4. Users(e) \ {t} # {}
      BY <3>3, FS_EmptySet
    <3> QED BY <1>5, <2>2, <3>4
  <2>3. CASE f # e
    <3>1. Users(f) # {}
      BY <2>1 DEF LockInv, EntriesAgree
    <3> QED BY <1>6, <2>3, <3>1
  <2> QED BY <2>2, <2>3
<1>18. \A j, k \in Pods, q, r \in Sessions :
         lockOf'[j][q] = lockOf'[k][r] /\ lockOf'[j][q] # 0 => j = k /\ q = r
  BY <1>15 DEF LockInv, EntriesAgree
<1>16. EntriesAgree'
  BY <1>14, <1>17, <1>18 DEF EntriesAgree
<1> QED BY <1>9, <1>13, <1>16 DEF LockInv

\* A process dies with its entries and their users.
LEMMA CrashStep ==
  ASSUME LockInv, NEW i \in Pods, PodCrash(i)
  PROVE  LockInv'
<1> DEFINE dead == {t \in SessTurns : Active(t) /\ where[t] = i}
           lost == {lockOf[i][s] : s \in Sessions}
<1>1. /\ at' = [t \in SessTurns |-> IF t \in dead THEN "dead" ELSE at[t]]
      /\ lockIn' = [t \in SessTurns |-> IF t \in dead THEN 0 ELSE lockIn[t]]
      /\ lockOf' = [lockOf EXCEPT ![i] = [s \in Sessions |-> 0]]
      /\ holder' = [e \in CopyIds |-> IF holder[e] \in dead THEN NoTurn ELSE holder[e]]
      /\ refs' = [e \in CopyIds |-> IF e \in lost THEN 0 ELSE refs[e]]
      /\ podOf' \in [Sessions -> Pods]
      /\ UNCHANGED where
  BY DEF PodCrash, LockInv, LockTypeOK
<1>2. LockTypeOK'
  <2>1. \A t \in OpsTurns : at'[t] \in OpsSteps
    BY <1>1 DEF LockInv, LockTypeOK, OpsSteps
  <2>2. lockOf' \in [Pods -> [Sessions -> CopyIds \cup {0}]]
    BY <1>1 DEF LockInv, LockTypeOK
  <2> HIDE DEF dead, lost
  <2> QED BY <1>1, <2>1, <2>2 DEF LockInv, LockTypeOK, Steps
<1>3. \A t \in SessTurns : Using(t) /\ where[t] = i => t \in dead
  BY DEF Using, Active
<1>4. \A t \in SessTurns : Using(t)' <=> Using(t) /\ t \notin dead
  BY <1>1 DEF Using
<1>5. \A t \in SessTurns : InLock(t)' => InLock(t) /\ t \notin dead
  BY <1>1 DEF InLock
<1>6. \A j \in Pods \ {i}, s \in Sessions : lockOf'[j][s] = lockOf[j][s]
  BY <1>1 DEF LockInv, LockTypeOK
<1>7. \A s \in Sessions : lockOf'[i][s] = 0
  BY <1>1 DEF LockInv, LockTypeOK
<1>8. UsersAgree'
  <2>1. ASSUME NEW t \in SessTurns
        PROVE  IF Using(t)' THEN lockIn'[t] # 0 /\ lockOf'[where'[t]][SessionOf[t]] = lockIn'[t]
                            ELSE lockIn'[t] = 0
    <3>1. CASE Using(t)'
      <4>1. Using(t) /\ t \notin dead /\ where[t] \in Pods \ {i} /\ SessionOf[t] \in Sessions
        BY <1>3, <1>4, <3>1 DEF LockInv, LockTypeOK
      <4> QED BY <1>1, <1>6, <3>1, <4>1 DEF LockInv, UsersAgree
    <3>2. CASE ~Using(t)'
      BY <1>1, <1>4, <3>2 DEF LockInv, UsersAgree
    <3> QED BY <3>1, <3>2
  <2>2. ASSUME NEW t \in SessTurns, InLock(t)' PROVE holder'[lockIn'[t]] = t
    <3>1. InLock(t) /\ t \notin dead /\ holder[lockIn[t]] = t
      BY <1>5, <2>2 DEF LockInv, UsersAgree
    <3>2. lockIn[t] \in CopyIds
      BY <3>1 DEF InLock, Using, Steps, LockInv, UsersAgree, LockTypeOK
    <3> HIDE DEF dead
    <3> QED BY <1>1, <3>1, <3>2
  <2> QED BY <2>1, <2>2 DEF UsersAgree
<1>9. \A e \in CopyIds : e \in lost => Users(e)' = {}
  <2> SUFFICES ASSUME NEW e \in CopyIds, NEW s \in Sessions, e = lockOf[i][s],
                      NEW t \in SessTurns, lockIn'[t] = e
               PROVE  FALSE
    BY DEF Users
  <2>1. lockIn[t] = e /\ t \notin dead /\ e # 0
    BY <1>1, Numbered
  <2>2. Using(t) /\ lockOf[where[t]][SessionOf[t]] = e /\ where[t] \in Pods
    BY <2>1 DEF LockInv, UsersAgree, LockTypeOK
  <2>3. where[t] = i
    BY <2>1, <2>2 DEF LockInv, EntriesAgree
  <2> QED BY <1>3, <2>1, <2>2, <2>3
<1>10. \A e \in CopyIds : e \notin lost => Users(e)' = Users(e)
  <2> SUFFICES ASSUME NEW e \in CopyIds, e \notin lost, NEW t \in SessTurns
               PROVE  lockIn'[t] = e <=> lockIn[t] = e
    BY DEF Users
  <2>1. e # 0
    BY Numbered
  <2>2. CASE t \notin dead
    BY <1>1, <2>2
  <2>3. CASE t \in dead /\ lockIn[t] = e
    <3>1. lockOf[i][SessionOf[t]] = e
      BY <2>1, <2>3 DEF LockInv, UsersAgree
    <3> QED BY <3>1
  <2>4. CASE t \in dead /\ lockIn[t] # e
    BY <1>1, <2>1, <2>4
  <2> QED BY <2>2, <2>3, <2>4
<1>11. EntriesAgree'
  <2>1. ASSUME NEW e \in CopyIds PROVE refs'[e] = Cardinality(Users(e)')
    <3> HIDE DEF lost
    <3> QED BY <1>1, <1>9, <1>10, FS_EmptySet DEF LockInv, EntriesAgree
  <2>2. ASSUME NEW j \in Pods, NEW s \in Sessions, NEW e \in CopyIds, lockOf'[j][s] = e
        PROVE  Users(e)' # {}
    <3>1. j # i /\ lockOf[j][s] = e /\ e # 0
      BY <1>6, <1>7, <2>2, Numbered
    <3>2. e \notin lost
      BY <3>1 DEF LockInv, EntriesAgree
    <3>3. Users(e)' = Users(e) /\ Users(e) # {}
      BY <1>10, <3>1, <3>2 DEF LockInv, EntriesAgree
    <3> QED BY <3>3
  <2>3. ASSUME NEW j \in Pods, NEW k \in Pods, NEW r \in Sessions, NEW s \in Sessions,
               lockOf'[j][r] = lockOf'[k][s], lockOf'[j][r] # 0
        PROVE  j = k /\ r = s
    BY <1>6, <1>7, <2>3 DEF LockInv, EntriesAgree
  <2> QED BY <2>1, <2>2, <2>3 DEF EntriesAgree
<1> QED BY <1>2, <1>8, <1>11 DEF LockInv

\* The other steps of a turn stay inside the lock or outside of it.
LEMMA TurnStays ==
  ASSUME LockInv, NEW t \in SessTurns,
         \/ Read(t) \/ Agent(t) \/ Get(t) \/ AddPair(t) \/ Marshal(t)
         \/ Set(t) \/ StoreChatResponse(t)
  PROVE  LockInv'
<1>1. /\ UNCHANGED <<lockOf, lockIn, refs, holder, where, podOf>>
      /\ \E next \in Steps \ {"new", "waiting", "locked", "unref", "dead"} : 
           at' = [at EXCEPT ![t] = next] /\ (next = "done" <=> t \in OpsTurns /\ at[t] = "set")
           /\ (t \in OpsTurns => next \in OpsSteps)
  <2>1. UNCHANGED <<lockOf, lockIn, refs, holder, where, podOf>>
    BY DEF Read, Agent, Get, AddPair, Marshal, Set, StoreChatResponse, lockVars
  <2>2. t \in OpsTurns => at[t] \in OpsSteps
    BY DEF LockInv, LockTypeOK
  <2>3. \E next \in Steps \ {"new", "waiting", "locked", "unref", "dead"} : 
           at' = [at EXCEPT ![t] = next] /\ (next = "done" <=> t \in OpsTurns /\ at[t] = "set")
           /\ (t \in OpsTurns => next \in OpsSteps)
    BY <2>2 DEF Read, Agent, Get, AddPair, Marshal, Set, StoreChatResponse, SessGoto,
         AfterAnswer, Steps, OpsSteps
  <2> QED BY <2>1, <2>3
<1>2. at[t] \in {"locked", "agent", "get", "append", "marshal", "set", "cache"}
  BY DEF Read, Agent, Get, AddPair, Marshal, Set, StoreChatResponse
<1>3. /\ at' \in [SessTurns -> Steps]
      /\ \A u \in SessTurns \ {t} : at'[u] = at[u]
      /\ at'[t] \in Steps \ {"new", "waiting", "locked", "unref", "dead"}
      /\ at'[t] = "done" => t \in OpsTurns
      /\ t \in OpsTurns => at'[t] \in OpsSteps
  BY <1>1 DEF LockInv, LockTypeOK
<1>4. \A u \in OpsTurns : at'[u] \in OpsSteps
  BY <1>3 DEF LockInv, LockTypeOK
<1>5. \A u \in SessTurns : (Using(u)' <=> Using(u)) /\ (InLock(u)' => InLock(u))
  BY <1>2, <1>3 DEF Using, InLock, Steps
<1> QED BY <1>1, <1>3, <1>4, <1>5, LocksKept DEF lockVars, LockInv, LockTypeOK

\* The invariant is kept by every step.
LEMMA LockStep ==
  ASSUME LockInv, [SessNext]_sessVars
  PROVE  LockInv'
<1>1. ASSUME NEW t \in SessTurns, Arrive(t) PROVE LockInv'
  BY <1>1, ArriveStep
<1>2. ASSUME NEW t \in SessTurns, TurnStep(t) PROVE LockInv'
  BY <1>2, MutexStep, UnrefStep, TurnStays DEF TurnStep
<1>3. ASSUME NEW i \in Pods, PodCrash(i) PROVE LockInv'
  BY <1>3, CrashStep
<1>4. CASE (\E i \in Pods, s \in Sessions : IdleOut(i, s)) \/ CacheExpires \/ UNCHANGED sessVars
  <2>1. UNCHANGED <<at, where, podOf, lockOf, lockIn, refs, holder>>
    BY <1>4 DEF IdleOut, CacheExpires, sessVars, askVars, lockVars
  <2> QED BY <2>1, LocksKept DEF lockVars, LockInv, LockTypeOK, Using, InLock
<1> QED BY <1>1, <1>2, <1>3, <1>4 DEF SessNext

\* The lock's invariant holds when the server starts.
LEMMA LockStart == SessInit => LockInv
<1> SUFFICES ASSUME SessInit PROVE LockInv
  OBVIOUS
<1>1. LockTypeOK
  BY DEF SessInit, LockTypeOK, Steps, OpsSteps
<1>2. UsersAgree
  BY DEF SessInit, UsersAgree, Using, InLock
<1>3. \A e \in CopyIds : Users(e) = {}
  BY Numbered DEF SessInit, Users
<1>4. EntriesAgree
  <2>1. \A e \in CopyIds : refs[e] = 0 /\ Cardinality(Users(e)) = 0
    BY <1>3, FS_EmptySet DEF SessInit
  <2>2. \A i \in Pods, s \in Sessions : lockOf[i][s] = 0
    BY DEF SessInit
  <2> QED BY <2>1, <2>2, Numbered DEF EntriesAgree
<1> QED BY <1>1, <1>2, <1>4 DEF LockInv

\* The lock's invariant holds throughout.
LEMMA LockInvariance == SessSpec => []LockInv
<1>1. LockInv /\ [SessNext]_sessVars => LockInv'
  BY LockStep
<1> QED BY <1>1, LockStart, PTL DEF SessSpec

\* One chat turn of a session at a time in a process.
THEOREM OneChatTurn == SessSpec => []SessionExclusive
<1>1. LockInv => SessionExclusive
  <2> SUFFICES ASSUME LockInv, NEW t \in SessTurns, NEW u \in SessTurns,
                      InLock(t), InLock(u), where[t] = where[u],
                      SessionOf[t] = SessionOf[u]
               PROVE  t = u
    BY DEF SessionExclusive
  <2>1. Using(t) /\ Using(u)
    BY DEF InLock, Using, Steps
  <2>2. lockIn[t] = lockIn[u]
    BY <2>1 DEF LockInv, UsersAgree
  <2> QED BY <2>2 DEF LockInv, UsersAgree
<1> QED BY <1>1, LockInvariance, PTL

\* An entry lives as long as its users.
THEOREM EntriesLive == SessSpec => []EntriesCountUsers
<1>1. LockInv => EntriesCountUsers
  BY DEF LockInv, LockTypeOK, EntriesAgree, EntriesCountUsers, Users
<1> QED BY <1>1, LockInvariance, PTL

----------------------------------------------------------------------------
(* What a turn reads: the invariant *)

Conversations == [window : Seq(SessTurns), summary : SUBSET SessTurns]

\* The shape of the copies and of what refers to them.
CopyTypeOK ==
  /\ heap \in [CopyIds -> Conversations]
  /\ store \in [Sessions -> Conversations]
  /\ snapshot \in [SessTurns -> Conversations]
  /\ map \in [Pods -> [Sessions -> CopyIds \cup {0}]]
  /\ memOf \in [SessTurns -> CopyIds \cup {0}]
  /\ \A t \in SessTurns : Persists(t) => memOf[t] # 0

\* A session is in the map of one process, the one its turns are sent to, and
\* only after one of them came there.
AtHome ==
  /\ \A t \in SessTurns : Active(t) => where[t] = podOf[SessionOf[t]]
  /\ \A i \in Pods, s \in Sessions :
       map[i][s] # 0 => /\ i = podOf[s]
                        /\ \E t \in SessTurns :
                             at[t] # "new" /\ where[t] = i /\ SessionOf[t] = s

\* What has been said in a session.
Said(s) == {u \in completed : SessionOf[u] = s}

\* No write of the session failed and no two were under way at once.
Undisturbed(s) == s \notin failed \cup overlaps

Persisting(s) == {t \in SessTurns : SessionOf[t] = s /\ Persists(t)}

\* A turn that is about to write to Redis has all that was said in its copy, which
\* is the one in the map if there is one, and puts its own pair there first.
WritesAll(t) ==
  LET s == SessionOf[t]
      all == Remembered(heap[memOf[t]])
  IN  /\ map[where[t]][s] \in {0, memOf[t]}
      /\ Said(s) \subseteq all
      /\ at[t] \in {"marshal", "set"} => t \in all
      /\ at[t] = "set" => Said(s) \cup {t} \subseteq Remembered(snapshot[t])

\* All that was said in a session is in Redis and in the copy in a map.
AllKept(s) ==
  /\ Said(s) \subseteq Remembered(store[s])
  /\ \A i \in Pods : map[i][s] # 0 => Said(s) \subseteq Remembered(heap[map[i][s]])
  /\ \A t, u \in Persisting(s) : t = u
  /\ \A t \in Persisting(s) : WritesAll(t)

CopyInv ==
  /\ CopyTypeOK
  /\ AtHome
  /\ \A s \in Sessions : Undisturbed(s) => AllKept(s)

\* There is always a number left for a new copy.
LEMMA FreshCopy ==
  ASSUME LockTypeOK, CopyTypeOK, AtHome, NEW t \in SessTurns,
         map[where[t]][SessionOf[t]] = 0
  PROVE  NewId(CopiesInUse) \in CopyIds /\ NewId(CopiesInUse) \notin CopiesInUse
<1> DEFINE others == SessTurns \ {t}
           M == {map[where[u]][SessionOf[u]] : u \in others}
           R == {memOf[u] : u \in SessTurns}
           n == Cardinality(SessTurns)
<1>1. CopiesInUse \subseteq M \cup R \cup {0}
  <2> SUFFICES ASSUME NEW i \in Pods, NEW s \in Sessions, map[i][s] # 0
               PROVE  map[i][s] \in M
    BY DEF CopiesInUse
  <2>1. PICK u \in SessTurns : where[u] = i /\ SessionOf[u] = s
    BY DEF AtHome
  <2> QED BY <2>1
<1>2. n \in Nat /\ n # 0 /\ IsFiniteSet(others) /\ Cardinality(others) = n - 1
  BY FS_CardinalityType, FS_EmptySet, FS_RemoveElement
<1>3. IsFiniteSet(M) /\ Cardinality(M) <= n - 1
  <2>1. [u \in others |-> map[where[u]][SessionOf[u]]] \in Surjection(others, M)
    BY DEF Surjection
  <2> HIDE DEF others, M, n
  <2> QED BY <1>2, <2>1, FS_Surjection
<1>4. IsFiniteSet(R) /\ Cardinality(R) <= n
  <2>1. [u \in SessTurns |-> memOf[u]] \in Surjection(SessTurns, R)
    BY DEF Surjection
  <2> HIDE DEF R
  <2> QED BY <2>1, FS_Surjection
<1>5. IsFiniteSet(M \cup R) /\ Cardinality(M \cup R) <= n + n - 1
  <2> HIDE DEF M, R, n
  <2>1. Cardinality(M) \in Nat /\ Cardinality(R) \in Nat /\ Cardinality(M \cap R) \in Nat
    BY <1>3, <1>4, FS_CardinalityType, FS_Intersection
  <2>2. IsFiniteSet(M \cup R)
        /\ Cardinality(M \cup R) = Cardinality(M) + Cardinality(R) - Cardinality(M \cap R)
    BY <1>3, <1>4, FS_Union
  <2> QED BY <1>2, <1>3, <1>4, <2>1, <2>2
<1>6. IsFiniteSet(CopyIds) /\ Cardinality(CopyIds) = n + n
  <2>1. 1 \in Int /\ 2 * n \in Int /\ ~(1 > 2 * n)
    BY <1>2
  <2>2. Cardinality(1..(2 * n)) = 2 * n - 1 + 1 /\ IsFiniteSet(1..(2 * n))
    BY <2>1, FS_Interval
  <2> HIDE DEF n
  <2> QED BY <1>2, <2>2 DEF CopyIds, n
<1>7. ~(CopyIds \subseteq M \cup R)
  <2> SUFFICES ASSUME CopyIds \subseteq M \cup R PROVE FALSE
    OBVIOUS
  <2> HIDE DEF n, M, R
  <2>1. Cardinality(CopyIds) <= Cardinality(M \cup R)
    BY <1>5, FS_Subset
  <2>2. Cardinality(M \cup R) \in Nat
    BY <1>5, FS_CardinalityType
  <2> QED BY <1>2, <1>5, <1>6, <2>1, <2>2
<1>8. \E k \in CopyIds : k \notin CopiesInUse
  BY <1>1, <1>7, Numbered
<1> QED BY <1>8 DEF NewId

\* The collector leaves alone what is referred to.
LEMMA LiveStay ==
  ASSUME NEW theHeap \in [CopyIds -> Conversations], NEW theMap, NEW inHand
  PROVE  /\ LiveCopies(theHeap, theMap, inHand) \in [CopyIds -> Conversations]
         /\ \A n \in CopyIds, i \in Pods, s \in Sessions :
              theMap[i][s] = n => LiveCopies(theHeap, theMap, inHand)[n] = theHeap[n]
         /\ \A n \in CopyIds, t \in SessTurns :
              inHand[t] = n => LiveCopies(theHeap, theMap, inHand)[n] = theHeap[n]
<1>1. Empty \in Conversations
  BY DEF Empty, Conversations
<1> QED BY <1>1 DEF LiveCopies

----------------------------------------------------------------------------
(* What a turn reads: the steps *)

\* A step that moves no session between processes leaves the sessions at home.
LEMMA StaysHome ==
  ASSUME CopyInv, UNCHANGED podOf,
         \A u \in SessTurns : at[u] # "new" => at'[u] # "new" /\ where'[u] = where[u],
         \A u \in SessTurns :
           Active(u)' => Active(u) \/ where'[u] = podOf[SessionOf[u]],
         \A i \in Pods, s \in Sessions :
           \/ map'[i][s] \in {0, map[i][s]}
           \/ \E u \in SessTurns : Active(u) /\ where[u] = i /\ SessionOf[u] = s
  PROVE  AtHome'
<1>1. ASSUME NEW u \in SessTurns, Active(u)'
      PROVE  where'[u] = podOf'[SessionOf[u]]
  BY <1>1 DEF CopyInv, AtHome, Active
<1>2. ASSUME NEW i \in Pods, NEW s \in Sessions, map'[i][s] # 0
      PROVE  /\ i = podOf'[s]
             /\ \E u \in SessTurns :
                  at'[u] # "new" /\ where'[u] = i /\ SessionOf[u] = s
  <2>1. i = podOf[s] /\ \E u \in SessTurns :
          at[u] # "new" /\ where[u] = i /\ SessionOf[u] = s
    BY <1>2 DEF CopyInv, AtHome, Active
  <2> QED BY <2>1
<1> QED BY <1>1, <1>2 DEF AtHome

\* A step that neither writes, nor loads, nor adds anything keeps what was said.
LEMMA QuietStep ==
  ASSUME CopyInv, CopyTypeOK', UNCHANGED <<store, completed, failed, overlaps>>,
         \A u \in SessTurns : Persists(u)' =>
           /\ at'[u] = at[u] /\ memOf'[u] = memOf[u] /\ where'[u] = where[u]
           /\ where[u] \in Pods /\ snapshot'[u] = snapshot[u],
         \A i \in Pods, s \in Sessions : map'[i][s] \in {0, map[i][s]},
         \A i \in Pods, s \in Sessions :
           map'[i][s] # 0 => heap'[map'[i][s]] = heap[map'[i][s]],
         \A u \in SessTurns : memOf'[u] # 0 => heap'[memOf'[u]] = heap[memOf'[u]]
  PROVE  (\A s \in Sessions : Undisturbed(s) => AllKept(s))'
<1> SUFFICES ASSUME NEW s \in Sessions, Undisturbed(s)' PROVE AllKept(s)'
  OBVIOUS
<1>1. AllKept(s) /\ Said(s)' = Said(s)
  BY DEF CopyInv, Undisturbed, Said
<1>2. \A u \in Persisting(s)' : u \in Persisting(s)
  BY DEF Persisting, Persists
<1>3. \A i \in Pods :
        map'[i][s] # 0 => Said(s)' \subseteq Remembered(heap'[map'[i][s]])
  BY <1>1 DEF AllKept
<1>4. ASSUME NEW u \in Persisting(s)' PROVE WritesAll(u)'
  <2>1. WritesAll(u) /\ u \in SessTurns /\ Persists(u)' /\ SessionOf[u] = s
    BY <1>1, <1>2, <1>4 DEF AllKept, Persisting
  <2>2. heap'[memOf'[u]] = heap[memOf[u]]
    BY <2>1 DEF CopyTypeOK
  <2>3. map'[where'[u]][s] \in {0, memOf'[u]}
    BY <2>1 DEF WritesAll
  <2> QED BY <1>1, <2>1, <2>2, <2>3 DEF WritesAll
<1> QED BY <1>1, <1>2, <1>3, <1>4 DEF AllKept

\* What GetSimpleMemory does to the copies: the turn has the one in its process's map
\* in hand, loaded from Redis if it was not there; others may have left the map.
LookedUp(t) ==
  LET i == where[t]
      s == SessionOf[t]
  IN  /\ heap' \in [CopyIds -> Conversations]
      /\ map' \in [Pods -> [Sessions -> CopyIds \cup {0}]]
      /\ memOf' = [memOf EXCEPT ![t] = map'[i][s]]
      /\ map'[i][s] # 0
      /\ map[i][s] # 0 => map'[i][s] = map[i][s]
      /\ \A j \in Pods, r \in Sessions :
           <<j, r>> # <<i, s>> => map'[j][r] \in {0, map[j][r]}
      /\ \A j \in Pods, r \in Sessions :
           map[j][r] # 0 /\ map'[j][r] = map[j][r] => heap'[map[j][r]] = heap[map[j][r]]
      /\ \A u \in SessTurns \ {t} : memOf[u] # 0 => heap'[memOf[u]] = heap[memOf[u]]
      /\ map[i][s] = 0 /\ s \notin failed' => heap'[map'[i][s]] = store[s]
      /\ failed \subseteq failed' /\ overlaps \subseteq overlaps'
      /\ (at[t] = "get" \/ map[i][s] = 0) /\ s \notin overlaps' => Persisting(s) \subseteq {t}

LEMMA LookUp ==
  ASSUME LockTypeOK, CopyInv, NEW t \in SessTurns, GetSimpleMemory(t)
  PROVE  LookedUp(t)
<1> DEFINE i == where[t]
           s == SessionOf[t]
           n == NewId(CopiesInUse)
<1>1. i \in Pods /\ s \in Sessions /\ CopyTypeOK /\ AtHome
  BY DEF LockTypeOK, CopyInv
<1>2. /\ failed \subseteq failed' /\ overlaps \subseteq overlaps'
      /\ (at[t] = "get" \/ map[i][s] = 0) /\ s \notin overlaps' => Persisting(s) \subseteq {t}
  BY DEF GetSimpleMemory, Persisting
<1>3. CASE /\ map[i][s] # 0
           /\ memOf' = [memOf EXCEPT ![t] = map[i][s]]
           /\ heap' = LiveCopies(heap, map, memOf')
           /\ UNCHANGED map
  <2>1. heap' \in [CopyIds -> Conversations]
    BY <1>1, <1>3, LiveStay DEF CopyTypeOK
  <2>2. \A j \in Pods, r \in Sessions :
          map[j][r] # 0 => heap'[map[j][r]] = heap[map[j][r]]
    <3> SUFFICES ASSUME NEW j \in Pods, NEW r \in Sessions, map[j][r] # 0
                 PROVE  heap'[map[j][r]] = heap[map[j][r]]
      OBVIOUS
    <3>1. map[j][r] \in CopyIds
      BY <1>1 DEF CopyTypeOK
    <3> QED BY <1>1, <1>3, <3>1, LiveStay DEF CopyTypeOK
  <2>3. \A u \in SessTurns \ {t} : memOf[u] # 0 => heap'[memOf[u]] = heap[memOf[u]]
    <3> SUFFICES ASSUME NEW u \in SessTurns \ {t}, memOf[u] # 0
                 PROVE  heap'[memOf[u]] = heap[memOf[u]]
      OBVIOUS
    <3>1. memOf[u] \in CopyIds /\ memOf'[u] = memOf[u]
      BY <1>1, <1>3 DEF CopyTypeOK
    <3>2. heap \in [CopyIds -> Conversations] /\ heap' = LiveCopies(heap, map, memOf')
      BY <1>1, <1>3 DEF CopyTypeOK
    <3>3. \A k \in CopyIds, v \in SessTurns : memOf'[v] = k => heap'[k] = heap[k]
      BY <3>2, LiveStay
    <3> QED BY <3>1, <3>3
  <2> QED BY <1>1, <1>2, <1>3, <2>1, <2>2, <2>3 DEF LookedUp, CopyTypeOK
<1>4. CASE \E new \in Conversations :
             /\ map[i][s] = 0
             /\ map' \in [Pods -> [Sessions -> CopyIds \cup {0}]] /\ map'[i][s] = n
             /\ \A j \in Pods, r \in Sessions :
                  <<j, r>> # <<i, s>> => map'[j][r] \in {0, map[j][r]}
             /\ memOf' = [memOf EXCEPT ![t] = n]
             /\ heap' = LiveCopies([heap EXCEPT ![n] = new], map', memOf')
             /\ s \notin failed' => new = store[s]
  <2>1. n \in CopyIds /\ n \notin CopiesInUse
    BY <1>1, <1>4, FreshCopy
  <2>2. PICK new \in Conversations :
          /\ heap' = LiveCopies([heap EXCEPT ![n] = new], map', memOf')
          /\ s \notin failed' => new = store[s]
    BY <1>4
  <2> DEFINE H == [heap EXCEPT ![n] = new]
  <2>3. H \in [CopyIds -> Conversations]
        /\ (\A k \in CopyIds \ {n} : H[k] = heap[k]) /\ H[n] = new
        /\ heap' = LiveCopies(H, map', memOf')
    BY <1>1, <2>1, <2>2 DEF CopyTypeOK
  <2>4. map' \in [Pods -> [Sessions -> CopyIds \cup {0}]] /\ map'[i][s] = n
    BY <1>4
  <2>5. memOf' = [memOf EXCEPT ![t] = n] /\ memOf'[t] = n
    BY <1>1, <1>4 DEF CopyTypeOK
  <2> HIDE DEF H, n
  <2>6. heap' \in [CopyIds -> Conversations]
    BY <2>3, LiveStay
  <2>7. \A k \in CopyIds, j \in Pods, r \in Sessions : map'[j][r] = k => heap'[k] = H[k]
    BY <2>3, LiveStay
  <2>8. \A k \in CopyIds, u \in SessTurns : memOf'[u] = k => heap'[k] = H[k]
    BY <2>3, LiveStay
  <2>9. \A j \in Pods, r \in Sessions :
          map[j][r] # 0 /\ map'[j][r] = map[j][r] => heap'[map[j][r]] = heap[map[j][r]]
    <3> SUFFICES ASSUME NEW j \in Pods, NEW r \in Sessions,
                        map[j][r] # 0, map'[j][r] = map[j][r]
                 PROVE  heap'[map[j][r]] = heap[map[j][r]]
      OBVIOUS
    <3>1. map[j][r] \in CopyIds \ {n}
      BY <1>1, <2>1 DEF CopyTypeOK, CopiesInUse
    <3> QED BY <2>3, <2>7, <3>1
  <2>10. \A u \in SessTurns \ {t} : memOf[u] # 0 => heap'[memOf[u]] = heap[memOf[u]]
    <3> SUFFICES ASSUME NEW u \in SessTurns \ {t}, memOf[u] # 0
                 PROVE  heap'[memOf[u]] = heap[memOf[u]]
      OBVIOUS
    <3>1. memOf[u] \in CopyIds \ {n} /\ memOf'[u] = memOf[u]
      BY <1>1, <2>1, <2>5 DEF CopyTypeOK, CopiesInUse
    <3> QED BY <2>3, <2>8, <3>1
  <2>11. s \notin failed' => heap'[n] = store[s]
    BY <1>1, <2>1, <2>2, <2>3, <2>4, <2>7
  <2>12. \A j \in Pods, r \in Sessions :
                  <<j, r>> # <<i, s>> => map'[j][r] \in {0, map[j][r]}
    BY <1>4
  <2>13. n # 0 /\ map[i][s] = 0
    BY <1>4, <2>1, Numbered
  <2> QED BY <1>2, <2>4, <2>5, <2>6, <2>9, <2>10, <2>11, <2>12, <2>13 DEF LookedUp
<1>5. ASSUME map[i][s] = 0, map' = [map EXCEPT ![i][s] = n] \/ map' = EvictFor(i, s)
      PROVE  /\ map' \in [Pods -> [Sessions -> CopyIds \cup {0}]] /\ map'[i][s] = n
             /\ \A j \in Pods, r \in Sessions :
                  <<j, r>> # <<i, s>> => map'[j][r] \in {0, map[j][r]}
  <2>1. n \in CopyIds
    BY <1>1, <1>5, FreshCopy
  <2> HIDE DEF n
  <2>2. CASE map' = [map EXCEPT ![i][s] = n]
    BY <1>1, <2>1, <2>2 DEF CopyTypeOK
  <2>3. CASE map' = [map EXCEPT ![i][Head(order[i])] = 0, ![i][s] = n]
    BY <1>1, <2>1, <2>3 DEF CopyTypeOK
  <2> QED BY <1>5, <2>2, <2>3 DEF EvictFor, n
<1>6. CASE /\ map[i][s] = 0 /\ map' = [map EXCEPT ![i][s] = n]
           /\ memOf' = [memOf EXCEPT ![t] = n]
           /\ heap' = LiveCopies([heap EXCEPT ![n] = Loaded(s)], map', memOf')
  <2>1. Loaded(s) \in Conversations /\ Loaded(s) = store[s]
    BY <1>1 DEF CopyTypeOK, Loaded
  <2> QED BY <1>4, <1>5, <1>6, <2>1
<1>7. CASE /\ map[i][s] = 0 /\ map' = EvictFor(i, s)
           /\ memOf' = [memOf EXCEPT ![t] = n]
           /\ heap' = LiveCopies([heap EXCEPT ![n] = Empty], map', memOf')
           /\ s \notin failed' => Empty = store[s]
  <2>1. Empty \in Conversations
    BY DEF Empty, Conversations
  <2> QED BY <1>4, <1>5, <1>7, <2>1
<1> QED BY <1>3, <1>6, <1>7 DEF GetSimpleMemory

\* What a turn finds is all that was said, if the session is undisturbed.
LEMMA FindsAll ==
  ASSUME CopyInv, NEW t \in SessTurns, LookedUp(t), where[t] \in Pods,
         UNCHANGED completed, Undisturbed(SessionOf[t])'
  PROVE  Said(SessionOf[t]) \subseteq Remembered(heap'[memOf'[t]])
<1> DEFINE i == where[t]
           s == SessionOf[t]
<1>1. s \in Sessions /\ Undisturbed(s) /\ AllKept(s)
  BY DEF CopyInv, Undisturbed, LookedUp
<1>2. memOf'[t] = map'[i][s]
  BY DEF LookedUp, CopyInv, CopyTypeOK
<1>3. CASE map[i][s] # 0
  BY <1>1, <1>2, <1>3 DEF AllKept, LookedUp
<1>4. CASE map[i][s] = 0
  BY <1>1, <1>2, <1>4 DEF AllKept, LookedUp, Undisturbed
<1> QED BY <1>3, <1>4

\* Looking a session up, to read it or to write to it.
LEMMA LookUpStep ==
  ASSUME LockInv, CopyInv, NEW t \in SessTurns, Read(t) \/ Get(t)
  PROVE  CopyInv'
<1> DEFINE i == where[t]
           s == SessionOf[t]
<1>1. LookedUp(t) /\ i \in Pods /\ s \in Sessions /\ CopyTypeOK
  BY LookUp DEF Read, Get, LockInv, LockTypeOK, CopyInv
<1>2. UNCHANGED <<where, snapshot, store, completed, podOf>>
  BY DEF Read, Get
<1>3. \E next \in {"unlock", "agent", "append"} :
        /\ at' = [at EXCEPT ![t] = next]
        /\ next = "append" <=> at[t] = "get"
  BY DEF Read, Get, SessGoto
<1>4. /\ at[t] \in {"locked", "get"}
      /\ at'[t] \in {"unlock", "agent", "append"}
      /\ at'[t] = "append" <=> at[t] = "get"
      /\ \A u \in SessTurns \ {t} : at'[u] = at[u]
  BY <1>3 DEF Read, Get, LockInv, LockTypeOK
<1>5. memOf'[t] = map'[i][s] /\ (\A u \in SessTurns \ {t} : memOf'[u] = memOf[u])
      /\ memOf' \in [SessTurns -> CopyIds \cup {0}]
  BY <1>1 DEF LookedUp, CopyTypeOK
<1>6. CopyTypeOK'
  <2>1. \A u \in SessTurns : Persists(u)' => memOf'[u] # 0
    BY <1>1, <1>4, <1>5 DEF Persists, CopyTypeOK, LookedUp
  <2> QED BY <1>1, <1>2, <1>5, <2>1 DEF CopyTypeOK, LookedUp
<1>7. AtHome'
  <2>1. \A u \in SessTurns : at[u] # "new" => at'[u] # "new" /\ where'[u] = where[u]
    BY <1>2, <1>4
  <2>2. \A u \in SessTurns : Active(u)' => Active(u)
    BY <1>4 DEF Active
  <2>3. Active(t)
    BY <1>4 DEF Active
  <2>4. \A j \in Pods, r \in Sessions :
           \/ map'[j][r] \in {0, map[j][r]}
           \/ \E u \in SessTurns : Active(u) /\ where[u] = j /\ SessionOf[u] = r
    BY <1>1, <2>3 DEF LookedUp
  <2> QED BY <1>2, <2>1, <2>2, <2>4, StaysHome
<1>8. ASSUME NEW r \in Sessions, Undisturbed(r)' PROVE AllKept(r)'
  <2>1. Undisturbed(r) /\ AllKept(r) /\ Said(r)' = Said(r)
    BY <1>1, <1>2, <1>8 DEF CopyInv, Undisturbed, LookedUp, Said
  <2>2. ASSUME NEW j \in Pods, map'[j][r] # 0
        PROVE  Said(r) \subseteq Remembered(heap'[map'[j][r]])
    <3>1. CASE <<j, r>> = <<i, s>>
      BY <1>1, <1>2, <1>5, <1>8, <3>1, FindsAll
    <3>2. CASE <<j, r>> # <<i, s>>
      BY <1>1, <2>1, <2>2, <3>2 DEF LookedUp, AllKept
    <3> QED BY <3>1, <3>2
  <2>3. \A u \in Persisting(r)' : u \in SessTurns /\ SessionOf[u] = r
          /\ (u # t => u \in Persisting(r)) /\ (u = t => at[t] = "get" /\ r = s)
    BY <1>4 DEF Persisting, Persists
  <2>4. \A u, v \in Persisting(r)' : u = v
    <3>1. \A u, v \in Persisting(r) : u = v
      BY <2>1 DEF AllKept
    <3>2. at[t] = "get" /\ r = s => Persisting(r) \subseteq {t}
      BY <1>1, <1>8 DEF LookedUp, Undisturbed
    <3> QED BY <2>3, <3>1, <3>2
  <2>5. ASSUME NEW u \in Persisting(r)' PROVE WritesAll(u)'
    <3>1. CASE u = t
      <4>1. at'[t] = "append" /\ r = s
        BY <1>4, <2>3, <2>5, <3>1
      <4>2. Said(s) \subseteq Remembered(heap'[memOf'[t]])
        BY <1>1, <1>2, <1>8, <4>1, FindsAll
      <4> QED BY <1>2, <1>5, <2>1, <3>1, <4>1, <4>2 DEF WritesAll
    <3>2. CASE u # t
      <4>1. u \in Persisting(r) /\ WritesAll(u) /\ u \in SessTurns /\ SessionOf[u] = r
        BY <2>1, <2>3, <2>5, <3>2 DEF AllKept
      <4>2. memOf'[u] = memOf[u] /\ memOf[u] # 0 /\ at'[u] = at[u]
        BY <1>1, <1>4, <1>5, <3>2, <4>1 DEF CopyTypeOK, Persisting
      <4>3. heap'[memOf'[u]] = heap[memOf[u]]
        BY <1>1, <3>2, <4>1, <4>2 DEF LookedUp
      <4>4. map'[where[u]][r] \in {0, map[where[u]][r]}
        <5>1. where[u] \in Pods
          BY <4>1 DEF LockInv, LockTypeOK
        <5>2. CASE <<where[u], r>> # <<i, s>>
          BY <1>1, <4>1, <5>1, <5>2 DEF LookedUp
        <5>3. CASE <<where[u], r>> = <<i, s>>
          <6>1. map[i][s] # 0
            BY <1>1, <1>8, <3>2, <4>1, <5>3 DEF LookedUp, Undisturbed
          <6> QED BY <1>1, <5>3, <6>1 DEF LookedUp
        <5> QED BY <5>2, <5>3
      <4> QED BY <1>2, <2>1, <4>1, <4>2, <4>3, <4>4 DEF WritesAll
    <3> QED BY <3>1, <3>2
  <2> QED BY <1>2, <2>1, <2>2, <2>4, <2>5 DEF AllKept
<1> QED BY <1>6, <1>7, <1>8 DEF CopyInv

\* Adding a pair forgets nothing: what leaves the window goes to the summary.
LEMMA PairAdded ==
  ASSUME NEW copy \in Conversations, NEW t \in SessTurns
  PROVE  /\ WithPair(copy, t) \in Conversations
         /\ Remembered(WithPair(copy, t)) = Remembered(copy) \cup {t}
<1> DEFINE c == copy.window
           w == Append(c, t)
           longer == [copy EXCEPT !.window = Append(copy.window, t)]
<1>1. c \in Seq(SessTurns) /\ copy.summary \in SUBSET SessTurns
  BY DEF Conversations
<1>2. /\ w \in Seq(SessTurns) /\ Len(w) = Len(c) + 1 /\ Len(c) \in Nat
      /\ DOMAIN w = 1..Len(w) /\ DOMAIN c = 1..Len(c)
      /\ w[Len(w)] = t /\ \A k \in 1..Len(c) : w[k] = c[k]
  BY <1>1
<1>3. Range(w) = Range(c) \cup {t}
  <2>1. ASSUME NEW k \in DOMAIN w PROVE w[k] \in Range(c) \cup {t}
    BY <1>2 DEF Range
  <2>2. ASSUME NEW k \in DOMAIN c PROVE k \in DOMAIN w /\ w[k] = c[k]
    <3> HIDE DEF w, c
    <3> QED BY <1>2
  <2>3. Len(w) \in DOMAIN w
    <3> HIDE DEF w, c
    <3> QED BY <1>2
  <2> QED BY <1>2, <2>1, <2>2, <2>3 DEF Range
<1>4. /\ longer \in Conversations /\ longer.window = w /\ longer.summary = copy.summary
      /\ Remembered(longer) = Remembered(copy) \cup {t}
  <2>1. longer \in Conversations /\ longer.window = w /\ longer.summary = copy.summary
    BY <1>2 DEF Conversations
  <2> QED BY <1>3, <2>1 DEF Remembered
<1>5. CASE Len(w) > WindowPairs
  <2>1. /\ Tail(w) \in Seq(SessTurns) /\ Head(w) = w[1] /\ Head(w) \in SessTurns
        /\ Len(Tail(w)) = Len(w) - 1 /\ DOMAIN Tail(w) = 1..Len(Tail(w))
        /\ \A k \in 1..Len(Tail(w)) : Tail(w)[k] = w[k + 1]
    <3> HIDE DEF w, c
    <3>1. w # <<>>
      BY <1>2
    <3> QED BY <1>2, <3>1
  <2>2. Range(w) = Range(Tail(w)) \cup {Head(w)}
    <3> HIDE DEF w, c
    <3>1. ASSUME NEW k \in DOMAIN w PROVE w[k] \in Range(Tail(w)) \cup {Head(w)}
      <4>1. CASE k = 1
        BY <2>1, <4>1
      <4>2. CASE k # 1
        <5>1. k - 1 \in DOMAIN Tail(w) /\ Tail(w)[k - 1] = w[k]
          BY <1>2, <2>1, <3>1, <4>2
        <5> QED BY <5>1 DEF Range
      <4> QED BY <4>1, <4>2
    <3>2. ASSUME NEW k \in DOMAIN Tail(w) PROVE Tail(w)[k] \in Range(w)
      <4>1. k + 1 \in DOMAIN w /\ Tail(w)[k] = w[k + 1]
        BY <1>2, <2>1, <3>2
      <4> QED BY <4>1 DEF Range
    <3>3. Head(w) \in Range(w)
      <4>1. 1 \in DOMAIN w
        BY <1>2
      <4> QED BY <2>1, <4>1 DEF Range
    <3> QED BY <3>1, <3>2, <3>3 DEF Range
  <2> DEFINE new == [window |-> Tail(w), summary |-> copy.summary \cup {Head(w)}]
  <2>3. Trimmed(longer) = new
    BY <1>4, <1>5 DEF Trimmed
  <2>4. new \in Conversations
    BY <1>1, <2>1 DEF Conversations
  <2>5. Remembered(new) = Remembered(longer)
    BY <1>4, <2>2 DEF Remembered
  <2> QED BY <1>4, <2>3, <2>4, <2>5 DEF WithPair
<1>6. CASE ~(Len(w) > WindowPairs)
  <2>1. Trimmed(longer) = longer
    BY <1>4, <1>6 DEF Trimmed
  <2> QED BY <1>4, <2>1 DEF WithPair
<1> QED BY <1>5, <1>6

\* A turn puts its own pair into its copy.
LEMMA AddPairStep ==
  ASSUME LockInv, CopyInv, NEW t \in SessTurns, AddPair(t)
  PROVE  CopyInv'
<1> DEFINE m == memOf[t]
           new == WithPair(heap[m], t)
<1>1. /\ at[t] = "append" /\ at'[t] = "marshal" /\ m \in CopyIds
      /\ \A u \in SessTurns \ {t} : at'[u] = at[u]
  BY DEF AddPair, SessGoto, LockInv, LockTypeOK, CopyInv, CopyTypeOK, Persists
<1>2. UNCHANGED <<where, podOf, memOf, snapshot, map, store, completed, failed, overlaps>>
  BY DEF AddPair, histVars
<1>3. /\ heap' \in [CopyIds -> Conversations]
      /\ \A k \in CopyIds : Remembered(heap[k]) \subseteq Remembered(heap'[k])
      /\ t \in Remembered(heap'[m])
  <2>1. new \in Conversations /\ Remembered(new) = Remembered(heap[m]) \cup {t}
    BY <1>1, PairAdded DEF CopyInv, CopyTypeOK
  <2>2. heap' = [heap EXCEPT ![m] = new]
    BY DEF AddPair
  <2> HIDE DEF new
  <2> QED BY <1>1, <2>1, <2>2 DEF CopyInv, CopyTypeOK
<1>4. CopyTypeOK'
  BY <1>1, <1>2, <1>3 DEF CopyInv, CopyTypeOK, Persists
<1>5. AtHome'
  <2>1. \A u \in SessTurns : at[u] # "new" => at'[u] # "new" /\ where'[u] = where[u]
    BY <1>1, <1>2
  <2>2. \A u \in SessTurns : Active(u)' => Active(u)
    BY <1>1 DEF Active
  <2> QED BY <1>2, <2>1, <2>2, StaysHome
<1>6. ASSUME NEW s \in Sessions, Undisturbed(s)' PROVE AllKept(s)'
  <2>1. AllKept(s) /\ Said(s)' = Said(s)
    BY <1>2, <1>6 DEF CopyInv, Undisturbed, Said
  <2>2. Persisting(s)' = Persisting(s)
    BY <1>1 DEF Persisting, Persists
  <2>3. \A i \in Pods :
          map[i][s] # 0 => Said(s) \subseteq Remembered(heap'[map[i][s]])
    BY <1>3, <2>1 DEF AllKept, CopyInv, CopyTypeOK
  <2>4. ASSUME NEW u \in Persisting(s) PROVE WritesAll(u)'
    <3>1. WritesAll(u) /\ memOf[u] \in CopyIds /\ u \in SessTurns /\ SessionOf[u] = s
      BY <2>1, <2>4 DEF AllKept, Persisting, CopyInv, CopyTypeOK
    <3>2. at'[u] \in {"marshal", "set"} => u \in Remembered(heap'[memOf[u]])
      BY <1>1, <1>3, <3>1 DEF WritesAll
    <3>3. at'[u] = "set" => at[u] = "set"
      BY <1>1, <3>1
    <3>4. Said(s) \subseteq Remembered(heap'[memOf[u]])
      BY <1>3, <3>1 DEF WritesAll
    <3> QED BY <1>2, <2>1, <3>1, <3>2, <3>3, <3>4 DEF WritesAll
  <2> QED BY <1>2, <2>1, <2>2, <2>3, <2>4 DEF AllKept
<1> QED BY <1>4, <1>5, <1>6 DEF CopyInv

\* A turn takes down what it will write.
LEMMA MarshalStep ==
  ASSUME LockInv, CopyInv, NEW t \in SessTurns, Marshal(t)
  PROVE  CopyInv'
<1>1. /\ at[t] = "marshal" /\ at'[t] = "set" /\ memOf[t] \in CopyIds
      /\ \A u \in SessTurns \ {t} : at'[u] = at[u]
  BY DEF Marshal, SessGoto, LockInv, LockTypeOK, CopyInv, CopyTypeOK, Persists
<1>2. UNCHANGED <<where, podOf, memOf, heap, map, store, completed, failed, overlaps>>
  BY DEF Marshal, histVars, memVars
<1>3. /\ snapshot' \in [SessTurns -> Conversations]
      /\ snapshot'[t] = heap[memOf[t]]
      /\ \A u \in SessTurns \ {t} : snapshot'[u] = snapshot[u]
  BY <1>1 DEF Marshal, CopyInv, CopyTypeOK
<1>4. CopyTypeOK'
  BY <1>1, <1>2, <1>3 DEF CopyInv, CopyTypeOK, Persists
<1>5. AtHome'
  <2>1. \A u \in SessTurns : at[u] # "new" => at'[u] # "new" /\ where'[u] = where[u]
    BY <1>1, <1>2
  <2>2. \A u \in SessTurns : Active(u)' => Active(u)
    BY <1>1 DEF Active
  <2> QED BY <1>2, <2>1, <2>2, StaysHome
<1>6. ASSUME NEW s \in Sessions, Undisturbed(s)' PROVE AllKept(s)'
  <2>1. AllKept(s) /\ Said(s)' = Said(s)
    BY <1>2, <1>6 DEF CopyInv, Undisturbed, Said
  <2>2. Persisting(s)' = Persisting(s)
    BY <1>1 DEF Persisting, Persists
  <2>3. ASSUME NEW u \in Persisting(s) PROVE WritesAll(u)'
    <3>1. WritesAll(u) /\ u \in SessTurns /\ SessionOf[u] = s
      BY <2>1, <2>3 DEF AllKept, Persisting
    <3>2. at'[u] \in {"marshal", "set"} => u \in Remembered(heap[memOf[u]])
      BY <1>1, <3>1 DEF WritesAll
    <3>3. at'[u] = "set" => Said(s) \cup {u} \subseteq Remembered(snapshot'[u])
      BY <1>1, <1>3, <3>1 DEF WritesAll
    <3> QED BY <1>2, <2>1, <3>1, <3>2, <3>3 DEF WritesAll
  <2> QED BY <1>2, <2>1, <2>2, <2>3 DEF AllKept
<1> QED BY <1>4, <1>5, <1>6 DEF CopyInv

\* A turn writes to Redis, or fails to.
LEMMA SetStep ==
  ASSUME LockInv, CopyInv, NEW t \in SessTurns, Set(t)
  PROVE  CopyInv'
<1> DEFINE s == SessionOf[t]
<1>1. /\ at[t] = "set" /\ at'[t] \in {"done", "cache", "unlock"}
      /\ \A u \in SessTurns \ {t} : at'[u] = at[u]
      /\ s \in Sessions /\ where[t] \in Pods /\ CopyTypeOK
  BY DEF Set, SessGoto, LockInv, LockTypeOK, CopyInv
<1>2. /\ UNCHANGED <<where, podOf, map, overlaps>>
      /\ completed' = completed \cup {t} /\ failed \subseteq failed'
  BY DEF Set
<1>3. /\ memOf' \in [SessTurns -> CopyIds \cup {0}] /\ memOf'[t] = 0
      /\ \A u \in SessTurns \ {t} : memOf'[u] = memOf[u]
      /\ snapshot' \in [SessTurns -> Conversations]
      /\ \A u \in SessTurns \ {t} : snapshot'[u] = snapshot[u]
  <2>1. Empty \in Conversations
    BY DEF Empty, Conversations
  <2> QED BY <1>1, <2>1 DEF Set, CopyTypeOK
<1>4. /\ heap' \in [CopyIds -> Conversations]
      /\ \A j \in Pods, r \in Sessions :
           map[j][r] # 0 => heap'[map[j][r]] = heap[map[j][r]]
      /\ \A u \in SessTurns : memOf'[u] # 0 => heap'[memOf'[u]] = heap[memOf'[u]]
  <2>1. heap \in [CopyIds -> Conversations] /\ heap' = LiveCopies(heap, map, memOf')
    BY <1>1 DEF Set, CopyTypeOK
  <2>2. /\ heap' \in [CopyIds -> Conversations]
        /\ \A n \in CopyIds, j \in Pods, r \in Sessions :
             map[j][r] = n => heap'[n] = heap[n]
        /\ \A n \in CopyIds, u \in SessTurns : memOf'[u] = n => heap'[n] = heap[n]
    BY <2>1, LiveStay
  <2> QED BY <1>1, <1>3, <2>2 DEF CopyTypeOK
<1>5. /\ store' \in [Sessions -> Conversations]
      /\ \A r \in Sessions \ {s} : store'[r] = store[r]
      /\ s \notin failed' => store'[s] = snapshot[t]
  BY <1>1 DEF Set, CopyTypeOK
<1>6. CopyTypeOK'
  <2>1. \A u \in SessTurns : Persists(u)' => memOf'[u] # 0
    BY <1>1, <1>3 DEF Persists, CopyTypeOK
  <2> QED BY <1>1, <1>2, <1>3, <1>4, <1>5, <2>1 DEF CopyTypeOK
<1>7. AtHome'
  <2>1. \A u \in SessTurns : at[u] # "new" => at'[u] # "new" /\ where'[u] = where[u]
    BY <1>1, <1>2
  <2>2. \A u \in SessTurns : Active(u)' => Active(u)
    BY <1>1 DEF Active
  <2> QED BY <1>2, <2>1, <2>2, StaysHome
<1>8. ASSUME NEW r \in Sessions, Undisturbed(r)' PROVE AllKept(r)'
  <2>1. AllKept(r)
    BY <1>2, <1>8 DEF CopyInv, Undisturbed
  <2>2. /\ Said(r)' \subseteq Said(r) \cup {t}
        /\ r # s => Said(r)' = Said(r)
    BY <1>2 DEF Said
  <2>3. /\ Persisting(r)' \subseteq Persisting(r) \ {t}
        /\ t \in Persisting(s)
    BY <1>1 DEF Persisting, Persists
  <2>4. CASE r # s
    <3>1. ASSUME NEW u \in Persisting(r)' PROVE WritesAll(u)'
      <4>1. WritesAll(u) /\ u \in SessTurns /\ u # t /\ SessionOf[u] = r /\ memOf[u] # 0
        BY <1>1, <2>1, <2>3, <3>1 DEF AllKept, Persisting, CopyTypeOK
      <4>2. /\ memOf'[u] = memOf[u] /\ heap'[memOf[u]] = heap[memOf[u]]
            /\ at'[u] = at[u] /\ snapshot'[u] = snapshot[u]
        BY <1>1, <1>3, <1>4, <4>1
      <4> QED BY <1>2, <2>2, <2>4, <4>1, <4>2 DEF WritesAll
    <3>2. \A i \in Pods :
            map[i][r] # 0 => Said(r) \subseteq Remembered(heap'[map[i][r]])
      BY <1>4, <2>1 DEF AllKept
    <3> QED BY <1>2, <1>5, <2>1, <2>2, <2>3, <2>4, <3>1, <3>2 DEF AllKept
  <2>5. CASE r = s
    <3>1. WritesAll(t) /\ Persisting(s)' = {}
      BY <2>1, <2>3, <2>5 DEF AllKept
    <3>2. Said(s)' \subseteq Remembered(store'[s])
      BY <1>1, <1>5, <1>8, <2>2, <2>5, <3>1 DEF WritesAll, Undisturbed
    <3>3. ASSUME NEW i \in Pods, map[i][s] # 0
          PROVE  Said(s)' \subseteq Remembered(heap'[map[i][s]])
      <4>1. i = where[t]
        BY <1>1, <3>3 DEF CopyInv, AtHome, Active
      <4>2. map[i][s] = memOf[t]
        BY <3>1, <3>3, <4>1 DEF WritesAll
      <4>3. Said(s) \cup {t} \subseteq Remembered(heap[map[i][s]])
        BY <1>1, <3>1, <4>2 DEF WritesAll
      <4> QED BY <1>1, <1>4, <2>2, <2>5, <3>3, <4>3
    <3> QED BY <1>2, <2>5, <3>1, <3>2, <3>3 DEF AllKept
  <2> QED BY <2>4, <2>5
<1> QED BY <1>6, <1>7, <1>8 DEF CopyInv

\* The other steps of turns, and of the environment between them.
LEMMA RestStep ==
  ASSUME LockInv, CopyInv, Affinity,
         \/ \E t \in SessTurns :
              Arrive(t) \/ Lock(t) \/ Agent(t) \/ StoreChatResponse(t) \/ Unlock(t) \/ Unref(t)
         \/ \E i \in Pods, s \in Sessions : IdleOut(i, s)
         \/ CacheExpires
         \/ UNCHANGED sessVars
  PROVE  CopyInv'
<1> USE DEF sessVars, askVars, memVars, histVars
<1>1. UNCHANGED <<snapshot, store, completed, failed, overlaps, podOf>>
  BY DEF Arrive, Lock, Agent, StoreChatResponse, Unlock, Unref, IdleOut, CacheExpires
<1>2. /\ at' \in [SessTurns -> Steps]
      /\ \A u \in SessTurns : at'[u] # at[u] => ~Persists(u)'
      /\ \A u \in SessTurns : at[u] # "new" => at'[u] # "new" /\ where'[u] = where[u]
      /\ \A u \in SessTurns :
           Active(u)' => Active(u) \/ where'[u] = podOf[SessionOf[u]]
      /\ where' \in [SessTurns -> Pods]
  <2>1. ASSUME NEW t \in SessTurns, Arrive(t) 
        PROVE  /\ at[t] = "new" /\ where' \in [SessTurns -> Pods]
               /\ where'[t] = podOf[SessionOf[t]]
               /\ \A u \in SessTurns \ {t} : where'[u] = where[u]
               /\ \E next \in {"get", "waiting"} : at' = [at EXCEPT ![t] = next]
    BY <2>1 DEF Arrive, SessGoto, LockInv, LockTypeOK
  <2>2. CASE \E t \in SessTurns : Arrive(t)
    <3>1. PICK t \in SessTurns : Arrive(t)
      BY <2>2
    <3>2. PICK next \in {"get", "waiting"} : at' = [at EXCEPT ![t] = next]
      BY <2>1, <3>1
    <3>3. at'[t] \in {"get", "waiting"} /\ \A u \in SessTurns \ {t} : at'[u] = at[u]
      BY <3>2 DEF LockInv, LockTypeOK
    <3>4. at' \in [SessTurns -> Steps]
      BY <3>2 DEF LockInv, LockTypeOK, Steps
    <3> QED BY <2>1, <3>1, <3>3, <3>4 DEF Persists, Active
  <2>3. CASE \E t \in SessTurns :
               Lock(t) \/ Agent(t) \/ StoreChatResponse(t) \/ Unlock(t) \/ Unref(t)
    <3>1. PICK t \in SessTurns :
            Lock(t) \/ Agent(t) \/ StoreChatResponse(t) \/ Unlock(t) \/ Unref(t)
      BY <2>3
    <3>2. /\ at[t] \notin {"new", "done", "dead"} /\ where' = where
          /\ \E next \in {"locked", "get", "unlock", "unref", "done"} :
               at' = [at EXCEPT ![t] = next]
      BY <3>1 DEF Lock, Agent, AfterAnswer, StoreChatResponse, Unlock, Unref, SessGoto
    <3>3. /\ at'[t] \in {"locked", "get", "unlock", "unref", "done"}
          /\ \A u \in SessTurns \ {t} : at'[u] = at[u]
          /\ at' \in [SessTurns -> Steps]
      BY <3>2 DEF LockInv, LockTypeOK, Steps
    <3> QED BY <3>2, <3>3 DEF Persists, Active, LockInv, LockTypeOK
  <2>4. CASE (\E i \in Pods, s \in Sessions : IdleOut(i, s)) \/ CacheExpires
             \/ UNCHANGED sessVars
    <3>1. at' = at /\ where' = where
      BY <2>4 DEF IdleOut, CacheExpires
    <3> QED BY <3>1 DEF Active, LockInv, LockTypeOK
  <2> QED BY <2>2, <2>3, <2>4
<1>3. /\ map' \in [Pods -> [Sessions -> CopyIds \cup {0}]]
      /\ memOf' \in [SessTurns -> CopyIds \cup {0}]
      /\ \A i \in Pods, s \in Sessions : map'[i][s] \in {0, map[i][s]}
      /\ \A u \in SessTurns : Persists(u)' => memOf'[u] = memOf[u]
  <2>1. CASE \E i \in Pods, s \in Sessions : IdleOut(i, s)
    <3>1. PICK i \in Pods, s \in Sessions : IdleOut(i, s)
      BY <2>1
    <3>2. map' = [map EXCEPT ![i][s] = 0] /\ memOf' = memOf
      BY <3>1 DEF IdleOut
    <3> QED BY <3>2 DEF CopyInv, CopyTypeOK
  <2>2. CASE \E t \in SessTurns : Unref(t)
    <3>1. PICK t \in SessTurns : Unref(t)
      BY <2>2
    <3>2. map' = map /\ memOf' = [memOf EXCEPT ![t] = 0] /\ at' = [at EXCEPT ![t] = "done"]
      BY <3>1 DEF Unref, SessGoto
    <3>3. ~Persists(t)'
      BY <3>2 DEF Persists, LockInv, LockTypeOK
    <3> QED BY <3>2, <3>3 DEF CopyInv, CopyTypeOK
  <2>3. CASE map' = map /\ memOf' = memOf
    BY <2>3 DEF CopyInv, CopyTypeOK
  <2> QED BY <2>1, <2>2, <2>3
          DEF Arrive, Lock, Agent, StoreChatResponse, Unlock, CacheExpires
<1>4. /\ heap' \in [CopyIds -> Conversations]
      /\ \A i \in Pods, s \in Sessions :
           map'[i][s] # 0 => heap'[map'[i][s]] = heap[map'[i][s]]
      /\ \A u \in SessTurns : memOf'[u] # 0 => heap'[memOf'[u]] = heap[memOf'[u]]
  <2>1. heap \in [CopyIds -> Conversations]
    BY DEF CopyInv, CopyTypeOK
  <2>2. heap' = heap \/ heap' = LiveCopies(heap, map', memOf')
    BY DEF Arrive, Lock, Agent, StoreChatResponse, Unlock, Unref, IdleOut, CacheExpires
  <2>3. CASE heap' = heap
    BY <2>1, <2>3
  <2>4. CASE heap' = LiveCopies(heap, map', memOf')
    <3>1. /\ heap' \in [CopyIds -> Conversations]
          /\ \A n \in CopyIds, i \in Pods, s \in Sessions :
               map'[i][s] = n => heap'[n] = heap[n]
          /\ \A n \in CopyIds, u \in SessTurns : memOf'[u] = n => heap'[n] = heap[n]
      BY <2>1, <2>4, LiveStay
    <3> QED BY <1>3, <3>1
  <2> QED BY <2>2, <2>3, <2>4
<1>5. \A u \in SessTurns : Persists(u)' => Persists(u) /\ at'[u] = at[u]
  BY <1>2 DEF Persists
<1>6. CopyTypeOK'
  BY <1>1, <1>3, <1>4, <1>5 DEF CopyInv, CopyTypeOK
<1>7. AtHome'
  BY <1>1, <1>2, <1>3, StaysHome
<1>8. \A u \in SessTurns : Persists(u)' =>
           /\ at'[u] = at[u] /\ memOf'[u] = memOf[u] /\ where'[u] = where[u]
           /\ where[u] \in Pods /\ snapshot'[u] = snapshot[u]
  BY <1>1, <1>2, <1>3, <1>5 DEF Persists, LockInv, LockTypeOK
<1>9. (\A s \in Sessions : Undisturbed(s) => AllKept(s))'
  BY <1>1, <1>3, <1>4, <1>6, <1>8, QuietStep
<1> QED BY <1>6, <1>7, <1>9 DEF CopyInv

\* A process dies with its copies; what was said is in Redis.
LEMMA CrashCopies ==
  ASSUME LockInv, CopyInv, NEW i \in Pods, PodCrash(i)
  PROVE  CopyInv'
<1> DEFINE dead == {t \in SessTurns : Active(t) /\ where[t] = i}
<1>1. UNCHANGED <<where, store, completed, failed, overlaps>>
  BY DEF PodCrash, histVars
<1>2. /\ at' = [t \in SessTurns |-> IF t \in dead THEN "dead" ELSE at[t]]
      /\ memOf' = [t \in SessTurns |-> IF t \in dead THEN 0 ELSE memOf[t]]
      /\ snapshot' = [t \in SessTurns |-> IF t \in dead THEN Empty ELSE snapshot[t]]
      /\ map' = [map EXCEPT ![i] = [s \in Sessions |-> 0]]
      /\ heap' = LiveCopies(heap, map', memOf')
  BY DEF PodCrash
<1>3. PICK j \in Pods \ {i} :
        podOf' = [s \in Sessions |-> IF podOf[s] = i THEN j ELSE podOf[s]]
  BY DEF PodCrash
<1>4. /\ map' \in [Pods -> [Sessions -> CopyIds \cup {0}]]
      /\ \A k \in Pods, s \in Sessions :
           /\ map'[k][s] \in {0, map[k][s]}
           /\ map'[k][s] # 0 => k # i
  BY <1>2 DEF CopyInv, CopyTypeOK
<1>5. /\ memOf' \in [SessTurns -> CopyIds \cup {0}]
      /\ snapshot' \in [SessTurns -> Conversations]
  <2>1. Empty \in Conversations
    BY DEF Empty, Conversations
  <2> QED BY <1>2, <2>1 DEF CopyInv, CopyTypeOK
<1>6. /\ heap' \in [CopyIds -> Conversations]
      /\ \A k \in Pods, s \in Sessions :
           map'[k][s] # 0 => heap'[map'[k][s]] = heap[map'[k][s]]
      /\ \A u \in SessTurns : memOf'[u] # 0 => heap'[memOf'[u]] = heap[memOf'[u]]
  <2>1. heap \in [CopyIds -> Conversations] /\ heap' = LiveCopies(heap, map', memOf')
    BY <1>2 DEF CopyInv, CopyTypeOK
  <2>2. /\ heap' \in [CopyIds -> Conversations]
        /\ \A n \in CopyIds, k \in Pods, s \in Sessions :
             map'[k][s] = n => heap'[n] = heap[n]
        /\ \A n \in CopyIds, u \in SessTurns : memOf'[u] = n => heap'[n] = heap[n]
    BY <2>1, LiveStay
  <2> QED BY <1>4, <1>5, <2>2
<1>7. \A u \in SessTurns : /\ u \in dead => at'[u] = "dead"
                           /\ u \notin dead => at'[u] = at[u] /\ memOf'[u] = memOf[u]
                                               /\ snapshot'[u] = snapshot[u]
  BY <1>2
<1>8. \A u \in SessTurns : Persists(u)' => u \notin dead /\ Persists(u)
  BY <1>7 DEF Persists
<1>9. CopyTypeOK'
  BY <1>1, <1>4, <1>5, <1>6, <1>7, <1>8 DEF CopyInv, CopyTypeOK
<1>10. AtHome'
  <2>1. ASSUME NEW u \in SessTurns, Active(u)'
        PROVE  where'[u] = podOf'[SessionOf[u]]
    <3>1. u \notin dead /\ Active(u)
      BY <1>7, <2>1 DEF Active
    <3>2. where[u] # i /\ where[u] = podOf[SessionOf[u]]
      BY <3>1 DEF CopyInv, AtHome
    <3> QED BY <1>1, <1>3, <3>2
  <2>2. ASSUME NEW k \in Pods, NEW s \in Sessions, map'[k][s] # 0
        PROVE  /\ k = podOf'[s]
               /\ \E u \in SessTurns :
                    at'[u] # "new" /\ where'[u] = k /\ SessionOf[u] = s
    <3>1. map[k][s] # 0 /\ k # i
      BY <1>4, <2>2
    <3>2. k = podOf[s]
      BY <3>1 DEF CopyInv, AtHome
    <3>3. PICK u \in SessTurns : at[u] # "new" /\ where[u] = k /\ SessionOf[u] = s
      BY <3>1 DEF CopyInv, AtHome
    <3>4. at'[u] # "new"
      BY <1>7, <3>3
    <3> QED BY <1>1, <1>3, <3>1, <3>2, <3>3, <3>4
  <2> QED BY <2>1, <2>2 DEF AtHome
<1>11. \A u \in SessTurns : Persists(u)' =>
           /\ at'[u] = at[u] /\ memOf'[u] = memOf[u] /\ where'[u] = where[u]
           /\ where[u] \in Pods /\ snapshot'[u] = snapshot[u]
  BY <1>1, <1>7, <1>8 DEF LockInv, LockTypeOK
<1>12. (\A s \in Sessions : Undisturbed(s) => AllKept(s))'
  BY <1>1, <1>4, <1>6, <1>9, <1>11, QuietStep
<1> QED BY <1>9, <1>10, <1>12 DEF CopyInv

\* The invariant of the copies is kept by every step.
LEMMA CopyStep ==
  ASSUME Affinity, LockInv, CopyInv, [SessNext]_sessVars
  PROVE  CopyInv'
<1>1. ASSUME NEW t \in SessTurns, TurnStep(t) PROVE CopyInv'
  BY <1>1, RestStep, LookUpStep, AddPairStep, MarshalStep, SetStep DEF TurnStep
<1>2. ASSUME NEW t \in SessTurns, Arrive(t) PROVE CopyInv'
  BY <1>2, RestStep
<1>3. ASSUME NEW i \in Pods, PodCrash(i) PROVE CopyInv'
  BY <1>3, CrashCopies
<1>4. CASE (\E i \in Pods, s \in Sessions : IdleOut(i, s)) \/ CacheExpires \/ UNCHANGED sessVars
  BY <1>4, RestStep
<1> QED BY <1>1, <1>2, <1>3, <1>4 DEF SessNext

\* A turn begins its answer only by reading the conversation.
LEMMA OnlyReadBegins ==
  ASSUME LockInv, [SessNext]_sessVars, NEW t \in SessTurns,
         at[t] = "locked", at'[t] = "agent"
  PROVE  Read(t)
<1>1. ASSUME NEW u \in SessTurns, Arrive(u) PROVE FALSE
  <2>1. at[u] = "new" /\ \E next \in {"get", "waiting"} : at' = [at EXCEPT ![u] = next]
    BY <1>1 DEF Arrive, SessGoto
  <2> QED BY <2>1 DEF LockInv, LockTypeOK
<1>2. ASSUME NEW u \in SessTurns, TurnStep(u) PROVE Read(t)
  <2>1. CASE u = t
    BY <1>2, <2>1 DEF TurnStep, Lock, Agent, Get, AddPair, Marshal, Set, StoreChatResponse,
                      Unlock, Unref
  <2>2. CASE u # t
    <3>1. \E next \in Steps : at' = [at EXCEPT ![u] = next]
      BY <1>2 DEF TurnStep, Lock, Read, Agent, AfterAnswer, Get, AddPair, Marshal, Set,
                  StoreChatResponse, Unlock, Unref, SessGoto, Steps
    <3> QED BY <2>2, <3>1 DEF LockInv, LockTypeOK
  <2> QED BY <2>1, <2>2
<1>3. ASSUME NEW i \in Pods, PodCrash(i) PROVE FALSE
  BY <1>3 DEF PodCrash
<1>4. CASE (\E i \in Pods, s \in Sessions : IdleOut(i, s)) \/ CacheExpires \/ UNCHANGED sessVars
  BY <1>4 DEF IdleOut, CacheExpires, sessVars, askVars
<1> QED BY <1>1, <1>2, <1>3, <1>4 DEF SessNext

\* The invariant of the copies holds when the server starts.
LEMMA CopiesStart == SessInit => CopyInv
<1> SUFFICES ASSUME SessInit PROVE CopyInv
  OBVIOUS
<1>1. Empty \in Conversations
  BY DEF Empty, Conversations
<1>2. CopyTypeOK
  BY <1>1 DEF SessInit, CopyTypeOK, Persists
<1>3. AtHome
  BY DEF SessInit, AtHome, Active
<1>4. ASSUME NEW s \in Sessions PROVE AllKept(s)
  <2>1. Said(s) = {} /\ Persisting(s) = {} /\ \A i \in Pods : map[i][s] = 0
    BY DEF SessInit, Said, Persisting, Persists
  <2> QED BY <2>1 DEF AllKept
<1> QED BY <1>2, <1>3, <1>4 DEF CopyInv

\* Where the requests of a session go to one process, a chat turn sees all that was
\* said before it, in any number of sessions, with copies dropped for room or for
\* age, and over crashes of processes.
THEOREM TurnsSeeWhatWasSaid ==
  ASSUME Affinity
  PROVE  SessSpec => TurnSeesPredecessors
<1> DEFINE Sees ==
      \A t \in SessTurns :
       /\ at[t] = "locked" /\ at'[t] = "agent"
       /\ SessionOf[t] \notin failed' \cup overlaps'
       => {u \in completed : SessionOf[u] = SessionOf[t]}
            \subseteq Remembered(heap'[memOf'[t]])
<1>1. SessInit => LockInv /\ CopyInv
  BY CopiesStart, LockStart
<1>2. LockInv /\ CopyInv /\ [SessNext]_sessVars => (LockInv /\ CopyInv)'
  BY LockStep, CopyStep
<1>3. LockInv /\ CopyInv /\ [SessNext]_sessVars => [Sees]_sessVars
  <2> SUFFICES ASSUME LockInv, CopyInv, [SessNext]_sessVars, NEW t \in SessTurns,
                      at[t] = "locked", at'[t] = "agent",
                      SessionOf[t] \notin failed' \cup overlaps'
               PROVE  {u \in completed : SessionOf[u] = SessionOf[t]}
                        \subseteq Remembered(heap'[memOf'[t]])
    OBVIOUS
  <2>1. Read(t)
    BY OnlyReadBegins
  <2>2. LookedUp(t) /\ where[t] \in Pods /\ UNCHANGED completed
    BY <2>1, LookUp DEF Read, LockInv, LockTypeOK
  <2> QED BY <2>2, FindsAll DEF Undisturbed, Said
<1> QED BY <1>1, <1>2, <1>3, PTL DEF SessSpec, TurnSeesPredecessors

----------------------------------------------------------------------------
(* The limit on requests: the sliding window *)

\* The constants of the limiter are numbers.
LEMMA RlConstants ==
  /\ Rate \in Nat /\ Capacity \in Nat /\ Window \in Nat
  /\ IdleLimit \in Nat /\ MaxSkew \in Nat /\ MaxTime \in Nat
BY RatesAssumption, TimesAssumption

WindowTypeOK ==
  /\ now \in Times
  /\ skew \in [Processes -> 0..MaxSkew]
  /\ zset \subseteq Member /\ IsFiniteSet(zset)
  /\ \A g \in granted : g.at \in Times /\ g.at <= now /\ g.member \in Member

\* A member Redis granted carries a time its process could read then, and is
\* kept as long as it can stand in the way of another.
GrantsKept ==
  \A g \in granted :
    /\ g.at <= g.member.time /\ g.member.time <= g.at + MaxSkew
    /\ now + MaxSkew < g.member.time + Window => g.member \in zset

WindowInv == WindowTypeOK /\ GrantsKept /\ SharedLimit

\* What a script of a process at this moment prunes cannot stand in the way
\* of anything granted now.
LEMMA PruneKeeps ==
  ASSUME WindowInv, NEW p \in Processes, NEW g \in granted,
         now + MaxSkew < g.member.time + Window
  PROVE  g.member \in Pruned(Clock(p))
<1>1. g.member \in zset  BY DEF WindowInv, GrantsKept
<1>2. g.member.time \in Nat  BY DEF WindowInv, WindowTypeOK, Member
<1>3. skew[p] \in 0..MaxSkew /\ now \in Nat  BY RlConstants DEF WindowInv, WindowTypeOK, Times
<1>4. ~(g.member.time + Window <= now + skew[p])  BY <1>2, <1>3, RlConstants
<1> QED  BY <1>1, <1>4 DEF Pruned, Expired, Clock

\* Running the script keeps every granted member that may still count.
LEMMA ScriptKeeps ==
  ASSUME WindowInv, NEW p \in Processes, NEW s \in Suffixes,
         RunScript([time |-> Clock(p), suffix |-> s])
  PROVE  /\ zset' \subseteq Member /\ IsFiniteSet(zset')
         /\ \A g \in granted :
              now + MaxSkew < g.member.time + Window => g.member \in zset'
<1> DEFINE m == [time |-> Clock(p), suffix |-> s]
<1>1. m \in Member /\ m.time = Clock(p)
  BY RlConstants DEF WindowInv, WindowTypeOK, Member, Clock, Times
<1>2. Pruned(Clock(p)) \subseteq zset  BY DEF Pruned
<1>3. IsFiniteSet(Pruned(Clock(p)))
  BY <1>2, FS_Subset DEF WindowInv, WindowTypeOK
<1>4. IsFiniteSet(Pruned(Clock(p)) \cup {m})
  BY <1>3, FS_AddElement
<1>5. zset' = Pruned(Clock(p)) \/ zset' = Pruned(Clock(p)) \cup {m}
  BY <1>1 DEF RunScript
<1>6. zset' \subseteq Member /\ IsFiniteSet(zset')
  BY <1>1, <1>2, <1>3, <1>4, <1>5 DEF WindowInv, WindowTypeOK
<1>7. ASSUME NEW g \in granted, now + MaxSkew < g.member.time + Window
      PROVE  g.member \in zset'
  BY <1>5, <1>7, PruneKeeps
<1> QED  BY <1>6, <1>7

\* What was granted from t on counts when the script decides, as long as t's
\* stretch is not over.
LEMMA GrantedCounts ==
  ASSUME WindowInv, NEW p \in Processes, NEW t \in Nat,
         now + MaxSkew < t + Window
  PROVE  GrantedIn(t) \subseteq Pruned(Clock(p))
<1> SUFFICES ASSUME NEW g \in granted, t <= g.at
             PROVE  g.member \in Pruned(Clock(p))
  BY DEF GrantedIn
<1>1. g.at \in Nat /\ g.member.time \in Nat /\ now \in Nat /\ g.at <= g.member.time
  BY RlConstants DEF WindowInv, WindowTypeOK, Member, Times, GrantsKept
<1>2. now + MaxSkew < g.member.time + Window
  BY <1>1, RlConstants
<1> QED  BY <1>2, PruneKeeps

\* A grant adds its member to the stretches it falls in, and the limit holds
\* in each.
LEMMA GrantKeepsLimit ==
  ASSUME WindowInv, NEW p \in Processes, NEW s \in Suffixes,
         LET m == [time |-> Clock(p), suffix |-> s] IN
         /\ RedisGrants(m.time)
         /\ granted' = granted \cup {[at |-> now, member |-> m]},
         now' = now
  PROVE  SharedLimit'
<1> DEFINE m == [time |-> Clock(p), suffix |-> s]
           new == [at |-> now, member |-> m]
<1> SUFFICES ASSUME NEW t \in 0..now
             PROVE  Cardinality(GrantedIn(t)') <= Rate
  BY DEF SharedLimit
<1>1. CASE now + MaxSkew < t + Window
  <2>1. GrantedIn(t)' \subseteq GrantedIn(t) \cup {m}
    BY DEF GrantedIn
  <2>2. GrantedIn(t)' \subseteq Pruned(Clock(p)) \cup {m}
    BY <1>1, <2>1, GrantedCounts DEF WindowInv, WindowTypeOK, Times
  <2>3. IsFiniteSet(Pruned(Clock(p)))
    BY FS_Subset DEF Pruned, WindowInv, WindowTypeOK
  <2>4. Cardinality(Pruned(Clock(p))) \in Nat
        /\ Cardinality(Pruned(Clock(p))) < Rate
    BY <2>3, FS_CardinalityType DEF RedisGrants, BelowLimit
  <2>5. /\ IsFiniteSet(Pruned(Clock(p)) \cup {m})
        /\ Cardinality(Pruned(Clock(p)) \cup {m}) <= Rate
    <3> HIDE DEF m
    <3>1. /\ IsFiniteSet(Pruned(Clock(p)) \cup {m})
          /\ Cardinality(Pruned(Clock(p)) \cup {m}) =
               IF m \in Pruned(Clock(p)) THEN Cardinality(Pruned(Clock(p)))
               ELSE Cardinality(Pruned(Clock(p))) + 1
      BY <2>3, FS_AddElement
    <3> QED  BY <2>4, <3>1, RlConstants
  <2>6. /\ Cardinality(GrantedIn(t)') <= Cardinality(Pruned(Clock(p)) \cup {m})
        /\ IsFiniteSet(GrantedIn(t)')
    BY <2>2, <2>5, FS_Subset
  <2>7. /\ Cardinality(GrantedIn(t)') \in Nat
        /\ Cardinality(Pruned(Clock(p)) \cup {m}) \in Nat
    BY <2>5, <2>6, FS_CardinalityType
  <2> QED  BY <2>5, <2>6, <2>7, RlConstants
<1>2. CASE ~(now + MaxSkew < t + Window)
  <2>1. GrantedIn(t)' = GrantedIn(t)
    <3>1. new.at = now  OBVIOUS
    <3> QED  BY <1>2, <3>1 DEF GrantedIn
  <2> QED  BY <2>1 DEF WindowInv, SharedLimit
<1> QED  BY <1>1, <1>2

\* The window's invariant is inductive.
LEMMA WindowStep == WindowInv /\ [RlNext]_rlVars => WindowInv'
<1> SUFFICES ASSUME WindowInv, [RlNext]_rlVars PROVE WindowInv'
  OBVIOUS
<1> USE RlConstants DEF Times
<1>1. CASE UNCHANGED rlVars
  BY <1>1 DEF rlVars, WindowInv, WindowTypeOK, GrantsKept, SharedLimit, GrantedIn
<1>2. ASSUME NEW p \in Processes, ChooseBackend(p) PROVE WindowInv'
  BY <1>2 DEF ChooseBackend, WindowInv, WindowTypeOK, GrantsKept, SharedLimit, GrantedIn
<1>3. CASE RedisFlips
  BY <1>3 DEF RedisFlips, WindowInv, WindowTypeOK, GrantsKept, SharedLimit, GrantedIn
<1>4. ASSUME NEW p \in Processes, Cleanup(p) PROVE WindowInv'
  BY <1>4 DEF Cleanup, NoBucket, WindowInv, WindowTypeOK, GrantsKept, SharedLimit, GrantedIn
<1>5. CASE Tick
  <2>1. WindowTypeOK'  BY <1>5 DEF Tick, WindowInv, WindowTypeOK
  <2>2. GrantsKept'
    <3> SUFFICES ASSUME NEW g \in granted
                 PROVE  /\ g.at <= g.member.time /\ g.member.time <= g.at + MaxSkew
                        /\ now + 1 + MaxSkew < g.member.time + Window => g.member \in zset
      BY <1>5 DEF Tick, GrantsKept
    <3>1. g.member.time \in Nat /\ now \in Nat  BY DEF WindowInv, WindowTypeOK, Member
    <3> QED  BY <3>1 DEF WindowInv, GrantsKept
  <2>3. SharedLimit'
    <3> SUFFICES ASSUME NEW t \in 0..now + 1 PROVE Cardinality(GrantedIn(t)) <= Rate
      BY <1>5 DEF Tick, SharedLimit, GrantedIn
    <3>1. CASE t <= now  BY <3>1 DEF WindowInv, SharedLimit, WindowTypeOK
    <3>2. CASE t > now
      <4>1. GrantedIn(t) = {}  BY <3>2 DEF GrantedIn, WindowInv, WindowTypeOK
      <4> QED  BY <4>1, FS_EmptySet
    <3> QED  BY <3>1, <3>2 DEF WindowInv, WindowTypeOK
  <2> QED  BY <2>1, <2>2, <2>3 DEF WindowInv
<1>6. ASSUME NEW p \in Processes, CheckInRedis(p) PROVE WindowInv'
  <2>1. PICK s \in Suffixes :
          LET m == [time |-> Clock(p), suffix |-> s] IN
          /\ RunScript(m)
          /\ granted' = IF RedisGrants(m.time)
                        THEN granted \cup {[at |-> now, member |-> m]}
                        ELSE granted
    BY <1>6 DEF CheckInRedis
  <2> DEFINE m == [time |-> Clock(p), suffix |-> s]
  <2>2. /\ now' = now /\ skew' = skew
    BY <1>6 DEF CheckInRedis
  <2>3. /\ m.time = now + skew[p] /\ skew[p] \in 0..MaxSkew
        /\ now \in Nat /\ m \in Member
    BY DEF Clock, Member, WindowInv, WindowTypeOK
  <2>4. /\ zset' \subseteq Member /\ IsFiniteSet(zset')
        /\ \A g \in granted :
              now + MaxSkew < g.member.time + Window => g.member \in zset'
    BY <2>1, ScriptKeeps
  <2>5. CASE ~RedisGrants(m.time)
    <3>1. granted' = granted  BY <2>1, <2>5
    <3> QED  BY <2>2, <2>4, <3>1 DEF WindowInv, WindowTypeOK, GrantsKept, SharedLimit, GrantedIn
  <2>6. CASE RedisGrants(m.time)
    <3>1. granted' = granted \cup {[at |-> now, member |-> m]}  BY <2>1, <2>6
    <3>2. m \in zset'  BY <2>1, <2>6 DEF RunScript
    <3>3. WindowTypeOK'  BY <2>2, <2>3, <2>4, <3>1 DEF WindowInv, WindowTypeOK
    <3>4. GrantsKept'
      <4> SUFFICES ASSUME NEW g \in granted'
                   PROVE  /\ g.at <= g.member.time /\ g.member.time <= g.at + MaxSkew
                          /\ now + MaxSkew < g.member.time + Window => g.member \in zset'
        BY <2>2 DEF GrantsKept
      <4>1. CASE g \in granted  BY <2>4, <4>1 DEF WindowInv, GrantsKept
      <4>2. CASE g = [at |-> now, member |-> m]
        <5>1. g.at = now /\ g.member = m  BY <4>2
        <5> QED  BY <2>3, <3>2, <5>1
      <4> QED  BY <3>1, <4>1, <4>2
    <3>5. SharedLimit'  BY <2>2, <2>6, <3>1, GrantKeepsLimit
    <3> QED  BY <3>3, <3>4, <3>5 DEF WindowInv
  <2> QED  BY <2>5, <2>6
<1>7. ASSUME NEW p \in Processes, CheckInMemory(p) PROVE WindowInv'
  <2>1. /\ now' = now /\ skew' = skew /\ granted' = granted
    BY <1>7 DEF CheckInMemory
  <2>2. /\ zset' \subseteq Member /\ IsFiniteSet(zset')
        /\ \A g \in granted :
              now + MaxSkew < g.member.time + Window => g.member \in zset'
    <3>1. CASE zset' = zset
      BY <3>1 DEF WindowInv, WindowTypeOK, GrantsKept
    <3>2. CASE \E s \in Suffixes : RunScript([time |-> Clock(p), suffix |-> s])
      BY <3>2, ScriptKeeps
    <3> QED  BY <1>7, <3>1, <3>2 DEF CheckInMemory
  <2> QED  BY <2>1, <2>2 DEF WindowInv, WindowTypeOK, GrantsKept, SharedLimit, GrantedIn
<1> QED  BY <1>1, <1>2, <1>3, <1>4, <1>5, <1>6, <1>7 DEF RlNext

----------------------------------------------------------------------------
(* The token bucket *)

Full == Capacity * Window

BucketTypeOK ==
  /\ now \in Times
  /\ skew \in [Processes -> 0..MaxSkew]
  /\ bucket \in [Processes -> [tokens : 0..Full, last : Nat, exists : BOOLEAN]]
  /\ \A p \in Processes : bucket[p].last <= Clock(p)
  /\ spent \in [Processes -> [Times -> Nat]]
  /\ \A p \in Processes, t \in Times : t > now => spent[p][t] = 0

\* What a bucket granted since t and what it could grant now come from its
\* capacity and what flowed in.
BucketBalance ==
  \A p \in Processes : \A t \in 0..now :
    spent[p][t] * Window + Tokens(p) <= Capacity * Window + (now - t) * Rate

BucketInv == BucketTypeOK /\ BucketBalance

\* Facts on products that the balance needs.
LEMMA Products ==
  ASSUME NEW a \in Nat, NEW b \in Nat, NEW c \in Nat
  PROVE  /\ a * c \in Nat
         /\ (a + 1) * c = a * c + c
         /\ a <= b => a * c <= b * c
OBVIOUS

\* A full bucket holds a natural number of units.
LEMMA FullType == Full \in Nat
BY Products, RlConstants DEF Full

\* A bucket holds at most its capacity, and refills by Rate a tick.
LEMMA RefillBounds ==
  ASSUME NEW b \in [tokens : 0..Full, last : Nat, exists : BOOLEAN],
         NEW time \in Nat, b.last <= time
  PROVE  /\ Refilled(b, time) \in 0..Full
         /\ Refilled(b, time + 1) <= Refilled(b, time) + Rate
         /\ time > b.last + IdleLimit => Refilled(b, time) = Full
<1> DEFINE e == time - b.last
<1>1. e \in Nat /\ (time + 1) - b.last = e + 1
      /\ b.tokens \in 0..Full
  OBVIOUS
<1>2. /\ e * Rate \in Nat
      /\ (e + 1) * Rate = e * Rate + Rate
  <2> HIDE DEF e
  <2> QED  BY <1>1, Products, RlConstants
<1>3. /\ Refilled(b, time) = Min2(b.tokens + e * Rate, Full)
      /\ Refilled(b, time + 1) = Min2(b.tokens + (e + 1) * Rate, Full)
  BY <1>1 DEF Refilled, Full
<1>4. /\ Refilled(b, time) \in 0..Full
      /\ Refilled(b, time + 1) <= Refilled(b, time) + Rate
  <2> HIDE DEF e
  <2> QED  BY <1>1, <1>2, <1>3, FullType, RlConstants DEF Min2
<1>5. ASSUME time > b.last + IdleLimit PROVE Refilled(b, time) = Full
  <2>1. IdleLimit <= e  BY <1>5, RlConstants
  <2>2. IdleLimit * Rate <= e * Rate
    <3> HIDE DEF e
    <3> QED  BY <1>1, <2>1, Products, RlConstants
  <2>3. Full <= e * Rate
    <3>1. Full <= IdleLimit * Rate /\ IdleLimit * Rate \in Nat
      BY IdleAssumption, Products, RlConstants DEF Full
    <3> HIDE DEF e
    <3> QED  BY <1>2, <2>2, <3>1, FullType
  <2> HIDE DEF e
  <2> QED  BY <1>1, <1>2, <1>3, <2>3, FullType DEF Min2
<1> QED  BY <1>4, <1>5

\* A bucket holds between nothing and its capacity.
LEMMA TokensType ==
  ASSUME BucketTypeOK, NEW p \in Processes
  PROVE  Tokens(p) \in 0..Full /\ Clock(p) \in Nat
<1>1. Clock(p) \in Nat  BY RlConstants DEF BucketTypeOK, Clock, Times
<1>2. bucket[p] \in [tokens : 0..Full, last : Nat, exists : BOOLEAN]
      /\ bucket[p].last <= Clock(p)
  BY DEF BucketTypeOK
<1>3. Refilled(bucket[p], Clock(p)) \in 0..Full  BY <1>1, <1>2, RefillBounds
<1> QED  BY <1>1, <1>3, FullType DEF Tokens, Full

\* The bucket's invariant is inductive.
LEMMA BucketStep == BucketInv /\ [RlNext]_rlVars => BucketInv'
<1> SUFFICES ASSUME BucketInv, [RlNext]_rlVars PROVE BucketInv'
  OBVIOUS
<1> USE RlConstants, FullType DEF Times
<1>1. ASSUME UNCHANGED <<now, skew, bucket, spent>> PROVE BucketInv'
  BY <1>1 DEF BucketInv, BucketTypeOK, BucketBalance, Tokens, Refilled, Clock
<1>2. ASSUME NEW p \in Processes, Cleanup(p) PROVE BucketInv'
  <2>1. /\ now' = now /\ skew' = skew /\ spent' = spent
        /\ bucket' = [bucket EXCEPT ![p] = NoBucket]
        /\ Clock(p) > bucket[p].last + IdleLimit
        /\ bucket[p].exists
    BY <1>2 DEF Cleanup, IdleBucket
  <2>2. \A q \in Processes : Clock(q)' = Clock(q)  BY <2>1 DEF Clock
  <2>3. BucketTypeOK'
    <3>1. NoBucket \in [tokens : 0..Full, last : Nat, exists : BOOLEAN]
          /\ NoBucket.last = 0
      BY DEF NoBucket
    <3>2. \A q \in Processes : Clock(q) \in Nat  BY TokensType DEF BucketInv
    <3> QED  BY <2>1, <2>2, <3>1, <3>2 DEF BucketInv, BucketTypeOK
  <2>4. Tokens(p) = Full /\ Tokens(p)' = Full
    <3>1. Refilled(bucket[p], Clock(p)) = Full
      BY <2>1, TokensType, RefillBounds DEF BucketInv, BucketTypeOK
    <3>2. bucket'[p].exists = FALSE  BY <2>1 DEF NoBucket, BucketInv, BucketTypeOK
    <3> QED  BY <2>1, <3>1, <3>2 DEF Tokens, Full
  <2>5. ASSUME NEW q \in Processes PROVE Tokens(q)' = Tokens(q)
    <3>1. CASE q = p  BY <2>4, <3>1
    <3>2. CASE q # p
      <4>1. bucket'[q] = bucket[q]  BY <2>1, <3>2 DEF BucketInv, BucketTypeOK
      <4> QED  BY <2>2, <4>1 DEF Tokens, Refilled
    <3> QED  BY <3>1, <3>2
  <2> QED  BY <2>1, <2>3, <2>5 DEF BucketInv, BucketBalance
<1>3. CASE Tick
  <2>1. now' = now + 1 /\ now < MaxTime
        /\ skew' = skew /\ bucket' = bucket /\ spent' = spent
    BY <1>3 DEF Tick
  <2>2. ASSUME NEW q \in Processes
        PROVE  Clock(q)' = Clock(q) + 1 /\ Clock(q) \in Nat
    <3>1. now \in Nat /\ skew[q] \in Nat  BY DEF BucketInv, BucketTypeOK
    <3> QED  BY <2>1, <3>1 DEF Clock
  <2>3. BucketTypeOK'
    BY <2>1, <2>2 DEF BucketInv, BucketTypeOK
  <2>4. ASSUME NEW q \in Processes PROVE Tokens(q)' <= Tokens(q) + Rate
    <3>1. bucket'[q] = bucket[q]  BY <2>1
    <3>2. CASE bucket[q].exists
      BY <2>2, <3>1, <3>2, RefillBounds DEF Tokens, Refilled, BucketInv, BucketTypeOK
    <3>3. CASE ~bucket[q].exists
      BY <3>1, <3>3 DEF Tokens, Full
    <3> QED  BY <3>2, <3>3
  <2>5. ASSUME NEW q \in Processes, NEW t \in 0..now'
        PROVE  spent'[q][t] * Window + Tokens(q)' <= Full + (now' - t) * Rate
    <3>1. /\ now \in Nat /\ now' \in Times /\ t \in Times
          /\ spent'[q][t] = spent[q][t]
      BY <2>1 DEF BucketInv, BucketTypeOK
    <3>2. Tokens(q)' \in 0..Full
      <4>1. bucket'[q] = bucket[q]
            /\ bucket[q] \in [tokens : 0..Full, last : Nat, exists : BOOLEAN]
            /\ bucket[q].last <= Clock(q) + 1
        BY <2>1, <2>2 DEF BucketInv, BucketTypeOK
      <4>2. Refilled(bucket[q], Clock(q) + 1) \in 0..Full
        BY <2>2, <4>1, RefillBounds
      <4> QED  BY <2>2, <4>1, <4>2 DEF Tokens, Refilled, Full
    <3>3. CASE t = now'
      <4>1. spent[q][t] = 0
        BY <2>1, <3>1, <3>3 DEF BucketInv, BucketTypeOK
      <4>2. now' - t = 0  BY <2>1, <3>1, <3>3
      <4>3. 0 * Rate = 0 /\ 0 * Window = 0  OBVIOUS
      <4>4. (now' - t) * Rate = 0 /\ spent'[q][t] * Window = 0
        BY <3>1, <4>1, <4>2, <4>3
      <4> QED  BY <3>2, <4>4
    <3>4. CASE t # now'
      <4>1. t \in 0..now  BY <2>1, <3>1, <3>4
      <4>2. spent[q][t] * Window + Tokens(q) <= Full + (now - t) * Rate
        BY <4>1 DEF BucketInv, BucketBalance, Full
      <4>3. /\ now - t \in Nat /\ spent[q][t] \in Nat
            /\ now' - t = (now - t) + 1
        BY <2>1, <3>1, <4>1 DEF BucketInv, BucketTypeOK
      <4>4. /\ (now - t) * Rate \in Nat
            /\ (now' - t) * Rate = (now - t) * Rate + Rate
            /\ spent[q][t] * Window \in Nat
        BY <4>3, Products
      <4>5. Tokens(q) \in 0..Full  BY TokensType DEF BucketInv
      <4>6. spent'[q][t] * Window = spent[q][t] * Window  BY <3>1
      <4> QED  BY <2>4, <3>2, <4>2, <4>4, <4>5, <4>6
    <3> QED  BY <3>3, <3>4
  <2>6. BucketBalance'
    BY <2>5 DEF BucketBalance, Full
  <2> QED  BY <2>3, <2>6 DEF BucketInv
<1>4. ASSUME NEW p \in Processes, CheckInMemory(p) PROVE BucketInv'
  <2>1. now' = now /\ skew' = skew /\ TakeToken(p)
    BY <1>4 DEF CheckInMemory
  <2> DEFINE left == IF Enough(Tokens(p)) THEN Tokens(p) - Window ELSE Tokens(p)
  <2>2. /\ bucket' = [bucket EXCEPT ![p] =
             [tokens |-> left, last |-> Clock(p), exists |-> TRUE]]
    BY <2>1 DEF TakeToken, Touched
  <2>3. /\ Tokens(p) \in 0..Full /\ left \in 0..Full
    BY TokensType DEF BucketInv, Enough
  <2>4. \A q \in Processes : Clock(q)' = Clock(q) /\ Clock(q) \in Nat
    BY <2>1, TokensType DEF Clock, BucketInv
  <2>5. \A t \in Times : spent'[p][t] =
           IF Enough(Tokens(p)) /\ t <= now THEN spent[p][t] + 1 ELSE spent[p][t]
    BY <2>1 DEF TakeToken, BucketInv, BucketTypeOK
  <2>6. /\ spent' \in [Processes -> [Times -> Nat]]
        /\ \A q \in Processes : q # p => spent'[q] = spent[q]
    <3>1. CASE ~Enough(Tokens(p))
      BY <2>1, <3>1 DEF TakeToken, BucketInv, BucketTypeOK
    <3>2. CASE Enough(Tokens(p))
      <4> DEFINE f == [t \in Times |-> IF t <= now THEN spent[p][t] + 1
                                      ELSE spent[p][t]]
      <4>1. spent' = [spent EXCEPT ![p] = f]
        BY <2>1, <3>2 DEF TakeToken
      <4>2. f \in [Times -> Nat]  BY DEF BucketInv, BucketTypeOK
      <4> HIDE DEF f
      <4> QED  BY <4>1, <4>2 DEF BucketInv, BucketTypeOK
    <3> QED  BY <3>1, <3>2
  <2>7. BucketTypeOK'
    <3>1. bucket' \in [Processes -> [tokens : 0..Full, last : Nat, exists : BOOLEAN]]
      BY <2>2, <2>3, <2>4 DEF BucketInv, BucketTypeOK
    <3>2. ASSUME NEW q \in Processes PROVE bucket'[q].last <= Clock(q)'
      BY <2>2, <2>4 DEF BucketInv, BucketTypeOK
    <3>3. ASSUME NEW q \in Processes, NEW t \in Times, t > now
          PROVE  spent'[q][t] = 0
      <4>1. now \in Nat /\ ~(t <= now)  BY <3>3 DEF BucketInv, BucketTypeOK
      <4> QED  BY <2>5, <2>6, <3>3, <4>1 DEF BucketInv, BucketTypeOK
    <3> QED  BY <2>1, <2>6, <3>1, <3>2, <3>3 DEF BucketInv, BucketTypeOK
  <2>8. Tokens(p)' = left
    <3>1. /\ bucket'[p].tokens = left /\ bucket'[p].last = Clock(p)
          /\ bucket'[p].exists = TRUE
      BY <2>2 DEF BucketInv, BucketTypeOK
    <3>2. (Clock(p) - Clock(p)) * Rate = 0  BY <2>4
    <3>3. Tokens(p)' = Min2(left + (Clock(p) - Clock(p)) * Rate, Full)
      BY <2>4, <3>1 DEF Tokens, Refilled, Full
    <3> QED  BY <2>3, <3>2, <3>3 DEF Min2
  <2>9. ASSUME NEW q \in Processes, NEW t \in 0..now
        PROVE  spent'[q][t] * Window + Tokens(q)' <= Full + (now - t) * Rate
    <3>1. /\ spent[q][t] * Window + Tokens(q) <= Full + (now - t) * Rate
          /\ t \in Times /\ t <= now
      BY DEF BucketInv, BucketTypeOK, BucketBalance, Full
    <3>2. CASE q # p
      <4>1. bucket'[q] = bucket[q] /\ spent'[q] = spent[q]
        BY <2>2, <2>6, <3>2 DEF BucketInv, BucketTypeOK
      <4>2. Tokens(q)' = Tokens(q)  BY <2>4, <4>1 DEF Tokens, Refilled
      <4> QED  BY <3>1, <4>1, <4>2
    <3>3. CASE q = p /\ ~Enough(Tokens(p))
      BY <2>5, <2>8, <3>1, <3>3
    <3>4. CASE q = p /\ Enough(Tokens(p))
      <4>1. /\ spent'[p][t] = spent[p][t] + 1 /\ spent[p][t] \in Nat
            /\ Tokens(p)' = Tokens(p) - Window
        BY <2>5, <2>8, <3>1, <3>4 DEF BucketInv, BucketTypeOK
      <4>2. /\ (spent[p][t] + 1) * Window = spent[p][t] * Window + Window
            /\ spent[p][t] * Window \in Nat
        BY <4>1, Products
      <4>3. /\ now - t \in Nat
            /\ (now - t) * Rate \in Nat
        BY <3>1, Products DEF BucketInv, BucketTypeOK
      <4> QED  BY <2>3, <3>1, <3>4, <4>1, <4>2, <4>3
    <3> QED  BY <3>2, <3>3, <3>4
  <2> QED  BY <2>1, <2>7, <2>9 DEF BucketInv, BucketBalance, Full
<1> QED
  BY <1>1, <1>2, <1>3, <1>4 DEF RlNext, rlVars, ChooseBackend, CheckInRedis, RedisFlips

\* Both hold at the start.
LEMMA RlStart == RlInit => WindowInv /\ BucketInv
<1> SUFFICES ASSUME RlInit PROVE WindowInv /\ BucketInv
  OBVIOUS
<1> USE RlConstants, FullType DEF Times
<1>1. WindowInv
  <2>1. \A t \in 0..now : GrantedIn(t) = {}  BY DEF RlInit, GrantedIn
  <2>2. SharedLimit  BY <2>1, FS_EmptySet DEF SharedLimit
  <2>3. zset = {} /\ IsFiniteSet(zset)  BY FS_EmptySet DEF RlInit
  <2> QED  BY <2>2, <2>3 DEF RlInit, WindowInv, WindowTypeOK, GrantsKept
<1>2. BucketTypeOK
  <2>1. NoBucket \in [tokens : 0..Full, last : Nat, exists : BOOLEAN] /\ NoBucket.last = 0
    BY DEF NoBucket
  <2> QED  BY <2>1 DEF RlInit, BucketTypeOK, Clock
<1>3. BucketBalance
  <2> SUFFICES ASSUME NEW p \in Processes, NEW t \in 0..now
               PROVE  spent[p][t] * Window + Tokens(p) <= Full + (now - t) * Rate
    BY DEF BucketBalance, Full
  <2>1. now = 0 /\ t = 0 /\ t \in Times  BY DEF RlInit
  <2>3. spent[p][t] = 0  BY <2>1 DEF RlInit
  <2>2. Tokens(p) \in 0..Full  BY <1>2, TokensType
  <2>4. now - t = 0 /\ 0 * Rate = 0 /\ 0 * Window = 0  BY <2>1
  <2> QED  BY <2>2, <2>3, <2>4
<1> QED  BY <1>1, <1>2, <1>3 DEF BucketInv

\* For any number of processes, any rate and window and any skew up to
\* MaxSkew, Redis grants at most Rate of the requests it can tell apart in a
\* stretch of Window - MaxSkew ticks.
THEOREM LimitIsShared == RlSpec => []SharedLimit
<1>1. RlInit => WindowInv  BY RlStart
<1>2. WindowInv => SharedLimit  BY DEF WindowInv
<1> QED  BY <1>1, <1>2, WindowStep, PTL DEF RlSpec

\* A process's bucket never grants more than its capacity and what flows in,
\* although it is forgotten when idle and made anew full.
THEOREM BurstIsBounded == RlSpec => []BurstLimit
<1>1. RlInit => BucketInv  BY RlStart
<1>2. BucketInv => BurstLimit
  <2> SUFFICES ASSUME BucketInv, NEW p \in Processes, NEW t \in 0..now
               PROVE  spent[p][t] * Window <= Capacity * Window + (now - t) * Rate
    BY DEF BurstLimit
  <2>1. spent[p][t] * Window + Tokens(p) <= Capacity * Window + (now - t) * Rate
    BY DEF BucketInv, BucketBalance
  <2>2. Tokens(p) \in 0..Full  BY TokensType DEF BucketInv
  <2>3. spent[p][t] \in Nat /\ now - t \in Nat
    BY RlConstants DEF BucketInv, BucketTypeOK, Times
  <2>4. spent[p][t] * Window \in Nat /\ (now - t) * Rate \in Nat
        /\ Capacity * Window \in Nat
    BY <2>3, Products, RlConstants
  <2> QED  BY <2>1, <2>2, <2>4, FullType
<1> QED  BY <1>1, <1>2, BucketStep, PTL DEF RlSpec

=============================================================================
