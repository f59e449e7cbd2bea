----------------------------- MODULE RedisProofs -----------------------------
(***************************************************************************)
(* Proofs about what is kept in Redis or sent through it.  The lock, for    *)
(* any finite set of threads, any processes, any pool and any number of     *)
(* calls and faults; the expiry task, for any keys, times and failing       *)
(* batches; the cluster topic, for any nodes, connections and packets.      *)
(***************************************************************************)
EXTENDS RedisLock, ExpireTask, ClusterDispatch, FiniteSetTheorems, SequenceTheorems, TLAPS

(* RedisLock *)

\* LockTypeOK but for the bound on a pool's connections, which ConnsAddUp gives.
LockTypes ==
  /\ holder \in Threads \union {Nobody}
  /\ expires \in BOOLEAN
  /\ list \in Seq(Threads \X {1, 2})
  /\ pc \in [Threads -> Steps]
  /\ kind \in [Threads -> {"insert", "replace"}]
  /\ locked \in [Threads -> BOOLEAN]
  /\ free \in [Processes -> Nat]
  /\ leaked \in [Processes -> Nat]
  /\ calls \in 0 .. MaxCalls /\ faults \in 0 .. MaxFaults
  /\ expired \in BOOLEAN /\ torn \in BOOLEAN

\* The threads of p that hold the Executor's connection, and the lock's.
Held1(p) == {t \in Threads : ProcessOf[t] = p /\ pc[t] \notin {"idle", "first"}}
Held2(p) == {t \in Threads : ProcessOf[t] = p /\ pc[t] \notin {"idle", "first", "second"}}

ConnsAddUp ==
  \A p \in Processes :
    free[p] + leaked[p] + Cardinality(Held1(p)) + Cardinality(Held2(p)) = PoolSize

\* Who is at or past EXPIRE with the answer TRUE owns the key until one expires.
Owners ==
  /\ \A t \in Threads : pc[t] \in {"first", "second", "setnx", "expire"} => ~locked[t]
  /\ ~expired => \A t \in Threads :
       pc[t] = "expire" \/ (pc[t] \in Section /\ locked[t]) => holder = t

\* The list is one call's, perhaps half of it by a call at work; the owner of
\* the key finds it as it left it.
ListInv ==
  ~torn =>
    /\ \/ list = <<>>
       \/ \E t \in Threads : list = <<<<t, 1>>, <<t, 2>>>>
       \/ \E t \in Threads : pc[t] = "push2" /\ list = <<<<t, 1>>>>
    /\ \A t \in Threads : holder = t /\ locked[t] =>
         /\ pc[t] \in {"insert", "push1"} => list = <<>>
         /\ pc[t] = "push2" => list = <<<<t, 1>>>>

LockIInv == LockTypes /\ Owners /\ ListInv /\ KeyGetsExpiry /\ ConnsAddUp
-----------------------------------------------------------------------------
(* The types, as the actions set them.                                      *)
LEMMA TypesKept ==
  ASSUME LockIInv, [LockNext]_lockVars PROVE LockTypes'
<1> USE LockAssumption DEF LockIInv, LockTypes, Steps, Section
<1>1. ASSUME NEW t \in Threads, NEW k \in {"insert", "replace"}, Begin(t, k) PROVE LockTypes'
  BY <1>1 DEF Begin, Goes, theKey, pool, history
<1>2. ASSUME NEW t \in Threads, First(t) PROVE LockTypes'
  BY <1>2 DEF First, Take, Goes, theKey, history
<1>3. ASSUME NEW t \in Threads, Second(t) PROVE LockTypes'
  BY <1>3 DEF Second, Take, Goes, theKey, history
<1>4. ASSUME NEW t \in Threads, PoolTimeout(t) PROVE LockTypes'
  BY <1>4 DEF PoolTimeout, GiveBack, Goes, theKey, history
<1>5. ASSUME NEW t \in Threads, SetNx(t) PROVE LockTypes'
  <2> USE <1>5 DEF SetNx, Works, Fails, LockThrows, GiveBack, Goes, theKey, pool, history
  <2>1. free' \in [Processes -> Nat] /\ leaked' \in [Processes -> Nat]
    <3>1. CASE UNCHANGED <<free, leaked>>
      BY <3>1
    <3>2. CASE LockThrows(t)
      BY <3>2
    <3>3. QED
      BY <3>1, <3>2
  <2>2. pc' \in [Threads -> Steps] /\ kind' = kind /\ list' = list /\ calls' = calls
    OBVIOUS
  <2>3. locked' \in [Threads -> BOOLEAN] /\ expired' = expired /\ torn' = torn
    OBVIOUS
  <2>4. holder' \in Threads \union {Nobody} /\ expires' \in BOOLEAN
    OBVIOUS
  <2>5. faults' \in 0 .. MaxFaults
    OBVIOUS
  <2>6. QED
    BY <2>1, <2>2, <2>3, <2>4, <2>5
<1>6. ASSUME NEW t \in Threads, GiveUp(t) PROVE LockTypes'
  BY <1>6 DEF GiveUp, Enters, Goes, theKey, pool, history
<1>7. ASSUME NEW t \in Threads, SetExpire(t) PROVE LockTypes'
  <2> USE <1>7 DEF SetExpire, Works, Fails, LockThrows, GiveBack, Enters, Goes, pool, history
  <2>1. free' \in [Processes -> Nat] /\ leaked' \in [Processes -> Nat]
    <3>1. CASE UNCHANGED <<free, leaked>>
      BY <3>1
    <3>2. CASE LockThrows(t)
      BY <3>2
    <3>3. QED
      BY <3>1, <3>2
  <2>2. pc' \in [Threads -> Steps] /\ kind' = kind /\ list' = list /\ calls' = calls
    OBVIOUS
  <2>3. locked' \in [Threads -> BOOLEAN] /\ expired' = expired /\ torn' = torn
    OBVIOUS
  <2>4. holder' \in Threads \union {Nobody} /\ expires' \in BOOLEAN
    OBVIOUS
  <2>5. faults' \in 0 .. MaxFaults
    OBVIOUS
  <2>6. QED
    BY <2>1, <2>2, <2>3, <2>4, <2>5
<1>8. ASSUME NEW t \in Threads, Exists(t) PROVE LockTypes'
  BY <1>8 DEF Exists, OnList, Touches, Goes, theKey, pool
<1>9. ASSUME NEW t \in Threads, Insert(t) PROVE LockTypes'
  BY <1>9 DEF Insert, OnList, Touches, Goes, theKey, pool
<1>10. ASSUME NEW t \in Threads, Del(t) PROVE LockTypes'
  BY <1>10 DEF Del, OnList, Touches, Goes, theKey, pool
<1>11. ASSUME NEW t \in Threads, Push1(t) PROVE LockTypes'
  BY <1>11 DEF Push1, OnList, Touches, Goes, theKey, pool
<1>12. ASSUME NEW t \in Threads, Push2(t) PROVE LockTypes'
  BY <1>12 DEF Push2, OnList, Touches, Goes, theKey, pool
<1>13. ASSUME NEW t \in Threads, BreaksOff(t) PROVE LockTypes'
  BY <1>13 DEF BreaksOff, Fails, Goes, theKey, pool
<1>14. ASSUME NEW t \in Threads, Unlock(t) PROVE LockTypes'
  <2> USE <1>14 DEF Unlock, Works, Fails, GiveBack, Goes, theKey, history
  <2>1. free' \in [Processes -> Nat] /\ leaked' \in [Processes -> Nat]
    <3>1. CASE UNCHANGED <<free, leaked>>
      BY <3>1
    <3>2. CASE GiveBack(t, 2) /\ UNCHANGED leaked
      BY <3>2
    <3>3. QED
      BY <3>1, <3>2
  <2>2. pc' \in [Threads -> Steps] /\ kind' = kind /\ list' = list /\ calls' = calls
    OBVIOUS
  <2>3. locked' \in [Threads -> BOOLEAN] /\ expired' = expired /\ torn' = torn
    OBVIOUS
  <2>4. holder' \in Threads \union {Nobody} /\ expires' \in BOOLEAN
    OBVIOUS
  <2>5. faults' \in 0 .. MaxFaults
    OBVIOUS
  <2>6. QED
    BY <2>1, <2>2, <2>3, <2>4, <2>5
<1>15. CASE KeyExpires
  BY <1>15 DEF KeyExpires, pool
<1>16. ASSUME NEW p \in Processes, LockCrash(p) PROVE LockTypes'
  BY <1>16 DEF LockCrash, Fails, theKey
<1>17. CASE UNCHANGED lockVars
  BY <1>17 DEF lockVars
<1>18. QED
  BY <1>1, <1>2, <1>3, <1>4, <1>5, <1>6, <1>7, <1>8, <1>9, <1>10, <1>11, <1>12, <1>13, <1>14, <1>15, <1>16, <1>17 DEF LockNext, LockCall

(* Only an expired key passes from a thread that was given it.              *)
LEMMA OwnersKept ==
  ASSUME LockIInv, [LockNext]_lockVars PROVE Owners'
<1> USE LockAssumption DEF LockIInv, LockTypes, Owners, Section
<1>1. ASSUME NEW t \in Threads, NEW k \in {"insert", "replace"}, Begin(t, k) PROVE Owners'
  BY <1>1 DEF Begin, Goes, theKey, pool, history
<1>2. ASSUME NEW t \in Threads, First(t) PROVE Owners'
  BY <1>2 DEF First, Take, Goes, theKey, history
<1>3. ASSUME NEW t \in Threads, Second(t) PROVE Owners'
  BY <1>3 DEF Second, Take, Goes, theKey, history
<1>4. ASSUME NEW t \in Threads, PoolTimeout(t) PROVE Owners'
  BY <1>4 DEF PoolTimeout, GiveBack, Goes, theKey, history
<1>5. ASSUME NEW t \in Threads, SetNx(t) PROVE Owners'
  BY <1>5 DEF SetNx, Works, Fails, LockThrows, GiveBack, Goes, theKey, pool, history
<1>6. ASSUME NEW t \in Threads, GiveUp(t) PROVE Owners'
  BY <1>6 DEF GiveUp, Enters, Goes, theKey, pool, history
<1>7. ASSUME NEW t \in Threads, SetExpire(t) PROVE Owners'
  BY <1>7 DEF SetExpire, Works, Fails, LockThrows, GiveBack, Enters, Goes, pool, history
<1>8. ASSUME NEW t \in Threads, Exists(t) PROVE Owners'
  BY <1>8 DEF Exists, OnList, Touches, Goes, theKey, pool
<1>9. ASSUME NEW t \in Threads, Insert(t) PROVE Owners'
  BY <1>9 DEF Insert, OnList, Touches, Goes, theKey, pool
<1>10. ASSUME NEW t \in Threads, Del(t) PROVE Owners'
  BY <1>10 DEF Del, OnList, Touches, Goes, theKey, pool
<1>11. ASSUME NEW t \in Threads, Push1(t) PROVE Owners'
  BY <1>11 DEF Push1, OnList, Touches, Goes, theKey, pool
<1>12. ASSUME NEW t \in Threads, Push2(t) PROVE Owners'
  BY <1>12 DEF Push2, OnList, Touches, Goes, theKey, pool
<1>13. ASSUME NEW t \in Threads, BreaksOff(t) PROVE Owners'
  BY <1>13 DEF BreaksOff, Fails, Goes, theKey, pool
<1>14. ASSUME NEW t \in Threads, Unlock(t) PROVE Owners'
  BY <1>14 DEF Unlock, Works, Fails, GiveBack, Goes, theKey, history
<1>15. CASE KeyExpires
  BY <1>15 DEF KeyExpires, pool
<1>16. ASSUME NEW p \in Processes, LockCrash(p) PROVE Owners'
  BY <1>16 DEF LockCrash, Fails, theKey
<1>17. CASE UNCHANGED lockVars
  BY <1>17 DEF lockVars
<1>18. QED
  BY <1>1, <1>2, <1>3, <1>4, <1>5, <1>6, <1>7, <1>8, <1>9, <1>10, <1>11, <1>12, <1>13, <1>14, <1>15, <1>16, <1>17 DEF LockNext, LockCall

LEMMA Appended ==
  ASSUME NEW a, NEW b PROVE Append(<<a>>, b) = <<a, b>>
<1> DEFINE S == {a, b}
<1>1. <<a>> \in Seq(S) /\ <<a, b>> \in Seq(S) /\ Len(<<a>>) = 1 /\ Len(<<a, b>>) = 2
  OBVIOUS
<1>2. /\ Append(<<a>>, b) \in Seq(S) /\ Len(Append(<<a>>, b)) = 2
      /\ Append(<<a>>, b)[1] = a /\ Append(<<a>>, b)[2] = b
  BY <1>1, AppendProperties
<1>3. \A i \in 1 .. 2 : Append(<<a>>, b)[i] = <<a, b>>[i]
  BY <1>2
<1>4. QED
  BY <1>1, <1>2, <1>3, SeqEqual

(* Who changes the list without owning the key makes torn true.             *)
LEMMA ListKept ==
  ASSUME LockIInv, [LockNext]_lockVars PROVE ListInv'
<1> USE LockAssumption DEF LockIInv, LockTypes, ListInv
<1>1. ASSUME NEW t \in Threads, NEW k \in {"insert", "replace"}, Begin(t, k) PROVE ListInv'
  BY <1>1 DEF Begin, Goes, theKey, pool, history
<1>2. ASSUME NEW t \in Threads, First(t) PROVE ListInv'
  BY <1>2 DEF First, Take, Goes, theKey, history
<1>3. ASSUME NEW t \in Threads, Second(t) PROVE ListInv'
  BY <1>3 DEF Second, Take, Goes, theKey, history
<1>4. ASSUME NEW t \in Threads, PoolTimeout(t) PROVE ListInv'
  BY <1>4 DEF PoolTimeout, GiveBack, Goes, theKey, history
<1>5. ASSUME NEW t \in Threads, SetNx(t) PROVE ListInv'
  BY <1>5 DEF SetNx, Works, Fails, LockThrows, GiveBack, Goes, theKey, pool, history
<1>6. ASSUME NEW t \in Threads, GiveUp(t) PROVE ListInv'
  BY <1>6 DEF GiveUp, Enters, Goes, theKey, pool, history
<1>7. ASSUME NEW t \in Threads, SetExpire(t) PROVE ListInv'
  BY <1>7 DEF SetExpire, Works, Fails, LockThrows, GiveBack, Enters, Goes, pool, history
<1>8. ASSUME NEW t \in Threads, Exists(t) PROVE ListInv'
  BY <1>8 DEF Exists, OnList, Touches, Goes, theKey, pool
<1>9. ASSUME NEW t \in Threads, Insert(t) PROVE ListInv'
  <2> USE <1>9 DEF Insert, OnList, Touches, Goes, theKey, pool
  <2>1. SUFFICES ASSUME ~torn' PROVE ListInv'
    OBVIOUS
  <2>2. ~torn /\ locked[t] /\ holder = t /\ holder' = t
    BY <2>1
  <2>3. list = <<>>
    BY <2>2
  <2>4. list' = <<<<t, 1>>, <<t, 2>>>>
    BY <2>3
  <2>5. pc'[t] = "unlock"
    OBVIOUS
  <2>6. QED
    BY <2>2, <2>4, <2>5
<1>10. ASSUME NEW t \in Threads, Del(t) PROVE ListInv'
  BY <1>10 DEF Del, OnList, Touches, Goes, theKey, pool
<1>11. ASSUME NEW t \in Threads, Push1(t) PROVE ListInv'
  <2> USE <1>11 DEF Push1, OnList, Touches, Goes, theKey, pool
  <2>1. SUFFICES ASSUME ~torn' PROVE ListInv'
    OBVIOUS
  <2>2. ~torn /\ locked[t] /\ holder = t /\ holder' = t
    BY <2>1
  <2>3. list = <<>>
    BY <2>2
  <2>4. list' = <<<<t, 1>>>>
    BY <2>3
  <2>5. pc'[t] = "push2"
    OBVIOUS
  <2>6. QED
    BY <2>2, <2>4, <2>5
<1>12. ASSUME NEW t \in Threads, Push2(t) PROVE ListInv'
  <2> USE <1>12 DEF Push2, OnList, Touches, Goes, theKey, pool
  <2>1. SUFFICES ASSUME ~torn' PROVE ListInv'
    OBVIOUS
  <2>2. ~torn /\ locked[t] /\ holder = t /\ holder' = t
    BY <2>1
  <2>3. list = <<<<t, 1>>>>
    BY <2>2
  <2>4. list' = <<<<t, 1>>, <<t, 2>>>>
    <3>1. list' = Append(<<<<t, 1>>>>, <<t, 2>>)
      BY <2>3
    <3>2. QED
      BY <3>1, Appended, Zenon
  <2>5. pc'[t] = "unlock"
    OBVIOUS
  <2>6. QED
    BY <2>2, <2>4, <2>5
<1>13. ASSUME NEW t \in Threads, BreaksOff(t) PROVE ListInv'
  BY <1>13 DEF BreaksOff, Fails, Goes, theKey, pool
<1>14. ASSUME NEW t \in Threads, Unlock(t) PROVE ListInv'
  BY <1>14 DEF Unlock, Works, Fails, GiveBack, Goes, theKey, history
<1>15. CASE KeyExpires
  BY <1>15 DEF KeyExpires, pool
<1>16. ASSUME NEW p \in Processes, LockCrash(p) PROVE ListInv'
  BY <1>16 DEF LockCrash, Fails, theKey
<1>17. CASE UNCHANGED lockVars
  BY <1>17 DEF lockVars
<1>18. QED
  BY <1>1, <1>2, <1>3, <1>4, <1>5, <1>6, <1>7, <1>8, <1>9, <1>10, <1>11, <1>12, <1>13, <1>14, <1>15, <1>16, <1>17 DEF LockNext, LockCall

(* Only SetExpire leaves "expire", and it gives the expiry or fails.        *)
LEMMA ExpiryKept ==
  ASSUME LockIInv, [LockNext]_lockVars PROVE KeyGetsExpiry'
<1> USE LockAssumption DEF LockIInv, LockTypes, KeyGetsExpiry
<1>1. ASSUME NEW t \in Threads, NEW k \in {"insert", "replace"}, Begin(t, k) PROVE KeyGetsExpiry'
  BY <1>1 DEF Begin, Goes, theKey, pool, history
<1>2. ASSUME NEW t \in Threads, First(t) PROVE KeyGetsExpiry'
  BY <1>2 DEF First, Take, Goes, theKey, history
<1>3. ASSUME NEW t \in Threads, Second(t) PROVE KeyGetsExpiry'
  BY <1>3 DEF Second, Take, Goes, theKey, history
<1>4. ASSUME NEW t \in Threads, PoolTimeout(t) PROVE KeyGetsExpiry'
  BY <1>4 DEF PoolTimeout, GiveBack, Goes, theKey, history
<1>5. ASSUME NEW t \in Threads, SetNx(t) PROVE KeyGetsExpiry'
  BY <1>5 DEF SetNx, Works, Fails, LockThrows, GiveBack, Goes, theKey, pool, history
<1>6. ASSUME NEW t \in Threads, GiveUp(t) PROVE KeyGetsExpiry'
  BY <1>6 DEF GiveUp, Enters, Goes, theKey, pool, history
<1>7. ASSUME NEW t \in Threads, SetExpire(t) PROVE KeyGetsExpiry'
  <2>1. CASE faults' = faults
    <3>1. ~Fails
      BY <2>1 DEF Fails
    <3>2. holder' = holder /\ expires' = (holder # Nobody)
      BY <1>7, <3>1, Zenon DEF SetExpire
    <3>3. CASE holder = Nobody
      BY <3>2, <3>3
    <3>4. CASE holder # Nobody
      BY <3>2, <3>4, Zenon
    <3>5. QED
      BY <3>3, <3>4
  <2>2. CASE faults' # faults
    BY <1>7, <2>2 DEF SetExpire, Works, Fails
  <2>3. QED
    BY <2>1, <2>2
<1>8. ASSUME NEW t \in Threads, Exists(t) PROVE KeyGetsExpiry'
  BY <1>8 DEF Exists, OnList, Touches, Goes, theKey, pool
<1>9. ASSUME NEW t \in Threads, Insert(t) PROVE KeyGetsExpiry'
  BY <1>9 DEF Insert, OnList, Touches, Goes, theKey, pool
<1>10. ASSUME NEW t \in Threads, Del(t) PROVE KeyGetsExpiry'
  BY <1>10 DEF Del, OnList, Touches, Goes, theKey, pool
<1>11. ASSUME NEW t \in Threads, Push1(t) PROVE KeyGetsExpiry'
  BY <1>11 DEF Push1, OnList, Touches, Goes, theKey, pool
<1>12. ASSUME NEW t \in Threads, Push2(t) PROVE KeyGetsExpiry'
  BY <1>12 DEF Push2, OnList, Touches, Goes, theKey, pool
<1>13. ASSUME NEW t \in Threads, BreaksOff(t) PROVE KeyGetsExpiry'
  BY <1>13 DEF BreaksOff, Fails, Goes, theKey, pool
<1>14. ASSUME NEW t \in Threads, Unlock(t) PROVE KeyGetsExpiry'
  BY <1>14 DEF Unlock, Works, Fails, GiveBack, Goes, theKey, history
<1>15. CASE KeyExpires
  BY <1>15 DEF KeyExpires, pool
<1>16. ASSUME NEW p \in Processes, LockCrash(p) PROVE KeyGetsExpiry'
  BY <1>16 DEF LockCrash, Fails, theKey
<1>17. CASE UNCHANGED lockVars
  BY <1>17 DEF lockVars
<1>18. QED
  BY <1>1, <1>2, <1>3, <1>4, <1>5, <1>6, <1>7, <1>8, <1>9, <1>10, <1>11, <1>12, <1>13, <1>14, <1>15, <1>16, <1>17 DEF LockNext, LockCall

-----------------------------------------------------------------------------
(* Sets that differ in t alone.                                             *)
LEMMA OneMoves ==
  ASSUME NEW S, IsFiniteSet(S), NEW T, NEW t, S \ {t} = T \ {t}
  PROVE  /\ Cardinality(S) \in Nat /\ Cardinality(T) \in Nat
         /\ Cardinality(T) + (IF t \in S THEN 1 ELSE 0)
              = Cardinality(S) + (IF t \in T THEN 1 ELSE 0)
<1>0. Cardinality(S) \in Nat
  BY FS_CardinalityType
<1>1. CASE (t \in S) = (t \in T)
  <2>1. S = T
    BY <1>1
  <2>2. QED
    BY <1>0, <2>1
<1>2. CASE t \in S /\ t \notin T
  <2>1. T = S \ {t}
    BY <1>2
  <2>2. Cardinality(T) = Cardinality(S) - 1
    BY <1>2, <2>1, FS_RemoveElement, Zenon
  <2>3. QED
    BY <1>0, <1>2, <2>1, <2>2, FS_RemoveElement, FS_CardinalityType
<1>3. CASE t \notin S /\ t \in T
  <2>1. T = S \union {t}
    BY <1>3
  <2>2. Cardinality(T) = Cardinality(S) + 1
    BY <1>3, <2>1, FS_AddElement, Zenon
  <2>3. QED
    BY <1>0, <1>3, <2>2
<1>4. QED
  BY <1>1, <1>2, <1>3

\* Whether a thread holds its first and its second connection there.
HasFirst(there) == IF there \in {"idle", "first"} THEN 0 ELSE 1
HasSecond(there) == IF there \in {"idle", "first", "second"} THEN 0 ELSE 1

LEMMA HeldFinite ==
  ASSUME NEW p PROVE /\ IsFiniteSet(Held1(p)) /\ Cardinality(Held1(p)) \in Nat
                     /\ IsFiniteSet(Held2(p)) /\ Cardinality(Held2(p)) \in Nat
<1>1. Held1(p) \subseteq Threads /\ Held2(p) \subseteq Threads
  BY DEF Held1, Held2
<1>2. QED
  BY <1>1, LockAssumption, FS_Subset, FS_CardinalityType

(* A step of t that gives back, or leaks, what it no longer holds.          *)
LEMMA ConnsMove ==
  ASSUME LockIInv, LockTypes', NEW t \in Threads, NEW there, Goes(t, there),
         \A p \in Processes : p # ProcessOf[t] => free'[p] + leaked'[p] = free[p] + leaked[p],
         free'[ProcessOf[t]] + leaked'[ProcessOf[t]] + HasFirst(there) + HasSecond(there)
           = free[ProcessOf[t]] + leaked[ProcessOf[t]] + HasFirst(pc[t]) + HasSecond(pc[t])
  PROVE  ConnsAddUp'
<1> SUFFICES ASSUME NEW p \in Processes
             PROVE  free'[p] + leaked'[p] + Cardinality(Held1(p)') + Cardinality(Held2(p)') = PoolSize
  BY DEF ConnsAddUp
<1>1. /\ free[p] + leaked[p] + Cardinality(Held1(p)) + Cardinality(Held2(p)) = PoolSize
      /\ PoolSize \in Nat /\ free[p] \in Nat /\ leaked[p] \in Nat /\ free'[p] \in Nat /\ leaked'[p] \in Nat
  BY LockAssumption DEF LockIInv, LockTypes, ConnsAddUp
<1>2. pc' = [pc EXCEPT ![t] = there] /\ pc \in [Threads -> Steps]
  BY DEF LockIInv, LockTypes, Goes
<1>3. /\ Cardinality(Held1(p)) \in Nat /\ Cardinality(Held2(p)) \in Nat
      /\ IsFiniteSet(Held1(p)) /\ IsFiniteSet(Held2(p))
  BY HeldFinite
<1>4. CASE ProcessOf[t] # p
  <2>1. Held1(p)' = Held1(p) /\ Held2(p)' = Held2(p)
    BY <1>2, <1>4 DEF Held1, Held2
  <2>2. Cardinality(Held1(p)') = Cardinality(Held1(p)) /\ Cardinality(Held2(p)') = Cardinality(Held2(p))
    BY <2>1, Zenon
  <2>3. free'[p] + leaked'[p] = free[p] + leaked[p]
    BY <1>4
  <2>4. QED
    BY <1>1, <1>3, <2>2, <2>3
<1>5. CASE ProcessOf[t] = p
  <2>1. Held1(p)' \ {t} = Held1(p) \ {t} /\ Held2(p)' \ {t} = Held2(p) \ {t}
    BY <1>2 DEF Held1, Held2
  <2>2. /\ (IF t \in Held1(p) THEN 1 ELSE 0) = HasFirst(pc[t])
        /\ (IF t \in Held1(p)' THEN 1 ELSE 0) = HasFirst(there)
    BY <1>2, <1>5 DEF Held1, HasFirst
  <2>3. /\ (IF t \in Held2(p) THEN 1 ELSE 0) = HasSecond(pc[t])
        /\ (IF t \in Held2(p)' THEN 1 ELSE 0) = HasSecond(there)
    BY <1>2, <1>5 DEF Held2, HasSecond
  <2>4. /\ Cardinality(Held1(p)') \in Nat
        /\ Cardinality(Held1(p)') + HasFirst(pc[t]) = Cardinality(Held1(p)) + HasFirst(there)
    <3>1. /\ Cardinality(Held1(p)') \in Nat
          /\ Cardinality(Held1(p)') + (IF t \in Held1(p) THEN 1 ELSE 0)
               = Cardinality(Held1(p)) + (IF t \in Held1(p)' THEN 1 ELSE 0)
      BY <1>3, <2>1, OneMoves, Zenon
    <3>2. QED
      BY <2>2, <3>1, Zenon
  <2>5. /\ Cardinality(Held2(p)') \in Nat
        /\ Cardinality(Held2(p)') + HasSecond(pc[t]) = Cardinality(Held2(p)) + HasSecond(there)
    <3>1. /\ Cardinality(Held2(p)') \in Nat
          /\ Cardinality(Held2(p)') + (IF t \in Held2(p) THEN 1 ELSE 0)
               = Cardinality(Held2(p)) + (IF t \in Held2(p)' THEN 1 ELSE 0)
      BY <1>3, <2>1, OneMoves, Zenon
    <3>2. QED
      BY <2>3, <3>1, Zenon
  <2>6. /\ HasFirst(pc[t]) \in Nat /\ HasSecond(pc[t]) \in Nat
        /\ HasFirst(there) \in Nat /\ HasSecond(there) \in Nat
    BY DEF HasFirst, HasSecond
  <2>7. free'[p] + leaked'[p] + HasFirst(there) + HasSecond(there)
          = free[p] + leaked[p] + HasFirst(pc[t]) + HasSecond(pc[t])
    BY <1>5
  <2> DEFINE a1 == Cardinality(Held1(p))
             a2 == Cardinality(Held1(p)')
             b1 == Cardinality(Held2(p))
             b2 == Cardinality(Held2(p)')
             f1 == free[p]
             f2 == free'[p]
             l1 == leaked[p]
             l2 == leaked'[p]
             g1 == HasFirst(pc[t])
             g2 == HasFirst(there)
             h1 == HasSecond(pc[t])
             h2 == HasSecond(there)
  <2>8. /\ f1 \in Nat /\ l1 \in Nat /\ f2 \in Nat /\ l2 \in Nat
        /\ a1 \in Nat /\ a2 \in Nat /\ b1 \in Nat /\ b2 \in Nat
        /\ g1 \in Nat /\ g2 \in Nat /\ h1 \in Nat /\ h2 \in Nat
    BY <1>1, <1>3, <2>4, <2>5, <2>6, Zenon
  <2>9. /\ f1 + l1 + a1 + b1 = PoolSize /\ a2 + g1 = a1 + g2 /\ b2 + h1 = b1 + h2
        /\ f2 + l2 + g2 + h2 = f1 + l1 + g1 + h1
    BY <1>1, <2>4, <2>5, <2>7, Zenon
  <2> HIDE DEF a1, a2, b1, b2, f1, f2, l1, l2, g1, g2, h1, h2
  <2>10. f2 + l2 + a2 + b2 = PoolSize
    BY <2>8, <2>9
  <2>11. QED
    BY <2>10, Zenon DEF a2, b2, f2, l2
<1>6. QED
  BY <1>4, <1>5

\* The steps of t that take and give back nothing.
LEMMA ConnsStay ==
  ASSUME LockIInv, LockTypes', NEW t \in Threads, NEW there, Goes(t, there), UNCHANGED pool,
         HasFirst(there) = HasFirst(pc[t]), HasSecond(there) = HasSecond(pc[t])
  PROVE  ConnsAddUp'
<1>1. UNCHANGED <<free, leaked>>
  BY DEF pool
<1>2. QED
  BY <1>1, ConnsMove

LEMMA ConnsKept ==
  ASSUME LockIInv, [LockNext]_lockVars PROVE ConnsAddUp'
<1>0. LockTypes'
  BY TypesKept
<1> USE <1>0
<1>a. /\ leaked \in [Processes -> Nat] /\ free \in [Processes -> Nat]
      /\ \A t \in Threads : ProcessOf[t] \in Processes
  BY LockAssumption DEF LockIInv, LockTypes
<1>1. ASSUME NEW t \in Threads, NEW k \in {"insert", "replace"}, Begin(t, k) PROVE ConnsAddUp'
  BY <1>1, ConnsStay DEF Begin, HasFirst, HasSecond
<1>2. ASSUME NEW t \in Threads, First(t) PROVE ConnsAddUp'
  <2>1. \A p \in Processes : p # ProcessOf[t] => free'[p] + leaked'[p] = free[p] + leaked[p]
    BY <1>a, <1>2 DEF First, Take
  <2>2. free'[ProcessOf[t]] + leaked'[ProcessOf[t]] + HasFirst("second") + HasSecond("second")
          = free[ProcessOf[t]] + leaked[ProcessOf[t]] + HasFirst(pc[t]) + HasSecond(pc[t])
    BY <1>a, <1>2 DEF First, Take, HasFirst, HasSecond
  <2>3. QED
    BY <1>2, <2>1, <2>2, ConnsMove DEF First
<1>3. ASSUME NEW t \in Threads, Second(t) PROVE ConnsAddUp'
  <2>1. \A p \in Processes : p # ProcessOf[t] => free'[p] + leaked'[p] = free[p] + leaked[p]
    BY <1>a, <1>3 DEF Second, Take
  <2>2. free'[ProcessOf[t]] + leaked'[ProcessOf[t]] + HasFirst("setnx") + HasSecond("setnx")
          = free[ProcessOf[t]] + leaked[ProcessOf[t]] + HasFirst(pc[t]) + HasSecond(pc[t])
    BY <1>a, <1>3 DEF Second, Take, HasFirst, HasSecond
  <2>3. QED
    BY <1>3, <2>1, <2>2, ConnsMove DEF Second
<1>4. ASSUME NEW t \in Threads, PoolTimeout(t) PROVE ConnsAddUp'
  <2>1. \A p \in Processes : p # ProcessOf[t] => free'[p] + leaked'[p] = free[p] + leaked[p]
    BY <1>a, <1>4 DEF PoolTimeout, GiveBack
  <2>2. free'[ProcessOf[t]] + leaked'[ProcessOf[t]] + HasFirst("idle") + HasSecond("idle")
          = free[ProcessOf[t]] + leaked[ProcessOf[t]] + HasFirst(pc[t]) + HasSecond(pc[t])
    BY <1>a, <1>4 DEF PoolTimeout, GiveBack, HasFirst, HasSecond
  <2>3. QED
    BY <1>4, <2>1, <2>2, ConnsMove DEF PoolTimeout
<1>13. ASSUME NEW t \in Threads, LockThrows(t), pc[t] \in {"setnx", "expire"} PROVE ConnsAddUp'
  <2>1. \A p \in Processes : p # ProcessOf[t] => free'[p] + leaked'[p] = free[p] + leaked[p]
    BY <1>a, <1>13 DEF LockThrows, GiveBack
  <2>2. free'[ProcessOf[t]] + leaked'[ProcessOf[t]] + HasFirst("idle") + HasSecond("idle")
          = free[ProcessOf[t]] + leaked[ProcessOf[t]] + HasFirst(pc[t]) + HasSecond(pc[t])
    BY <1>a, <1>13 DEF LockThrows, GiveBack, HasFirst, HasSecond
  <2>3. QED
    BY <1>13, <2>1, <2>2, ConnsMove DEF LockThrows
<1>5. ASSUME NEW t \in Threads, SetNx(t) PROVE ConnsAddUp'
  <2>1. CASE UNCHANGED pool /\ Goes(t, "expire")
    BY <1>5, <2>1, ConnsStay DEF SetNx, HasFirst, HasSecond
  <2>2. CASE LockThrows(t)
    BY <1>13, <1>5, <2>2 DEF SetNx
  <2>3. QED
    BY <1>5, <2>1, <2>2 DEF SetNx
<1>6. ASSUME NEW t \in Threads, SetExpire(t) PROVE ConnsAddUp'
  <2>1. CASE UNCHANGED pool /\ Enters(t)
    BY <1>6, <2>1, ConnsStay DEF SetExpire, Enters, HasFirst, HasSecond
  <2>2. CASE LockThrows(t)
    BY <1>13, <1>6, <2>2 DEF SetExpire
  <2>3. QED
    BY <1>6, <2>1, <2>2 DEF SetExpire
<1>7. ASSUME NEW t \in Threads, GiveUp(t) PROVE ConnsAddUp'
  BY <1>7, ConnsStay DEF GiveUp, Enters, HasFirst, HasSecond
<1>8. ASSUME NEW t \in Threads,
             \/ Exists(t) \/ Insert(t) \/ Del(t)
             \/ Push1(t) \/ Push2(t) \/ BreaksOff(t)
      PROVE  ConnsAddUp'
  <2>1. PICK there \in {"insert", "unlock", "push1", "push2"} : Goes(t, there)
    BY <1>8 DEF Exists, Insert, Del, Push1, Push2, BreaksOff, OnList
  <2>2. UNCHANGED pool /\ pc[t] \in {"exists", "insert", "del", "push1", "push2"}
    BY <1>8 DEF Exists, Insert, Del, Push1, Push2, BreaksOff, OnList
  <2>3. QED
    BY <2>1, <2>2, ConnsStay DEF HasFirst, HasSecond
<1>9. ASSUME NEW t \in Threads, Unlock(t) PROVE ConnsAddUp'
  <2>1. \A p \in Processes : p # ProcessOf[t] => free'[p] + leaked'[p] = free[p] + leaked[p]
    BY <1>a, <1>9 DEF Unlock, GiveBack
  <2>2. free'[ProcessOf[t]] + leaked'[ProcessOf[t]] + HasFirst("idle") + HasSecond("idle")
          = free[ProcessOf[t]] + leaked[ProcessOf[t]] + HasFirst(pc[t]) + HasSecond(pc[t])
    BY <1>a, <1>9 DEF Unlock, GiveBack, HasFirst, HasSecond
  <2>3. QED
    BY <1>9, <2>1, <2>2, ConnsMove DEF Unlock
<1>10. CASE KeyExpires \/ UNCHANGED lockVars
  BY <1>10 DEF LockIInv, KeyExpires, lockVars, pool, ConnsAddUp, Held1, Held2
<1>11. ASSUME NEW p \in Processes, LockCrash(p) PROVE ConnsAddUp'
  <2> SUFFICES ASSUME NEW q \in Processes
               PROVE  free'[q] + leaked'[q] + Cardinality(Held1(q)') + Cardinality(Held2(q)') = PoolSize
    BY DEF ConnsAddUp
  <2>1. CASE q = p
    <3>1. Held1(q)' = {} /\ Held2(q)' = {}
      BY <1>11, <2>1 DEF LockCrash, Held1, Held2
    <3>2. free'[q] = PoolSize /\ leaked'[q] = 0
      BY <1>a, <1>11, <2>1 DEF LockCrash
    <3>3. Cardinality(Held1(q)') = 0 /\ Cardinality(Held2(q)') = 0
      BY <3>1, FS_EmptySet, Zenon
    <3>4. QED
      BY <3>2, <3>3, LockAssumption
  <2>2. CASE q # p
    <3>1. Held1(q)' = Held1(q) /\ Held2(q)' = Held2(q)
      BY <1>11, <2>2 DEF LockCrash, Held1, Held2, LockIInv, LockTypes
    <3>2. free'[q] = free[q] /\ leaked'[q] = leaked[q]
      BY <1>a, <1>11, <2>2 DEF LockCrash
    <3>3. QED
      BY <3>1, <3>2 DEF LockIInv, ConnsAddUp
  <2>3. QED
    BY <2>1, <2>2
<1>12. QED
  BY <1>1, <1>2, <1>3, <1>4, <1>5, <1>6, <1>7, <1>8, <1>9, <1>10, <1>11 DEF LockNext, LockCall
-----------------------------------------------------------------------------
LEMMA LockInitial == LockInit => LockIInv
<1> SUFFICES ASSUME LockInit PROVE LockIInv
  OBVIOUS
<1> USE LockAssumption DEF LockInit
<1>1. LockTypes
  <2>1. /\ free \in [Processes -> Nat] /\ leaked \in [Processes -> Nat]
        /\ calls \in 0 .. MaxCalls /\ faults \in 0 .. MaxFaults
    OBVIOUS
  <2>2. pc \in [Threads -> Steps] /\ kind \in [Threads -> {"insert", "replace"}]
        /\ locked \in [Threads -> BOOLEAN]
    BY DEF Steps
  <2>3. list \in Seq(Threads \X {1, 2})
    OBVIOUS
  <2>4. QED
    BY <2>1, <2>2, <2>3 DEF LockTypes
<1>4. Owners /\ KeyGetsExpiry
  BY DEF Section, Owners, KeyGetsExpiry
<1>5. ListInv
  BY DEF ListInv
<1>2. ASSUME NEW p \in Processes PROVE Held1(p) = {} /\ Held2(p) = {}
  BY DEF Held1, Held2
<1>3. ConnsAddUp
  <2> SUFFICES ASSUME NEW p \in Processes
               PROVE  free[p] + leaked[p] + Cardinality(Held1(p)) + Cardinality(Held2(p)) = PoolSize
    BY DEF ConnsAddUp
  <2>1. Cardinality(Held1(p)) = 0 /\ Cardinality(Held2(p)) = 0
    BY <1>2, FS_EmptySet, Zenon
  <2>2. QED
    BY <2>1
<1>6. QED
  BY <1>1, <1>3, <1>4, <1>5 DEF LockIInv

LEMMA LockStep == LockIInv /\ [LockNext]_lockVars => LockIInv'
BY TypesKept, OwnersKept, ListKept, ExpiryKept, ConnsKept DEF LockIInv

LEMMA LockInvariant == LockSpec => []LockIInv
BY LockInitial, LockStep, PTL DEF LockSpec

(* The state stays well formed; no pool hands out more than it has, nor     *)
(* gets back more than it handed out.  (Executor.getResult, RedisLock.)     *)
THEOREM LockTypesHold == LockSpec => []LockTypeOK
<1>1. ASSUME LockIInv PROVE LockTypeOK
  <2>1. ASSUME NEW p \in Processes PROVE free[p] \in 0 .. PoolSize /\ leaked[p] \in 0 .. PoolSize
    BY <1>1, HeldFinite, LockAssumption DEF LockIInv, LockTypes, ConnsAddUp
  <2>2. QED
    BY <1>1, <2>1 DEF LockIInv, LockTypes, LockTypeOK
<1>2. QED
  BY <1>1, LockInvariant, PTL

(* Until a key has expired, whoever was given the lock keeps it.            *)
(* (RedisLock.unlock deletes without asking whose the key is.)              *)
THEOREM LockKept == LockSpec => []LockIsKept
<1>1. LockIInv => LockIsKept
  BY DEF LockIInv, Owners, LockIsKept
<1>2. QED
  BY <1>1, LockInvariant, PTL

(* While every call owned the key it worked under and none stopped half     *)
(* way, the list is one call's.  (insertListIfNotExists, batchListPushTail.) *)
THEOREM OneCallsList == LockSpec => []ListIsOneCalls
<1>1. LockIInv => ListIsOneCalls
  BY DEF LockIInv, ListInv, ListIsOneCalls, Section
<1>2. QED
  BY <1>1, LockInvariant, PTL

(* A pool at rest is whole but for the connections of locks whose lock()    *)
(* threw.  (Executor.getResult, RedisLock.unlock.)                          *)
THEOREM WholePools == LockSpec => []PoolIsWhole
<1>1. ASSUME LockIInv PROVE PoolIsWhole
  <2> SUFFICES ASSUME NEW p \in Processes, \A t \in Threads : ProcessOf[t] = p => pc[t] = "idle"
               PROVE  free[p] + leaked[p] = PoolSize
    BY DEF PoolIsWhole
  <2>1. Held1(p) = {} /\ Held2(p) = {}
    BY DEF Held1, Held2
  <2>2. Cardinality(Held1(p)) = 0 /\ Cardinality(Held2(p)) = 0
    BY <2>1, FS_EmptySet, Zenon
  <2>3. QED
    BY <1>1, <2>2 DEF LockIInv, LockTypes, ConnsAddUp
<1>2. QED
  BY <1>1, LockInvariant, PTL

(* Without a fault, a key that cannot expire is about to be given its       *)
(* expiry.  (RedisLock.lock: setnx and expire are two calls.)               *)
THEOREM KeysExpire == LockSpec => []KeyGetsExpiry
<1>1. LockIInv => KeyGetsExpiry
  BY DEF LockIInv
<1>2. QED
  BY <1>1, LockInvariant, PTL
-----------------------------------------------------------------------------
(* ExpireTask *)

Listed(seq) == {seq[i] : i \in 1 .. Len(seq)}

\* A read that Redis has not heard of is queued, or in the batch.
OwedIsListed == owed \subseteq Listed(asked) \union Listed(l2Datas)

ExpireIInv == ExpireTypeOK /\ OwedIsListed
-----------------------------------------------------------------------------
LEMMA ListedAppend ==
  ASSUME NEW S, NEW seq \in Seq(S), NEW e \in S
  PROVE  Append(seq, e) \in Seq(S) /\ Listed(Append(seq, e)) = Listed(seq) \union {e}
<1>1. /\ Append(seq, e) \in Seq(S) /\ Len(Append(seq, e)) = Len(seq) + 1 /\ Len(seq) \in Nat
      /\ \A i \in 1 .. Len(seq) : Append(seq, e)[i] = seq[i]
      /\ Append(seq, e)[Len(seq) + 1] = e
  BY AppendProperties, LenProperties
<1>2. Listed(Append(seq, e)) \subseteq Listed(seq) \union {e}
  BY <1>1 DEF Listed
<1>3. Listed(seq) \subseteq Listed(Append(seq, e))
  BY <1>1 DEF Listed
<1>4. e \in Listed(Append(seq, e))
  BY <1>1 DEF Listed
<1>5. QED
  BY <1>2, <1>3, <1>4

LEMMA ListedHead ==
  ASSUME NEW S, NEW seq \in Seq(S), seq # <<>>
  PROVE  Head(seq) \in S /\ Tail(seq) \in Seq(S) /\ Listed(seq) = {Head(seq)} \union Listed(Tail(seq))
<1>1. /\ Head(seq) \in S /\ Tail(seq) \in Seq(S) /\ Len(seq) \in Nat \ {0} /\ Head(seq) = seq[1]
      /\ Len(Tail(seq)) = Len(seq) - 1
      /\ \A i \in 1 .. Len(Tail(seq)) : Tail(seq)[i] = seq[i + 1]
  BY HeadTailProperties, LenProperties, EmptySeq
<1>2. Listed(seq) \subseteq {Head(seq)} \union Listed(Tail(seq))
  <2> SUFFICES ASSUME NEW i \in 1 .. Len(seq) PROVE seq[i] \in {Head(seq)} \union Listed(Tail(seq))
    BY DEF Listed
  <2>1. CASE i = 1
    BY <1>1, <2>1
  <2>2. CASE i # 1
    <3>1. i - 1 \in 1 .. Len(Tail(seq)) /\ Tail(seq)[i - 1] = seq[i]
      BY <1>1, <2>2
    <3>2. QED
      BY <3>1 DEF Listed
  <2>3. QED
    BY <2>1, <2>2
<1>3. {Head(seq)} \union Listed(Tail(seq)) \subseteq Listed(seq)
  BY <1>1 DEF Listed
<1>4. QED
  BY <1>1, <1>2, <1>3

LEMMA CollectedIsListed == ASSUME l2Datas \in Seq(EntryKeys) PROVE Collected = Listed(l2Datas)
BY DEF Collected, Listed
-----------------------------------------------------------------------------
LEMMA ExpireInitial == ExpireInit => ExpireIInv
BY ExpireAssumption DEF ExpireInit, ExpireIInv, ExpireTypeOK, OwedIsListed

\* EXPIRE gives a name that is there its whole time again.
LEMMA ExpiredTyped ==
  ASSUME ttl \in [Names -> 0 .. Idle], NEW K PROVE Expired(K) \in [Names -> 0 .. Idle]
BY ExpireAssumption DEF Expired

LEMMA TouchTyped ==
  ASSUME ExpireTypeOK, NEW k \in EntryKeys, Touch(k)
  PROVE  local' \in [EntryKeys -> 0 .. LocalIdle] /\ age' \in [EntryKeys -> 0 .. Idle]
BY ExpireAssumption DEF ExpireTypeOK, Touch

LEMMA ExpireStep == ExpireIInv /\ [ExpireNext]_expireVars => ExpireIInv'
<1> SUFFICES ASSUME ExpireIInv, [ExpireNext]_expireVars PROVE ExpireIInv'
  OBVIOUS
<1> USE ExpireAssumption DEF ExpireIInv
<1>0. asked \in Seq(EntryKeys) /\ l2Datas \in Seq(EntryKeys) /\ ttl \in [Names -> 0 .. Idle]
  BY DEF ExpireTypeOK
<1>1. ASSUME NEW k \in EntryKeys, PutEntry(k) PROVE ExpireIInv'
  <2>1. ttl' \in [Names -> 0 .. Idle]
    <3>1. Idle \in 0 .. Idle
      OBVIOUS
    <3>2. QED
      BY <1>0, <1>1, <3>1, Zenon DEF PutEntry
  <2>2. QED
    BY <1>1, <2>1, TouchTyped DEF PutEntry, ExpireTypeOK, OwedIsListed
<1>2. ASSUME NEW k \in EntryKeys, GetEntry(k) PROVE ExpireIInv'
  <2>1. asked' \in Seq(EntryKeys) /\ Listed(asked') = Listed(asked) \union {k}
    BY <1>0, <1>2, ListedAppend DEF GetEntry
  <2>2. ExpireTypeOK'
    BY <1>2, <2>1, TouchTyped DEF GetEntry, ExpireTypeOK
  <2>3. OwedIsListed'
    BY <1>2, <2>1 DEF GetEntry, OwedIsListed
  <2>4. QED
    BY <2>2, <2>3
<1>3. CASE PollKey
  <2>1. /\ Head(asked) \in EntryKeys /\ asked' \in Seq(EntryKeys)
        /\ Listed(asked) = {Head(asked)} \union Listed(asked')
    BY <1>0, <1>3, ListedHead DEF PollKey
  <2>2. l2Datas' \in Seq(EntryKeys) /\ Listed(l2Datas') = Listed(l2Datas) \union {Head(asked)}
    BY <1>0, <1>3, <2>1, ListedAppend DEF PollKey
  <2>3. ExpireTypeOK'
    BY <1>3, <2>1, <2>2 DEF PollKey, ExpireTypeOK
  <2>4. OwedIsListed'
    BY <1>3, <2>1, <2>2 DEF PollKey, OwedIsListed
  <2>5. QED
    BY <2>3, <2>4
<1>4. CASE Flush
  <2>1. ttl' \in [Names -> 0 .. Idle]
    BY <1>0, <1>4, ExpiredTyped DEF Flush
  <2>2. l2Datas' \in Seq(EntryKeys) /\ breaks' \in 0 .. MaxBreaks /\ owed' \in SUBSET EntryKeys
    <3>1. l2Datas' = <<>> \/ l2Datas' = l2Datas
      BY <1>4 DEF Flush
    <3>2. breaks' \in 0 .. MaxBreaks
      BY <1>4 DEF Flush, ExpireTypeOK
    <3>3. owed' \in SUBSET EntryKeys
      BY <1>4 DEF Flush, ExpireTypeOK
    <3>4. <<>> \in Seq(EntryKeys)
      OBVIOUS
    <3>5. QED
      BY <1>0, <3>1, <3>2, <3>3, <3>4, Zenon
  <2>3. ExpireTypeOK'
    BY <1>4, <2>1, <2>2 DEF Flush, ExpireTypeOK
  <2>4. Listed(asked) = {}
    BY <1>4 DEF Flush, Listed
  <2>5. OwedIsListed'
    BY <1>0, <1>4, <2>4, CollectedIsListed DEF Flush, OwedIsListed
  <2>6. QED
    BY <2>3, <2>5
<1>5. CASE Tick
  <2>1. \A n \in Nat : Less(n) \in Nat /\ Less(n) <= n
    BY DEF Less
  <2>2. local' \in [EntryKeys -> 0 .. LocalIdle] /\ ttl' \in [Names -> 0 .. Idle]
    BY <1>0, <1>5, <2>1 DEF Tick, ExpireTypeOK
  <2>3. age' \in [EntryKeys -> 0 .. Idle]
    BY <1>5 DEF Tick, ExpireTypeOK
  <2>4. QED
    BY <1>5, <2>2, <2>3 DEF Tick, ExpireTypeOK, OwedIsListed
<1>6. CASE UNCHANGED expireVars
  BY <1>6 DEF expireVars, ExpireTypeOK, OwedIsListed
<1>7. QED
  BY <1>1, <1>2, <1>3, <1>4, <1>5, <1>6 DEF ExpireNext

(* However reads, failing batches and ticks interleave: when the task has   *)
(* caught up, Redis has taken an EXPIRE for every read.                     *)
(* (RedisExpireUpdateTask.run keeps l2Datas when batchSetExpire throws.)    *)
THEOREM EveryReadIsAnswered == ExpireSpec => []NoReadIsLost
<1>1. ASSUME ExpireIInv PROVE NoReadIsLost
  BY <1>1 DEF ExpireIInv, OwedIsListed, NoReadIsLost, Listed
<1>2. QED
  BY <1>1, ExpireInitial, ExpireStep, PTL DEF ExpireSpec

(* For any keys, reads, ticks and failing batches, no time runs below 0.    *)
(* (RedisExpireUpdateTask, the idle times of both caches.)                  *)
THEOREM ExpireTypesHold == ExpireSpec => []ExpireTypeOK
<1>1. ExpireIInv => ExpireTypeOK
  BY DEF ExpireIInv
<1>2. QED
  BY <1>1, ExpireInitial, ExpireStep, PTL DEF ExpireSpec

-----------------------------------------------------------------------------
(* ClusterDispatch *)

\* Where a packet's copies can be at its stages.
Copies ==
  /\ \A n \in Nodes, p \in Packets, from \in Nodes :
       <<p, from>> \in inbox[n] => from = SenderOf[p] /\ stage[p] = "sent"
  /\ \A c \in Conns, p \in Packets :
       /\ got[c][p] <= 1
       /\ got[c][p] # 0 => stage[p] # "new"
       /\ got[c][p] # 0 /\ HomeOf[c] # SenderOf[p] =>
            /\ stage[p] = "sent"
            /\ <<p, SenderOf[p]>> \notin inbox[HomeOf[c]]

\* What has become, or will, of the copy for a connection that stays.
Stayers ==
  \A p \in Packets : \A c \in stayed[p] :
    /\ c \in bound \intersect Audience[p]
    /\ stage[p] # "new"
    /\ HomeOf[c] = SenderOf[p] => got[c][p] = 1
    /\ HomeOf[c] # SenderOf[p] =>
         \/ stage[p] = "local"
         \/ ~Clustered(p)
         \/ <<HomeOf[c], p>> \in lost
         \/ got[c][p] = 1
         \/ <<p, SenderOf[p]>> \in inbox[HomeOf[c]]

ClusterIInv == ClusterTypeOK /\ Copies /\ Stayers
-----------------------------------------------------------------------------
(* A packet's count at a connection after some were given it: up from none  *)
(* to one for those, nothing else for anyone.                               *)
LEMMA GiveEffect ==
  ASSUME ClusterTypeOK, NEW p \in Packets, NEW C \in SUBSET Conns, Give(C, p)
  PROVE  /\ got' \in [Conns -> [Packets -> 0 .. 2]]
         /\ \A c \in Conns, q \in Packets :
              c \notin C \/ q # p => got'[c][q] = got[c][q]
         /\ \A c \in C : got[c][p] = 0 => got'[c][p] = 1
         /\ \A c \in C : got'[c][p] # 0
<1> USE DEF ClusterTypeOK
<1>1. got' = [c \in Conns |->
                IF c \in C THEN [got[c] EXCEPT ![p] = IF @ = 0 THEN 1 ELSE 2] ELSE got[c]]
  BY DEF Give
<1>2. ASSUME NEW c \in C
      PROVE  /\ got'[c] = [got[c] EXCEPT ![p] = IF got[c][p] = 0 THEN 1 ELSE 2]
             /\ got'[c] \in [Packets -> 0 .. 2]
             /\ got'[c][p] = IF got[c][p] = 0 THEN 1 ELSE 2
             /\ \A q \in Packets : q # p => got'[c][q] = got[c][q]
  <2>1. c \in Conns /\ got[c] \in [Packets -> 0 .. 2]
    OBVIOUS
  <2>2. got'[c] = [got[c] EXCEPT ![p] = IF got[c][p] = 0 THEN 1 ELSE 2]
    BY <1>1, <2>1
  <2>3. QED
    BY <2>1, <2>2
<1>3. \A c \in Conns \ C : got'[c] = got[c]
  BY <1>1
<1>4. \A c \in Conns : got'[c] \in [Packets -> 0 .. 2]
  BY <1>2, <1>3
<1>5. got' \in [Conns -> [Packets -> 0 .. 2]]
  BY <1>1, <1>4
<1>6. \A c \in Conns, q \in Packets : c \notin C \/ q # p => got'[c][q] = got[c][q]
  <2>1. SUFFICES ASSUME NEW c \in Conns, NEW q \in Packets, c \notin C \/ q # p
                 PROVE  got'[c][q] = got[c][q]
    OBVIOUS
  <2>2. CASE c \in C
    BY <1>2, <2>1, <2>2
  <2>3. CASE c \notin C
    BY <1>3, <2>3
  <2>4. QED
    BY <2>2, <2>3
<1>7. \A c \in C : got'[c][p] = IF got[c][p] = 0 THEN 1 ELSE 2
  BY <1>2
<1>8. QED
  BY <1>5, <1>6, <1>7

LEMMA ClusterInitial == ClusterInit => ClusterIInv
BY ClusterAssumption DEF ClusterInit, ClusterIInv, ClusterTypeOK, Copies, Stayers, Modes
-----------------------------------------------------------------------------
LEMMA BindKeeps ==
  ASSUME ClusterIInv, NEW c \in Conns, Bind(c) PROVE ClusterIInv'
BY ClusterAssumption DEF ClusterIInv, ClusterTypeOK, Copies, Stayers, Bind, Clustered

LEMMA UnbindKeeps ==
  ASSUME ClusterIInv, NEW c \in Conns, Unbind(c) PROVE ClusterIInv'
<1> USE ClusterAssumption DEF ClusterIInv, Unbind, Gone
<1>1. ClusterTypeOK'
  BY DEF ClusterTypeOK
<1>2. Copies'
  BY DEF Copies
<1>3. Stayers'
  BY DEF Stayers, ClusterTypeOK, Clustered
<1>4. QED
  BY <1>1, <1>2, <1>3

(* The local copies: whoever stays from here on at the sender's node has    *)
(* one, and nobody had any.                                                 *)
LEMMA SendLocalKeeps ==
  ASSUME ClusterIInv, NEW p \in Packets, SendLocal(p) PROVE ClusterIInv'
<1> USE ClusterAssumption DEF ClusterIInv
<1> DEFINE L == Local(SenderOf[p], p)
<1>1. L \in SUBSET Conns /\ Give(L, p)
  BY DEF SendLocal, Local, ClusterTypeOK
<1>2. /\ got' \in [Conns -> [Packets -> 0 .. 2]]
      /\ \A c \in Conns, q \in Packets : c \notin L \/ q # p => got'[c][q] = got[c][q]
      /\ \A c \in L : got[c][p] = 0 => got'[c][p] = 1
  BY <1>1, GiveEffect
<1>3. stage[p] = "new" /\ stage' = [stage EXCEPT ![p] = "local"]
  BY DEF SendLocal
<1>4. \A c \in Conns : got[c][p] = 0
  BY <1>3 DEF Copies, ClusterTypeOK
<1>5. stayed' = [stayed EXCEPT ![p] = bound \intersect Audience[p]]
  BY DEF SendLocal
<1>6. UNCHANGED <<cluster4, bound, closed, inbox, lost, losses>>
  BY DEF SendLocal
<1>7. \A c \in L : c \in bound \intersect Audience[p] /\ HomeOf[c] = SenderOf[p]
  BY DEF Local
<1>8. ClusterTypeOK'
  BY <1>2, <1>3, <1>5, <1>6 DEF ClusterTypeOK
<1>9. Copies'
  <2>1. ASSUME NEW n \in Nodes, NEW q \in Packets, NEW from \in Nodes, <<q, from>> \in inbox'[n]
        PROVE  from = SenderOf[q] /\ stage'[q] = "sent"
    BY <1>3, <1>6, <2>1 DEF Copies, ClusterTypeOK
  <2>2. ASSUME NEW c \in Conns, NEW q \in Packets
        PROVE  /\ got'[c][q] <= 1
               /\ got'[c][q] # 0 => stage'[q] # "new"
               /\ got'[c][q] # 0 /\ HomeOf[c] # SenderOf[q] =>
                    stage'[q] = "sent" /\ <<q, SenderOf[q]>> \notin inbox'[HomeOf[c]]
    <3>1. CASE q = p /\ c \in L
      BY <1>2, <1>3, <1>4, <1>7, <3>1 DEF ClusterTypeOK
    <3>2. CASE q # p \/ c \notin L
      <4>1. got'[c][q] = got[c][q]
        BY <1>2, <3>2
      <4>2. CASE q = p
        BY <1>4, <4>1, <4>2
      <4>3. CASE q # p
        BY <1>3, <1>6, <4>1, <4>3 DEF Copies, ClusterTypeOK
      <4>4. QED
        BY <4>2, <4>3
    <3>3. QED
      BY <3>1, <3>2
  <2>3. QED
    BY <2>1, <2>2 DEF Copies
<1>10. Stayers'
  <2>1. SUFFICES ASSUME NEW q \in Packets, NEW c \in stayed'[q]
                 PROVE  /\ c \in bound' \intersect Audience[q]
                        /\ stage'[q] # "new"
                        /\ HomeOf[c] = SenderOf[q] => got'[c][q] = 1
                        /\ HomeOf[c] # SenderOf[q] =>
                             \/ stage'[q] = "local"
                             \/ ~Clustered(q)'
                             \/ <<HomeOf[c], q>> \in lost'
                             \/ got'[c][q] = 1
                             \/ <<q, SenderOf[q]>> \in inbox'[HomeOf[c]]
    BY DEF Stayers
  <2>2. CASE q = p
    <3>1. c \in bound \intersect Audience[p]
      BY <1>5, <2>2 DEF ClusterTypeOK
    <3>2. HomeOf[c] = SenderOf[p] => c \in L
      BY <3>1 DEF Local
    <3>3. HomeOf[c] = SenderOf[p] => got'[c][p] = 1
      BY <1>2, <1>4, <3>1, <3>2 DEF ClusterTypeOK
    <3>4. QED
      BY <1>3, <1>6, <2>2, <3>1, <3>3 DEF ClusterTypeOK
  <2>3. CASE q # p
    <3>1. c \in stayed[q]
      BY <1>5, <2>3 DEF ClusterTypeOK
    <3>2. c \in Conns
      BY <3>1 DEF ClusterTypeOK
    <3>3. got'[c][q] = got[c][q] /\ stage'[q] = stage[q]
      BY <1>2, <1>3, <2>3, <3>2 DEF ClusterTypeOK
    <3>4. QED
      BY <1>6, <3>1, <3>3 DEF Stayers, Clustered
  <2>4. QED
    BY <2>2, <2>3
<1>11. QED
  BY <1>8, <1>9, <1>10

(* The publication: a copy for every node, or none for any.                 *)
LEMMA PublishKeeps ==
  ASSUME ClusterIInv, NEW p \in Packets, Publish(p) PROVE ClusterIInv'
<1> USE ClusterAssumption DEF ClusterIInv
<1>1. /\ stage[p] = "local" /\ stage' = [stage EXCEPT ![p] = "sent"]
      /\ UNCHANGED <<cluster4, bound, closed, got, stayed>>
  BY DEF Publish
<1>2. CASE ~Clustered(p) /\ UNCHANGED <<inbox, lost, losses>>
  <2>1. ClusterTypeOK'
    BY <1>1, <1>2 DEF ClusterTypeOK
  <2>2. Copies'
    BY <1>1, <1>2 DEF Copies, ClusterTypeOK
  <2>3. Stayers'
    BY <1>1, <1>2 DEF Stayers, ClusterTypeOK, Clustered
  <2>4. QED
    BY <2>1, <2>2, <2>3
<1>3. CASE /\ inbox' = [n \in Nodes |-> inbox[n] \union {<<p, SenderOf[p]>>}]
           /\ UNCHANGED <<lost, losses>>
  <2>1. ClusterTypeOK'
    BY <1>1, <1>3 DEF ClusterTypeOK
  <2>2. Copies'
    <3>1. ASSUME NEW n \in Nodes, NEW q \in Packets, NEW from \in Nodes, <<q, from>> \in inbox'[n]
          PROVE  from = SenderOf[q] /\ stage'[q] = "sent"
      <4>1. CASE <<q, from>> \in inbox[n]
        BY <1>1, <4>1 DEF Copies, ClusterTypeOK
      <4>2. CASE <<q, from>> = <<p, SenderOf[p]>>
        BY <1>1, <4>2 DEF ClusterTypeOK
      <4>3. QED
        BY <1>3, <3>1, <4>1, <4>2
    <3>2. ASSUME NEW c \in Conns, NEW q \in Packets
          PROVE  /\ got'[c][q] <= 1
                 /\ got'[c][q] # 0 => stage'[q] # "new"
                 /\ got'[c][q] # 0 /\ HomeOf[c] # SenderOf[q] =>
                      stage'[q] = "sent" /\ <<q, SenderOf[q]>> \notin inbox'[HomeOf[c]]
      <4>1. CASE q = p
        BY <1>1, <4>1 DEF Copies, ClusterTypeOK
      <4>2. CASE q # p
        BY <1>1, <1>3, <4>2 DEF Copies, ClusterTypeOK
      <4>3. QED
        BY <4>1, <4>2
    <3>3. QED
      BY <3>1, <3>2 DEF Copies
  <2>3. Stayers'
    BY <1>1, <1>3 DEF Stayers, ClusterTypeOK, Clustered
  <2>4. QED
    BY <2>1, <2>2, <2>3
<1>4. CASE Loss /\ lost' = lost \union (Others(p) \X {p}) /\ UNCHANGED inbox
  <2>1. ClusterTypeOK'
    BY <1>1, <1>4 DEF ClusterTypeOK, Others, Loss
  <2>2. Copies'
    BY <1>1, <1>4 DEF Copies, ClusterTypeOK
  <2>3. Stayers'
    BY <1>1, <1>4 DEF Stayers, ClusterTypeOK, Clustered, Others
  <2>4. QED
    BY <2>1, <2>2, <2>3
<1>5. QED
  BY <1>2, <1>3, <1>4 DEF Publish

(* A delivery: the copy leaves the inbox as the connections are given it.   *)
LEMMA OnMessageKeeps ==
  ASSUME ClusterIInv, NEW n \in Nodes, NEW p \in Packets, NEW from \in Nodes,
         OnMessage(n, p, from)
  PROVE  ClusterIInv'
<1> USE ClusterAssumption DEF ClusterIInv
<1> DEFINE L == Local(n, p)
<1>1. /\ <<p, from>> \in inbox[n]
      /\ inbox' = [inbox EXCEPT ![n] = @ \ {<<p, from>>}]
      /\ UNCHANGED <<cluster4, bound, closed, stage, lost, stayed, losses>>
  BY DEF OnMessage
<1>2. from = SenderOf[p] /\ stage[p] = "sent"
  BY <1>1 DEF Copies
<1>3. CASE from = n
  <2>1. UNCHANGED got
    BY <1>3 DEF OnMessage
  <2>2. ClusterTypeOK'
    BY <1>1, <2>1 DEF ClusterTypeOK
  <2>3. Copies'
    BY <1>1, <2>1 DEF Copies, ClusterTypeOK
  <2>4. Stayers'
    BY <1>1, <1>2, <1>3, <2>1 DEF Stayers, ClusterTypeOK, Clustered
  <2>5. QED
    BY <2>2, <2>3, <2>4
<1>4. CASE from # n
  <2>1. L \in SUBSET Conns /\ Give(L, p)
    BY <1>4 DEF OnMessage, Local, ClusterTypeOK
  <2>2. /\ got' \in [Conns -> [Packets -> 0 .. 2]]
        /\ \A c \in Conns, q \in Packets : c \notin L \/ q # p => got'[c][q] = got[c][q]
        /\ \A c \in L : got[c][p] = 0 => got'[c][p] = 1
    BY <2>1, GiveEffect
  <2>3. \A c \in L : c \in bound \intersect Audience[p] /\ HomeOf[c] = n
    BY DEF Local
  <2>4. \A c \in L : c \in Conns /\ got[c][p] = 0
    <3>1. SUFFICES ASSUME NEW c \in L PROVE c \in Conns /\ got[c][p] = 0
      OBVIOUS
    <3>2. c \in Conns /\ HomeOf[c] # SenderOf[p] /\ <<p, SenderOf[p]>> \in inbox[HomeOf[c]]
      BY <1>1, <1>2, <1>4, <2>1, <2>3
    <3>3. QED
      BY <3>2 DEF Copies
  <2>5. ClusterTypeOK'
    BY <1>1, <2>2 DEF ClusterTypeOK
  <2>6. Copies'
    <3>1. ASSUME NEW m \in Nodes, NEW q \in Packets, NEW f \in Nodes, <<q, f>> \in inbox'[m]
          PROVE  f = SenderOf[q] /\ stage'[q] = "sent"
      BY <1>1, <3>1 DEF Copies, ClusterTypeOK
    <3>2. ASSUME NEW c \in Conns, NEW q \in Packets
          PROVE  /\ got'[c][q] <= 1
                 /\ got'[c][q] # 0 => stage'[q] # "new"
                 /\ got'[c][q] # 0 /\ HomeOf[c] # SenderOf[q] =>
                      stage'[q] = "sent" /\ <<q, SenderOf[q]>> \notin inbox'[HomeOf[c]]
      <4>1. CASE q = p /\ c \in L
        BY <1>1, <1>2, <2>2, <2>3, <2>4, <4>1 DEF ClusterTypeOK
      <4>2. CASE q # p \/ c \notin L
        <5>1. got'[c][q] = got[c][q]
          BY <2>2, <4>2
        <5>2. HomeOf[c] \in Nodes /\ inbox'[HomeOf[c]] \subseteq inbox[HomeOf[c]]
          BY <1>1 DEF ClusterTypeOK
        <5>3. QED
          BY <1>1, <5>1, <5>2 DEF Copies, ClusterTypeOK
      <4>3. QED
        BY <4>1, <4>2
    <3>3. QED
      BY <3>1, <3>2 DEF Copies
  <2>7. Stayers'
    <3>1. SUFFICES ASSUME NEW q \in Packets, NEW c \in stayed[q]
                   PROVE  /\ c \in bound \intersect Audience[q]
                          /\ stage[q] # "new"
                          /\ HomeOf[c] = SenderOf[q] => got'[c][q] = 1
                          /\ HomeOf[c] # SenderOf[q] =>
                               \/ stage[q] = "local"
                               \/ ~Clustered(q)
                               \/ <<HomeOf[c], q>> \in lost
                               \/ got'[c][q] = 1
                               \/ <<q, SenderOf[q]>> \in inbox'[HomeOf[c]]
      BY <1>1 DEF Stayers, Clustered
    <3>2. c \in Conns
      BY DEF ClusterTypeOK
    <3>3. CASE q = p /\ c \in L
      BY <1>2, <2>2, <2>3, <2>4, <3>3 DEF Stayers
    <3>4. CASE q # p \/ c \notin L
      <4>1. got'[c][q] = got[c][q]
        BY <2>2, <3>2, <3>4
      <4>2. CASE q = p
        <5>1. HomeOf[c] # n
          BY <3>4, <4>2 DEF Local, Stayers
        <5>2. inbox'[HomeOf[c]] = inbox[HomeOf[c]]
          BY <1>1, <3>2, <5>1 DEF ClusterTypeOK
        <5>3. QED
          BY <4>1, <5>2 DEF Stayers
      <4>3. CASE q # p
        <5>1. <<q, SenderOf[q]>> \in inbox[HomeOf[c]] => <<q, SenderOf[q]>> \in inbox'[HomeOf[c]]
          BY <1>1, <3>2, <4>3 DEF ClusterTypeOK
        <5>2. QED
          BY <4>1, <5>1 DEF Stayers
      <4>4. QED
        BY <4>2, <4>3
    <3>5. QED
      BY <3>3, <3>4
  <2>8. QED
    BY <2>5, <2>6, <2>7
<1>5. QED
  BY <1>3, <1>4

LEMMA MissKeeps ==
  ASSUME ClusterIInv, NEW n \in Nodes, NEW p \in Packets, NEW from \in Nodes, Miss(n, p, from)
  PROVE  ClusterIInv'
<1> USE ClusterAssumption DEF ClusterIInv, Miss
<1>1. from = SenderOf[p]
  BY DEF Copies
<1>2. ClusterTypeOK'
  BY DEF ClusterTypeOK, Loss
<1>3. Copies'
  BY DEF Copies, ClusterTypeOK
<1>4. Stayers'
  BY <1>1 DEF Stayers, ClusterTypeOK, Clustered
<1>5. QED
  BY <1>2, <1>3, <1>4

(* A crash: who stays is at another node, and what the node had not          *)
(* published is lost to it.                                                 *)
LEMMA CrashKeeps ==
  ASSUME ClusterIInv, NEW n \in Nodes, Crash(n) PROVE ClusterIInv'
<1> USE ClusterAssumption DEF ClusterIInv
<1> DEFINE cut == {p \in Packets : SenderOf[p] = n /\ stage[p] = "local"}
           C == {c \in Conns : HomeOf[c] = n}
<1>1. /\ Loss /\ Gone(C)
      /\ stage' = [p \in Packets |-> IF p \in cut THEN "sent" ELSE stage[p]]
      /\ lost' = lost \union (Nodes \X cut) \union {<<n, x[1]>> : x \in inbox[n]}
      /\ inbox' = [inbox EXCEPT ![n] = {}]
      /\ UNCHANGED <<cluster4, got>>
  BY DEF Crash
<1>2. /\ bound' = bound \ C /\ closed' = closed \union C
      /\ stayed' = [p \in Packets |-> stayed[p] \ C]
  BY <1>1 DEF Gone
<1>3. ClusterTypeOK'
  <2>1. lost' \in SUBSET (Nodes \X Packets)
    <3>1. \A x \in inbox[n] : x[1] \in Packets
      BY DEF ClusterTypeOK
    <3>2. QED
      BY <1>1, <3>1 DEF ClusterTypeOK
  <2>2. QED
    BY <1>1, <1>2, <2>1 DEF ClusterTypeOK, Loss
<1>4. Copies'
  BY <1>1 DEF Copies, ClusterTypeOK
<1>5. Stayers'
  <2>1. SUFFICES ASSUME NEW p \in Packets, NEW c \in stayed'[p]
                 PROVE  /\ c \in bound' \intersect Audience[p]
                        /\ stage'[p] # "new"
                        /\ HomeOf[c] = SenderOf[p] => got'[c][p] = 1
                        /\ HomeOf[c] # SenderOf[p] =>
                             \/ stage'[p] = "local"
                             \/ ~Clustered(p)'
                             \/ <<HomeOf[c], p>> \in lost'
                             \/ got'[c][p] = 1
                             \/ <<p, SenderOf[p]>> \in inbox'[HomeOf[c]]
    BY DEF Stayers
  <2>2. c \in stayed[p] /\ c \in Conns /\ HomeOf[c] # n /\ HomeOf[c] \in Nodes
    BY <1>2 DEF ClusterTypeOK
  <2>3. c \in bound' \intersect Audience[p] /\ stage'[p] # "new"
    BY <1>1, <1>2, <2>2 DEF Stayers
  <2>4. HomeOf[c] = SenderOf[p] => got'[c][p] = 1
    BY <1>1, <2>2 DEF Stayers
  <2>5. inbox'[HomeOf[c]] = inbox[HomeOf[c]]
    BY <1>1, <2>2 DEF ClusterTypeOK
  <2>6. stage[p] = "local" => stage'[p] = "local" \/ <<HomeOf[c], p>> \in lost'
    BY <1>1, <2>2
  <2>7. QED
    BY <1>1, <2>2, <2>3, <2>4, <2>5, <2>6 DEF Stayers, Clustered
<1>6. QED
  BY <1>3, <1>4, <1>5
-----------------------------------------------------------------------------
LEMMA ClusterStep == ClusterIInv /\ [ClusterNext]_clusterVars => ClusterIInv'
<1> SUFFICES ASSUME ClusterIInv, [ClusterNext]_clusterVars PROVE ClusterIInv'
  OBVIOUS
<1>1. ASSUME NEW c \in Conns, Bind(c) \/ Unbind(c) PROVE ClusterIInv'
  BY <1>1, BindKeeps, UnbindKeeps
<1>2. ASSUME NEW p \in Packets, SendLocal(p) \/ Publish(p) PROVE ClusterIInv'
  BY <1>2, SendLocalKeeps, PublishKeeps
<1>3. ASSUME NEW n \in Nodes, Handle(n) \/ Crash(n) PROVE ClusterIInv'
  BY <1>3, OnMessageKeeps, CrashKeeps DEF Handle
<1>4. ASSUME NEW n \in Nodes, NEW p \in Packets, NEW from \in Nodes, Miss(n, p, from)
      PROVE  ClusterIInv'
  BY <1>4, MissKeeps
<1>5. CASE UNCHANGED clusterVars
  <2> USE <1>5 DEF clusterVars, ClusterIInv
  <2>1. ClusterTypeOK'
    BY DEF ClusterTypeOK
  <2>2. Copies'
    BY DEF Copies
  <2>3. Stayers'
    BY DEF Stayers, Clustered
  <2>4. QED
    BY <2>1, <2>2, <2>3
<1>6. QED
  BY <1>1, <1>2, <1>3, <1>4, <1>5 DEF ClusterNext

LEMMA ClusterAlways == ClusterSpec => []ClusterIInv
BY ClusterInitial, ClusterStep, PTL DEF ClusterSpec

(* Connections are bound or gone, never both, and everything has its type.  *)
(* (ImAio: t-io's indexes, the copies of a packet.)                         *)
THEOREM ClusterTyped == ClusterSpec => []ClusterTypeOK
<1>1. ClusterIInv => ClusterTypeOK
  BY DEF ClusterIInv
<1>2. QED
  BY <1>1, ClusterAlways, PTL

(* For any nodes, connections and packets, no connection is given a packet  *)
(* twice.  (RedisClusterConfig.onMessage, ImAio.sendToUser, sendToGroup.)   *)
THEOREM NoSecondCopy == ClusterSpec => []AtMostOneCopy
<1>1. ClusterIInv => AtMostOneCopy
  BY DEF ClusterIInv, Copies, AtMostOneCopy
<1>2. QED
  BY <1>1, ClusterAlways, PTL

(* For any nodes, connections and packets, a connection that stays is not   *)
(* passed by, whatever crashes, losses and reconnections of others come in  *)
(* between.  (ImAio.sendToUser and sendToGroup.)                            *)
THEOREM StayersServed == ClusterSpec => []StayersHaveIt
<1>1. ClusterIInv => StayersHaveIt
  <2> SUFFICES ASSUME ClusterIInv,
                      NEW p \in Packets, stage[p] = "sent", ~UnderWay(p),
                      NEW c \in stayed[p]
               PROVE  \/ got[c][p] = 1
                      \/ HomeOf[c] # SenderOf[p] /\ (<<HomeOf[c], p>> \in lost \/ ~Clustered(p))
    BY DEF StayersHaveIt
  <2>1. c \in Conns /\ HomeOf[c] \in Nodes /\ SenderOf[p] \in Nodes
    BY ClusterAssumption DEF ClusterIInv, ClusterTypeOK
  <2>2. <<p, SenderOf[p]>> \notin inbox[HomeOf[c]]
    BY <2>1 DEF UnderWay
  <2>3. QED
    BY <2>1, <2>2 DEF ClusterIInv, Stayers
<1>2. QED
  BY <1>1, ClusterAlways, PTL
=============================================================================
