------------------------------ MODULE RedisLock ------------------------------
(***************************************************************************)
(* The lock of RedisLock.java around the two list operations that use it:   *)
(* JedisTemplate.insertListIfNotExists and batchListPushTail with delOld.   *)
(* A call takes a pooled connection, the lock takes another from the same   *)
(* pool, sets its key if there is none and then, in a second call to Redis, *)
(* the key's expiry.  After a second without the key the lock answers FALSE *)
(* and the list operation goes on without it.  One key, one list of two     *)
(* values per call; processes share Redis, each has its pool.               *)
(***************************************************************************)
EXTENDS Integers, Sequences, FiniteSets

CONSTANTS
  Threads,
  Processes,
  ProcessOf,  \* ProcessOf[t]: the process t runs in
  Nobody,
  PoolSize,   \* maxActive
  MaxCalls,   \* bound on the calls
  MaxFaults   \* bound on failing Redis calls and on crashes

ASSUME LockAssumption ==
  /\ IsFiniteSet(Threads)
  /\ ProcessOf \in [Threads -> Processes]
  /\ Nobody \notin Threads
  /\ PoolSize \in Nat \ {0} /\ MaxCalls \in Nat /\ MaxFaults \in Nat

VARIABLES
  holder,   \* whose setnx made the lock's key, or Nobody without a key
  expires,  \* the key has an expiry
  list,     \* what Redis holds: pairs <<thread, which of its two values>>
  pc,       \* pc[t]: what t does next
  kind,     \* kind[t]: "insert" or "replace"
  locked,   \* locked[t]: RedisLock.locked
  free,     \* free[p]: connections left in p's pool
  leaked,   \* history: leaked[p]: connections never given back
  calls, faults,
  expired,  \* history: a lock's key has expired
  torn      \* history: a call has worked without owning the key, or wrote half

lockVars == <<holder, expires, list, pc, kind, locked, free, leaked, calls, faults,
              expired, torn>>

Section == {"exists", "insert", "del", "push1", "push2", "unlock"}
Steps == {"idle", "first", "second", "setnx", "expire"} \union Section

LockTypeOK ==
  /\ holder \in Threads \union {Nobody}
  /\ expires \in BOOLEAN
  /\ list \in Seq(Threads \X {1, 2})
  /\ pc \in [Threads -> Steps]
  /\ kind \in [Threads -> {"insert", "replace"}]
  /\ locked \in [Threads -> BOOLEAN]
  /\ free \in [Processes -> 0 .. PoolSize]
  /\ leaked \in [Processes -> 0 .. PoolSize]
  /\ calls \in 0 .. MaxCalls /\ faults \in 0 .. MaxFaults
  /\ expired \in BOOLEAN /\ torn \in BOOLEAN

LockInit ==
  /\ holder = Nobody /\ expires = FALSE
  /\ list = <<>>
  /\ pc = [t \in Threads |-> "idle"]
  /\ kind = [t \in Threads |-> "insert"]
  /\ locked = [t \in Threads |-> FALSE]
  /\ free = [p \in Processes |-> PoolSize]
  /\ leaked = [p \in Processes |-> 0]
  /\ calls = 0 /\ faults = 0
  /\ expired = FALSE /\ torn = FALSE
-----------------------------------------------------------------------------
Goes(t, there) == pc' = [pc EXCEPT ![t] = there]
Works == UNCHANGED faults
Fails == faults < MaxFaults /\ faults' = faults + 1

Take(t) == free[ProcessOf[t]] > 0 /\ free' = [free EXCEPT ![ProcessOf[t]] = @ - 1]
GiveBack(t, n) == free' = [free EXCEPT ![ProcessOf[t]] = @ + n]

\* t works on the list: without the lock and its key nothing keeps others out.
Touches(t) == torn' = (torn \/ ~locked[t] \/ holder # t)

theKey == <<holder, expires>>
pool == <<free, leaked>>
history == <<expired, torn>>
-----------------------------------------------------------------------------
(* Executor and the constructor of RedisLock.                               *)

Begin(t, k) ==
  /\ pc[t] = "idle" /\ calls < MaxCalls
  /\ calls' = calls + 1
  /\ kind' = [kind EXCEPT ![t] = k]
  /\ locked' = [locked EXCEPT ![t] = FALSE]
  /\ Goes(t, "first")
  /\ UNCHANGED <<theKey, list, pool, faults, history>>

First(t) ==
  /\ pc[t] = "first"
  /\ Take(t)
  /\ Goes(t, "second")
  /\ UNCHANGED <<theKey, list, kind, locked, leaked, calls, faults, history>>

Second(t) ==
  /\ pc[t] = "second"
  /\ Take(t)
  /\ Goes(t, "setnx")
  /\ UNCHANGED <<theKey, list, kind, locked, leaked, calls, faults, history>>

\* maxWait is over: getResource throws.
\* (Mutants: the lock's wait is without an end; a connection that was never
\* taken is given back.)
PoolTimeout_First(t) ==
  /\ pc[t] = "first" /\ free[ProcessOf[t]] = 0
  /\ Goes(t, "idle")
  /\ UNCHANGED <<theKey, list, kind, locked, pool, calls, faults, history>>
PoolTimeout_Gives(t) ==
  /\ pc[t] \in {"first", "second"} /\ free[ProcessOf[t]] = 0
  /\ GiveBack(t, 1)
  /\ Goes(t, "idle")
  /\ UNCHANGED <<theKey, list, kind, locked, leaked, calls, faults, history>>

PoolTimeout(t) ==
  /\ pc[t] \in {"first", "second"} /\ free[ProcessOf[t]] = 0
  /\ GiveBack(t, IF pc[t] = "second" THEN 1 ELSE 0)
  /\ Goes(t, "idle")
  /\ UNCHANGED <<theKey, list, kind, locked, leaked, calls, faults, history>>

(* lock(), called outside the try: when it throws the Executor gives its own *)
(* connection back and nobody the lock's.                                   *)

LockThrows(t) ==
  /\ GiveBack(t, 1)
  /\ leaked' = [leaked EXCEPT ![ProcessOf[t]] = @ + 1]
  /\ Goes(t, "idle")

Enters(t) == Goes(t, IF kind[t] = "insert" THEN "exists" ELSE "del")

\* A try that finds the key only makes the thread sleep.
SetNx(t) ==
  /\ pc[t] = "setnx"
  /\ \/ /\ Works /\ holder = Nobody
        /\ holder' = t /\ expires' = FALSE
        /\ Goes(t, "expire")
        /\ UNCHANGED pool
     \/ /\ Fails  \* perhaps only the answer is lost
        /\ \/ UNCHANGED theKey
           \/ holder = Nobody /\ holder' = t /\ expires' = FALSE
        /\ LockThrows(t)
  /\ UNCHANGED <<list, kind, locked, calls, history>>

\* The timeout; both callers ignore the answer FALSE.
GiveUp(t) ==
  /\ pc[t] = "setnx"
  /\ Enters(t)
  /\ UNCHANGED <<theKey, list, kind, locked, pool, calls, faults, history>>

\* EXPIRE takes whichever key is there.  (Mutant: it is not called.)
SetExpire_Not(t) ==
  /\ pc[t] = "expire"
  /\ locked' = [locked EXCEPT ![t] = TRUE]
  /\ Enters(t)
  /\ UNCHANGED <<theKey, list, kind, pool, calls, faults, history>>

SetExpire(t) ==
  /\ pc[t] = "expire"
  /\ \/ /\ Works
        /\ expires' = (holder # Nobody)
        /\ locked' = [locked EXCEPT ![t] = TRUE]
        /\ Enters(t)
        /\ UNCHANGED pool
     \/ /\ Fails
        /\ UNCHANGED <<expires, locked>>
        /\ LockThrows(t)
  /\ UNCHANGED <<holder, list, kind, calls, history>>

KeyExpires ==
  /\ holder # Nobody /\ expires
  /\ holder' = Nobody /\ expires' = FALSE
  /\ expired' = TRUE
  /\ UNCHANGED <<list, pc, kind, locked, pool, calls, faults, torn>>
-----------------------------------------------------------------------------
(* What the lock is for.  A failing call goes to unlock too, and throws      *)
(* afterwards.                                                              *)

BreaksOff(t) ==
  /\ pc[t] \in {"exists", "insert", "del", "push1", "push2"}
  /\ Fails
  /\ torn' = (torn \/ pc[t] = "push2")
  /\ Goes(t, "unlock")
  /\ UNCHANGED <<theKey, list, kind, locked, pool, calls, expired>>

OnList(t, from, to) ==
  /\ pc[t] = from
  /\ Goes(t, to)
  /\ Touches(t)
  /\ UNCHANGED <<theKey, kind, locked, pool, calls, faults, expired>>

\* (Mutant: the answer of exists is not looked at.)
Exists_Always(t) == OnList(t, "exists", "insert") /\ UNCHANGED list

Exists(t) == OnList(t, "exists", IF list = <<>> THEN "insert" ELSE "unlock") /\ UNCHANGED list
Insert(t) == OnList(t, "insert", "unlock") /\ list' = list \o <<<<t, 1>>, <<t, 2>>>>

\* The pipeline's commands; other clients' may come between them.
Del(t) == OnList(t, "del", "push1") /\ list' = <<>>
Push1(t) == OnList(t, "push1", "push2") /\ list' = Append(list, <<t, 1>>)
Push2(t) == OnList(t, "push2", "unlock") /\ list' = Append(list, <<t, 2>>)

\* unlock() deletes the key, whosever it is by now, if lock() got one.
\* (Mutants: it deletes it in any case; it gives the lock's connection back
\* only with the key.)
UnlockAnyway(t) ==
  /\ pc[t] = "unlock"
  /\ holder' = Nobody /\ expires' = FALSE
  /\ GiveBack(t, 2)
  /\ Goes(t, "idle")
  /\ UNCHANGED <<list, kind, locked, leaked, calls, faults, history>>
UnlockLocked(t) ==
  /\ pc[t] = "unlock"
  /\ IF locked[t] THEN holder' = Nobody /\ expires' = FALSE ELSE UNCHANGED theKey
  /\ GiveBack(t, IF locked[t] THEN 2 ELSE 1)
  /\ Goes(t, "idle")
  /\ UNCHANGED <<list, kind, locked, leaked, calls, faults, history>>

Unlock(t) ==
  /\ pc[t] = "unlock"
  /\ \/ Works /\ locked[t] /\ holder' = Nobody /\ expires' = FALSE
     \/ Works /\ ~locked[t] /\ UNCHANGED theKey
     \/ Fails /\ locked[t] /\ UNCHANGED theKey
  /\ GiveBack(t, 2)
  /\ Goes(t, "idle")
  /\ UNCHANGED <<list, kind, locked, leaked, calls, history>>

\* The process stops: its connections go, the key and the list stay.
LockCrash(p) ==
  LET dead == {t \in Threads : ProcessOf[t] = p} IN
  /\ \E t \in dead : pc[t] # "idle"
  /\ Fails
  /\ pc' = [t \in Threads |-> IF t \in dead THEN "idle" ELSE pc[t]]
  /\ free' = [free EXCEPT ![p] = PoolSize]
  /\ leaked' = [leaked EXCEPT ![p] = 0]
  /\ torn' = (torn \/ \E t \in dead : pc[t] = "push2")
  /\ UNCHANGED <<theKey, list, kind, locked, calls, expired>>
-----------------------------------------------------------------------------
LockCall(t) ==
  \/ First(t) \/ Second(t) \/ PoolTimeout(t)
  \/ SetNx(t) \/ GiveUp(t) \/ SetExpire(t)
  \/ Exists(t) \/ Insert(t) \/ Del(t) \/ Push1(t) \/ Push2(t) \/ BreaksOff(t)
  \/ Unlock(t)

LockNext ==
  \/ \E t \in Threads, k \in {"insert", "replace"} : Begin(t, k)
  \/ \E t \in Threads : LockCall(t)
  \/ KeyExpires
  \/ \E p \in Processes : LockCrash(p)

\* A call goes on: maxWait and the lock's timeout are finite.
LockFairness == \A t \in Threads : WF_lockVars(LockCall(t))

LockSpec == LockInit /\ [][LockNext]_lockVars
-----------------------------------------------------------------------------
(* Until a key has expired, a thread that was given the lock keeps it to    *)
(* the end of its call: nobody else has it or can delete it.                *)
(* (RedisLock.unlock deletes without asking whose the key is.)              *)
LockIsKept ==
  ~expired => \A t \in Threads : pc[t] \in Section /\ locked[t] => holder = t

(* While every call owned the key it worked under, and none wrote half, the  *)
(* list is what one call wrote.  (insertListIfNotExists and                 *)
(* batchListPushTail: several Redis calls made one by the lock.)            *)
ListIsOneCalls ==
  ~torn /\ (\A t \in Threads : pc[t] \notin Section) =>
    list = <<>> \/ \E t \in Threads : list = <<<<t, 1>>, <<t, 2>>>>

(* A pool with no call at work is whole, but for the connections of locks   *)
(* whose lock() threw.  (Executor.getResult, RedisLock.unlock.)             *)
PoolIsWhole ==
  \A p \in Processes :
    (\A t \in Threads : ProcessOf[t] = p => pc[t] = "idle") =>
      free[p] + leaked[p] = PoolSize

(* A key that cannot expire belongs to a call about to give it an expiry,   *)
(* unless a call of Redis has failed or a process crashed: then it stays    *)
(* for good and every later call works without the lock.  (RedisLock.lock:  *)
(* setnx and expire are two calls.)                                         *)
KeyGetsExpiry ==
  holder # Nobody /\ ~expires /\ faults = 0 => \E t \in Threads : pc[t] = "expire"

(* Once no more are made, all calls come to an end, though callers wait     *)
(* for one another's connections and keys.  (Executor and RedisLock take    *)
(* two connections of one pool, one after the other.)                       *)
CallsReturn == (\E t \in Threads : pc[t] # "idle") ~> (\A t \in Threads : pc[t] = "idle")
=============================================================================
