------------------------------ MODULE ExpireTask ------------------------------
(***************************************************************************)
(* How reading an entry is to keep it in Redis: a cache registered with an  *)
(* idle time answers a read from Caffeine or from Redis and queues the key;  *)
(* the thread of RedisExpireUpdateTask collects what is queued and sends    *)
(* EXPIRE for it.  One cache, one node, time in ticks.  The thread looks    *)
(* every five seconds: an idle time is long against that, so no tick passes *)
(* while it has work, unless Redis fails it.                                *)
(***************************************************************************)
EXTENDS Integers, Sequences

CONSTANTS
  EntryKeys,
  Idle,        \* timeToIdleSeconds, with no timeToLiveSeconds: timeout
  LocalIdle,   \* the same for Caffeine: at most MAX_EXPIRE_IN_LOCAL
  MaxQueue,    \* bound on redisExpireVoQueue and the batch together
  MaxBreaks    \* bound on the failing batches

ASSUME ExpireAssumption ==
  /\ Idle \in Nat \ {0} /\ LocalIdle \in 1 .. Idle
  /\ MaxQueue \in Nat /\ MaxBreaks \in Nat

\* A key's names in Redis: RedisCache.cacheKey, under which it is stored, and
\* the key alone.
CacheKey(k) == <<"cacheName:", k>>
BareKey(k) == <<k>>
Names == {CacheKey(k) : k \in EntryKeys} \union {BareKey(k) : k \in EntryKeys}

VARIABLES
  local,   \* local[k]: ticks that k has left in Caffeine; 0 without
  ttl,     \* ttl[name]: the same in Redis
  asked,   \* redisExpireVoQueue: keys
  l2Datas, \* the batch: keys
  age,     \* history: age[k]: ticks since k was last read or put, up to Idle
  owed,    \* history: keys read since Redis last took an EXPIRE for them
  breaks

expireVars == <<local, ttl, asked, l2Datas, age, owed, breaks>>

ExpireTypeOK ==
  /\ local \in [EntryKeys -> 0 .. LocalIdle]
  /\ ttl \in [Names -> 0 .. Idle]
  /\ asked \in Seq(EntryKeys) /\ l2Datas \in Seq(EntryKeys)
  /\ age \in [EntryKeys -> 0 .. Idle]
  /\ owed \in SUBSET EntryKeys
  /\ breaks \in 0 .. MaxBreaks

ExpireInit ==
  /\ local = [k \in EntryKeys |-> 0]
  /\ ttl = [name \in Names |-> 0]
  /\ asked = <<>> /\ l2Datas = <<>>
  /\ age = [k \in EntryKeys |-> Idle]
  /\ owed = {} /\ breaks = 0
-----------------------------------------------------------------------------
Touch(k) ==
  /\ local' = [local EXCEPT ![k] = LocalIdle]
  /\ age' = [age EXCEPT ![k] = 0]

\* CaffeineRedisCache.put.
PutEntry(k) ==
  /\ Touch(k)
  /\ ttl' = [ttl EXCEPT ![CacheKey(k)] = Idle]
  /\ UNCHANGED <<asked, l2Datas, owed, breaks>>

\* CaffeineRedisCache.get: from Caffeine, or from Redis (RedisCache.get) and
\* then put into Caffeine; RedisExpireUpdateTask.add either way.
GetEntry(k) ==
  /\ local[k] > 0 \/ ttl[CacheKey(k)] > 0
  /\ Len(asked) + Len(l2Datas) < MaxQueue
  /\ Touch(k)
  /\ asked' = Append(asked, k)
  /\ owed' = owed \union {k}
  /\ UNCHANGED <<ttl, l2Datas, breaks>>

\* RedisExpireUpdateTask.run: a turn of the loop that finds a key.
PollKey ==
  /\ asked # <<>>
  /\ asked' = Tail(asked)
  /\ l2Datas' = Append(l2Datas, Head(asked))
  /\ UNCHANGED <<local, ttl, age, owed, breaks>>

\* ... and one that finds none: batchSetExpire sends EXPIRE with the key of
\* the ExpireVo, not the cacheKey.  EXPIRE does nothing to a name that is not there.
Collected == {l2Datas[i] : i \in DOMAIN l2Datas}
Expired(K) ==
  [name \in Names |-> IF name \in {BareKey(k) : k \in K} /\ ttl[name] > 0 THEN Idle ELSE ttl[name]]

\* (Mutant: the batch is dropped though Redis failed.)
Flush_Dropped ==
  /\ asked = <<>> /\ l2Datas # <<>>
  /\ l2Datas' = <<>>
  /\ \/ ttl' = Expired(Collected) /\ owed' = owed \ Collected /\ UNCHANGED breaks
     \/ breaks < MaxBreaks /\ breaks' = breaks + 1 /\ UNCHANGED <<ttl, owed>>
  /\ UNCHANGED <<local, asked, age>>

Flush ==
  /\ asked = <<>> /\ l2Datas # <<>>
  /\ \/ /\ ttl' = Expired(Collected)
        /\ owed' = owed \ Collected
        /\ l2Datas' = <<>>
        /\ UNCHANGED breaks
     \/ /\ breaks < MaxBreaks /\ breaks' = breaks + 1  \* perhaps only the answer is lost
        /\ ttl' \in {ttl, Expired(Collected)}
        /\ UNCHANGED <<l2Datas, owed>>
  /\ UNCHANGED <<local, asked, age>>

Less(n) == IF n > 0 THEN n - 1 ELSE 0
Tick ==
  /\ asked = <<>> /\ l2Datas = <<>>
  /\ local' = [k \in EntryKeys |-> Less(local[k])]
  /\ ttl' = [name \in Names |-> Less(ttl[name])]
  /\ age' = [k \in EntryKeys |-> IF age[k] < Idle THEN age[k] + 1 ELSE Idle]
  /\ UNCHANGED <<asked, l2Datas, owed, breaks>>
-----------------------------------------------------------------------------
ExpireNext ==
  \/ \E k \in EntryKeys : PutEntry(k) \/ GetEntry(k)
  \/ PollKey \/ Flush \/ Tick

ExpireSpec == ExpireInit /\ [][ExpireNext]_expireVars
-----------------------------------------------------------------------------
(* When the task has caught up, Redis has taken an EXPIRE for every read,   *)
(* failing batches and the reads that came during them included.            *)
(* (RedisExpireUpdateTask.run: l2Datas is kept when batchSetExpire throws.) *)
NoReadIsLost == asked = <<>> /\ l2Datas = <<>> => owed = {}

(* What the comment at CaffeineRedisCache.get and the name of the task say: *)
(* an entry that is read goes on living in Redis, so one read or put within *)
(* its idle time is there.  It does not hold: EXPIRE names the bare key.    *)
ReadKeepsAlive == \A k \in EntryKeys : age[k] < Idle => ttl[CacheKey(k)] > 0
=============================================================================
