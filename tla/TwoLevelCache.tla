--------------------------- MODULE TwoLevelCache ---------------------------
(***************************************************************************)
(* CaffeineRedisCache on several nodes: every node keeps entries in its own *)
(* memory (L1, Caffeine) in front of Redis (L2).  A write goes to the       *)
(* writer's L1, then to L2, then a message on a topic tells the other nodes *)
(* to drop the key; putL2Async writes L1, queues the pair and leaves the    *)
(* rest to a thread that works off the queue.  None of these steps is       *)
(* atomic with another, the topic reaches only who is subscribed, and a     *)
(* node ignores its own messages.                                           *)
(*                                                                          *)
(* An entry that differs from L2 is either on its way to be dropped or      *)
(* written, or it is `spoilt': one of the races or losses that the actions  *)
(* below name has made it wrong for as long as it lives.                    *)
(***************************************************************************)
EXTENDS Integers, Sequences

CONSTANTS
  Nodes,      \* server processes, each with a CLIENTID of its own
  Threads,    \* threads that use the cache
  Homes,      \* ways to place the threads in the nodes
  Keys,
  None,       \* null
  MaxCalls,   \* bound on the writing calls; the i-th, if a put, writes value i
  MaxFaults   \* bound on the failing Redis calls and broken subscriptions

Values == 1 .. MaxCalls

ASSUME CacheAssumption ==
  /\ Homes \in SUBSET [Threads -> Nodes]
  /\ None \notin Values
  /\ MaxCalls \in Nat /\ MaxFaults \in Nat

VARIABLES
  l1,       \* l1[n][k]: n's Caffeine entry, or None
  l2,       \* l2[k]: the entry in Redis, or None
  op,       \* op[t]: the call at work in t, see Ops
  queue,    \* queue[n]: redisL2VoQueue, pairs <<k, v>>
  batch,    \* batch[n]: pairMap and cacheChangeVos
  at,       \* at[n]: 0 while the queue is polled, else the pair of the batch
            \*   that putAll writes next; past the last one: publishAll
  sub,      \* the nodes whose subscription stands
  chan,     \* chan[n]: messages on their way to n's subscriber
  home,     \* home[t]: the node t runs in
  reads,    \* reads[k]: what a subscriber makes of a message about k
  calls, faults,
  spoilt    \* history: <<n, k>>, see above

entries == <<l1, l2, spoilt>>
async == <<queue, batch, at>>
topic == <<sub, chan>>
bounds == <<calls, faults>>
given == <<home, reads>>
cacheVars == <<entries, op, async, topic, bounds, given>>

Calls == [pc: {"idle", "fill", "l2", "publish"},
          keys: SUBSET Keys,           \* one key; all of them for clear
          val: Values \union {None},   \* read from L2, or to be written to it
          clear: BOOLEAN,
          old: BOOLEAN]                \* L2 has been written since it was read
AsyncPuts == [pc: {"queue"}, keys: {{k} : k \in Keys}, val: Values, clear: {FALSE}, old: {FALSE}]
Ops == Calls \union AsyncPuts
Idle == [pc |-> "idle", keys |-> {}, val |-> None, clear |-> FALSE, old |-> FALSE]

Msgs == [keys: SUBSET Keys, clear: BOOLEAN, from: Nodes]

\* The fields of a message are told apart by colons.  Of a key with a colon in
\* it the subscriber takes the first part for the key and the second for the
\* type: it throws unless that is a number ("a:x"); otherwise it goes on with
\* that key ("a:1"), with all of them ("a:4" reads as CLEAR) or with none.
Readings ==
  {f \in [Keys -> [as: {"key", "throws", "number"}, drops: SUBSET Keys]] :
    \A k \in Keys :
      IF f[k].as = "number"
        THEN f[k].drops \in {{}, Keys} \union {{j} : j \in {i \in Keys : f[i].as = "key"}}
        ELSE f[k].drops = {}}

CacheTypeOK ==
  /\ l1 \in [Nodes -> [Keys -> Values \union {None}]]
  /\ l2 \in [Keys -> Values \union {None}]
  /\ op \in [Threads -> Ops]
  /\ queue \in [Nodes -> Seq(Keys \X Values)]
  /\ batch \in [Nodes -> Seq(Keys \X Values)]
  /\ DOMAIN at = Nodes /\ \A n \in Nodes : at[n] \in 0 .. Len(batch[n]) + 1
  /\ sub \in SUBSET Nodes
  /\ chan \in [Nodes -> Seq(Msgs)]
  /\ calls \in 0 .. MaxCalls /\ faults \in 0 .. MaxFaults
  /\ home \in Homes /\ reads \in Readings
  /\ spoilt \in SUBSET (Nodes \X Keys)

CacheInit ==
  /\ l1 = [n \in Nodes |-> [k \in Keys |-> None]]
  /\ l2 = [k \in Keys |-> None]
  /\ op = [t \in Threads |-> Idle]
  /\ queue = [n \in Nodes |-> <<>>]
  /\ batch = [n \in Nodes |-> <<>>]
  /\ at = [n \in Nodes |-> 0]
  /\ sub = Nodes
  /\ chan = [n \in Nodes |-> <<>>]
  /\ calls = 0 /\ faults = 0
  /\ home \in Homes /\ reads \in Readings
  /\ spoilt = {}
-----------------------------------------------------------------------------
Works == UNCHANGED faults
Fails == faults < MaxFaults /\ faults' = faults + 1

Holds(q, k) == \E i \in DOMAIN q : q[i][1] = k

\* Writes of k by n that have yet to reach L2, or may reach it once more: a
\* batch is written again when its publication fails.
SyncPending(n, k) == \E t \in Threads : home[t] = n /\ op[t].pc = "l2" /\ k \in op[t].keys
AsyncPending(n, k) == Holds(queue[n], k) \/ Holds(batch[n], k)

\* The entries of K in n are v from now on; S are those this leaves spoilt.
SetL1(n, K, v, S) ==
  /\ l1' = [l1 EXCEPT ![n] = [k \in Keys |-> IF k \in K THEN v ELSE @[k]]]
  /\ spoilt' = (spoilt \ ({n} \X K)) \union ({n} \X S)

\* L2 holds v under K from now on: what was read there before is old.
SetL2(K, v) == l2' = [k \in Keys |-> IF k \in K THEN v ELSE l2[k]]
Aged(o, K) == [t \in Threads |->
  IF o[t].pc = "fill" /\ o[t].keys \intersect K # {} THEN [o[t] EXCEPT !.old = TRUE] ELSE o[t]]

\* The entries that a message about K, lost on its way to the nodes in L,
\* would have dropped.
Missed(L, K) == {p \in L \X K : l1[p[1]][p[2]] # None}

-----------------------------------------------------------------------------
(* CaffeineRedisCache.get.  A hit changes nothing here (it has the expiry   *)
(* in Redis put off), nor does a miss in both.                              *)

GetMiss(t, k) ==
  /\ op[t].pc = "idle"
  /\ l1[home[t]][k] = None /\ l2[k] # None
  /\ op' = [op EXCEPT ![t] = [Idle EXCEPT !.pc = "fill", !.keys = {k}, !.val = l2[k]]]
  /\ UNCHANGED <<entries, async, topic, bounds>>

\* The value read is put into L1, whatever has happened to the key since.
Fill(t) ==
  LET n == home[t]
      K == op[t].keys IN
  /\ op[t].pc = "fill"
  /\ SetL1(n, K, op[t].val,
       {k \in K : op[t].old \/ SyncPending(n, k) \/ AsyncPending(n, k)})
  /\ op' = [op EXCEPT ![t] = Idle]
  /\ UNCHANGED <<l2, async, topic, bounds>>

(* put, remove and clear.                                                   *)

Put(t, k) ==
  LET n == home[t] IN
  /\ op[t].pc = "idle" /\ calls < MaxCalls
  /\ calls' = calls + 1
  /\ SetL1(n, {k}, calls', IF SyncPending(n, k) \/ AsyncPending(n, k) THEN {k} ELSE {})
  /\ op' = [op EXCEPT ![t] = [Idle EXCEPT !.pc = "l2", !.keys = {k}, !.val = calls']]
  /\ UNCHANGED <<l2, async, topic, faults>>

Drop(t, K, c) ==
  /\ op[t].pc = "idle" /\ calls < MaxCalls
  /\ calls' = calls + 1
  /\ SetL1(home[t], K, None, {})
  /\ op' = [op EXCEPT ![t] = [Idle EXCEPT !.pc = "l2", !.keys = K, !.clear = c]]
  /\ UNCHANGED <<l2, async, topic, faults>>

Remove(t, k) == Drop(t, {k}, FALSE)
Clear(t) == Drop(t, Keys, TRUE)

\* RedisCache catches what goes wrong: the call goes on and publishes.
WriteL2(t) ==
  LET n == home[t]
      K == op[t].keys
      next(o) == [o EXCEPT ![t].pc = "publish"] IN
  /\ op[t].pc = "l2"
  /\ \/ /\ Works /\ SetL2(K, op[t].val)
        /\ op' = next(Aged(op, K))
        /\ UNCHANGED spoilt
     \/ /\ Fails /\ UNCHANGED l2
        /\ op' = next(op)
        /\ spoilt' = spoilt \union Missed({n}, K)
  /\ UNCHANGED <<l1, async, topic, calls>>

\* A message goes to everyone subscribed; the other nodes miss it.
Send(n, ms) ==
  /\ chan' = [m \in Nodes |-> IF m \in sub THEN chan[m] \o ms ELSE chan[m]]
  /\ UNCHANGED sub

Publish(t) ==
  LET n == home[t]
      K == op[t].keys IN
  /\ op[t].pc = "publish"
  /\ \/ /\ Works
        /\ Send(n, <<[keys |-> K, clear |-> op[t].clear, from |-> n]>>)
        /\ spoilt' = spoilt \union Missed(Nodes \ (sub \union {n}), K)
     \/ /\ Fails /\ UNCHANGED topic
        /\ spoilt' = spoilt \union Missed(Nodes \ {n}, K)
  /\ op' = [op EXCEPT ![t] = Idle]
  /\ UNCHANGED <<l1, l2, async, calls>>
-----------------------------------------------------------------------------
(* putL2Async and RedisAsyncRunnable.run.  Other threads may put, fill and  *)
(* queue between the two statements of putL2Async: when the entry is        *)
(* another by then, and no thread is still to queue that one, L2 may keep   *)
(* what is queued here and the node, which ignores its own message, the     *)
(* other.                                                                   *)

PutAsync(t, k) ==
  LET n == home[t] IN
  /\ op[t].pc = "idle" /\ calls < MaxCalls
  /\ calls' = calls + 1
  /\ SetL1(n, {k}, calls', IF SyncPending(n, k) THEN {k} ELSE {})
  /\ op' = [op EXCEPT ![t] = [Idle EXCEPT !.pc = "queue", !.keys = {k}, !.val = calls']]
  /\ UNCHANGED <<l2, async, topic, faults>>

\* r is about to queue the entry of k in n.
Queues(r, n, k) ==
  home[r] = n /\ op[r].pc = "queue" /\ k \in op[r].keys /\ op[r].val = l1[n][k]

Crossed(t, k) ==
  LET n == home[t] IN
  /\ l1[n][k] \notin {None, op[t].val}
  /\ \A r \in Threads \ {t} : ~Queues(r, n, k)

Enqueue(t) ==
  LET n == home[t] IN
  /\ op[t].pc = "queue"
  /\ \E k \in op[t].keys :
       /\ queue' = [queue EXCEPT ![n] = Append(@, <<k, op[t].val>>)]
       /\ spoilt' = spoilt \union (IF Crossed(t, k) THEN {<<n, k>>} ELSE {})
  /\ op' = [op EXCEPT ![t] = Idle]
  /\ UNCHANGED <<l1, l2, batch, at, topic, bounds>>

Poll(n) ==
  /\ at[n] = 0 /\ queue[n] # <<>>
  /\ batch' = [batch EXCEPT ![n] = Append(@, Head(queue[n]))]
  /\ queue' = [queue EXCEPT ![n] = Tail(@)]
  /\ UNCHANGED <<entries, op, at, topic, bounds>>

\* poll answers null: the batch is written.  (Mutant: a count of one is taken
\* for none.)
FlushStart_Two(n) ==
  /\ at[n] = 0 /\ queue[n] = <<>> /\ Len(batch[n]) > 1
  /\ at' = [at EXCEPT ![n] = 1]
  /\ UNCHANGED <<entries, op, queue, batch, topic, bounds>>

FlushStart(n) ==
  /\ at[n] = 0 /\ queue[n] = <<>> /\ batch[n] # <<>>
  /\ at' = [at EXCEPT ![n] = 1]
  /\ UNCHANGED <<entries, op, queue, batch, topic, bounds>>

\* putAll sends its pairs down one pipeline; other clients' commands may come
\* between them.  When it fails the rest is not written.
WriteBatch(n) ==
  LET p == batch[n][at[n]] IN
  /\ at[n] \in DOMAIN batch[n]
  /\ \/ /\ Works /\ SetL2({p[1]}, p[2])
        /\ op' = Aged(op, {p[1]})
        /\ at' = [at EXCEPT ![n] = @ + 1]
        /\ UNCHANGED spoilt
     \/ /\ Fails /\ UNCHANGED <<l2, op>>
        /\ at' = [at EXCEPT ![n] = Len(batch[n]) + 1]
        /\ spoilt' = spoilt \union
             Missed({n}, {batch[n][i][1] : i \in at[n] .. Len(batch[n])})
  /\ UNCHANGED <<l1, queue, batch, topic, calls>>

\* publishAll; when it throws the batch is kept and written again.
\* (Mutants: it is cleared all the same; the count is not reset.)
Announced(n) ==
  [i \in DOMAIN batch[n] |-> [keys |-> {batch[n][i][1]}, clear |-> FALSE, from |-> n]]

PublishBatch_Cleared(n) ==
  /\ at[n] > Len(batch[n])
  /\ \/ Works /\ Send(n, Announced(n))
     \/ Fails /\ UNCHANGED topic
  /\ batch' = [batch EXCEPT ![n] = <<>>]
  /\ at' = [at EXCEPT ![n] = 0]
  /\ UNCHANGED <<entries, op, queue, calls>>
PublishBatch_NoReset(n) ==
  /\ at[n] > Len(batch[n])
  /\ Works /\ Send(n, Announced(n))
  /\ batch' = [batch EXCEPT ![n] = <<>>]
  /\ UNCHANGED <<entries, op, queue, at, calls>>

PublishBatch(n) ==
  /\ at[n] > Len(batch[n])
  /\ \/ /\ Works
        /\ Send(n, Announced(n))
        /\ spoilt' = spoilt \union
             Missed(Nodes \ (sub \union {n}), {p[1] : p \in {batch[n][i] : i \in DOMAIN batch[n]}})
        /\ batch' = [batch EXCEPT ![n] = <<>>]
     \/ /\ Fails /\ UNCHANGED <<topic, spoilt, batch>>
  /\ at' = [at EXCEPT ![n] = 0]
  /\ UNCHANGED <<l1, l2, op, queue, calls>>
-----------------------------------------------------------------------------
(* SubRunnable.run and JedisSubscriber.onMessage.                           *)

ReadAs(m, kind) == ~m.clear /\ \E k \in m.keys : reads[k].as = kind
Readable(m) == ~ReadAs(m, "throws") /\ ~ReadAs(m, "number")

\* (Mutant: the node drops what it published itself and nothing else.)
OnMessage_Own(n) ==
  LET m == Head(chan[n]) IN
  /\ chan[n] # <<>> /\ Readable(m)
  /\ IF m.from = n THEN SetL1(n, m.keys, None, {}) ELSE UNCHANGED <<l1, spoilt>>
  /\ chan' = [chan EXCEPT ![n] = Tail(@)]
  /\ UNCHANGED <<l2, op, async, sub, bounds>>

OnMessage(n) ==
  LET m == Head(chan[n]) IN
  /\ chan[n] # <<>> /\ Readable(m)
  /\ IF m.from = n THEN UNCHANGED <<l1, spoilt>> ELSE SetL1(n, m.keys, None, {})
  /\ chan' = [chan EXCEPT ![n] = Tail(@)]
  /\ UNCHANGED <<l2, op, async, sub, bounds>>

\* The subscription ends; what had not been handled is gone.
Unsubscribed(n) ==
  /\ sub' = sub \ {n}
  /\ chan' = [chan EXCEPT ![n] = <<>>]
  /\ spoilt' = spoilt \union
       Missed({n}, UNION {chan[n][i].keys : i \in {j \in DOMAIN chan[n] : chan[n][j].from # n}})

\* Parsing the type throws, be the message the node's own, and that ends
\* subscribe().
Misread(n) ==
  /\ chan[n] # <<>> /\ ReadAs(Head(chan[n]), "throws")
  /\ Unsubscribed(n)
  /\ UNCHANGED <<l1, l2, op, async, bounds>>

\* The type is taken for the sender: no node takes the message for its own,
\* and what it is about stays where it is.
Mistaken(n) ==
  LET m == Head(chan[n])
      K == UNION {reads[k].drops : k \in m.keys} IN
  /\ chan[n] # <<>> /\ ~ReadAs(m, "throws") /\ ReadAs(m, "number")
  /\ SetL1(n, K, None, {k \in m.keys \ K : m.from # n /\ l1[n][k] # None})
  /\ chan' = [chan EXCEPT ![n] = Tail(@)]
  /\ UNCHANGED <<l2, op, async, sub, bounds>>

LoseTopic(n) ==
  /\ n \in sub /\ Fails
  /\ Unsubscribed(n)
  /\ UNCHANGED <<l1, l2, op, async, calls>>

\* The loop of SubRunnable; L1 is left as it is.
Resubscribe(n) ==
  /\ n \notin sub
  /\ sub' = sub \union {n}
  /\ UNCHANGED <<entries, op, async, chan, bounds>>

\* Caffeine drops an entry that is too old or one too many.
Evict(n, k) ==
  /\ l1[n][k] # None
  /\ SetL1(n, {k}, None, {})
  /\ UNCHANGED <<l2, op, async, topic, bounds>>

\* Redis drops an entry whose time is up: it may be the shorter-lived one,
\* since what is read from L1 keeps only its L1 entry alive (ExpireTask).
Expire(k) ==
  /\ l2[k] # None
  /\ SetL2({k}, None)
  /\ op' = Aged(op, {k})
  /\ spoilt' = spoilt \union {<<n, k>> : n \in {m \in Nodes : l1[m][k] = l2[k]}}
  /\ UNCHANGED <<l1, async, topic, bounds>>
-----------------------------------------------------------------------------
Proceed(t) == UNCHANGED given /\ (Fill(t) \/ WriteL2(t) \/ Publish(t) \/ Enqueue(t))
AsyncStep(n) ==
  UNCHANGED given /\ (Poll(n) \/ FlushStart(n) \/ WriteBatch(n) \/ PublishBatch(n))
SubStep(n) ==
  UNCHANGED given /\ (OnMessage(n) \/ Misread(n) \/ Mistaken(n) \/ Resubscribe(n))

CacheNext ==
  /\ UNCHANGED given
  /\ \/ \E t \in Threads, k \in Keys :
          GetMiss(t, k) \/ Put(t, k) \/ PutAsync(t, k) \/ Remove(t, k)
     \/ \E t \in Threads : Clear(t) \/ Proceed(t)
     \/ \E n \in Nodes : AsyncStep(n) \/ SubStep(n) \/ LoseTopic(n)
     \/ \E n \in Nodes, k \in Keys : Evict(n, k)
     \/ \E k \in Keys : Expire(k)

\* Threads go on with the call they are in, and the two threads of
\* CaffeineRedisCacheManager.init run for ever.
CacheFairness ==
  /\ \A t \in Threads : WF_cacheVars(Proceed(t))
  /\ \A n \in Nodes : WF_cacheVars(AsyncStep(n)) /\ WF_cacheVars(SubStep(n))

CacheSpec == CacheInit /\ [][CacheNext]_cacheVars
CacheFairSpec == CacheSpec /\ CacheFairness
-----------------------------------------------------------------------------
InMessages(q, k) == \E i \in DOMAIN q : k \in q[i].keys

\* Nothing about k is under way anywhere.
AtRest(k) ==
  /\ \A t \in Threads : op[t].pc \in {"queue", "l2", "publish"} => k \notin op[t].keys
  /\ \A n \in Nodes : ~AsyncPending(n, k) /\ ~InMessages(chan[n], k)

StaleUnspoilt(n, k) == l1[n][k] \notin {None, l2[k]} /\ <<n, k>> \notin spoilt

(* With nothing about a key under way, no node holds another value of it    *)
(* than Redis, but for the spoilt entries: those filled with what was read  *)
(* before a write or during one of the node's own, those put while another  *)
(* write of the node was under way, those that came between the two         *)
(* statements of a putL2Async, those whose message, or whose write, was     *)
(* lost or misread, and those that outlive their entry in Redis.            *)
(* (CaffeineRedisCache, RedisAsyncRunnable, JedisSubscriber.)               *)
CoherentAtRest ==
  \A k \in Keys : AtRest(k) =>
    \A n \in Nodes : ~StaleUnspoilt(n, k)

(* Once the writing stops, an entry that is wrong and not spoilt does not   *)
(* stay wrong in any node: its message arrives or its write gets there.     *)
(* (MaxCalls ends the writing.)                                             *)
StaleIsTemporary ==
  \A k \in Keys :
    (\E n \in Nodes : StaleUnspoilt(n, k)) ~> (\A n \in Nodes : ~StaleUnspoilt(n, k))

(* Once the putting stops, what putL2Async queued gets to Redis and to the  *)
(* topic, failed publications notwithstanding.  (RedisAsyncRunnable:        *)
(* nothing but its loop empties the queue and the batch.)                   *)
AsyncIsFlushed ==
  (\E n \in Nodes : queue[n] # <<>>) ~> (\A n \in Nodes : queue[n] = <<>> /\ batch[n] = <<>>)
=============================================================================
