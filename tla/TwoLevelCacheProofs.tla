------------------------ MODULE TwoLevelCacheProofs ------------------------
(***************************************************************************)
(* Proof that the nodes' caches agree with Redis about a key once nothing   *)
(* about it is under way, but for the spoilt entries: for any nodes,        *)
(* threads and keys and any number of calls and faults.                     *)
(***************************************************************************)
EXTENDS TwoLevelCache, SequenceTheorems, TLAPS

\* A word of k is on its way to n, or will be sent by another node.
Promised(n, k) ==
  \/ \E i \in DOMAIN chan[n] : k \in chan[n][i].keys /\ chan[n][i].from # n
  \/ \E t \in Threads : home[t] # n /\ op[t].pc \in {"l2", "publish"} /\ k \in op[t].keys
  \/ \E m \in Nodes : m # n /\ AsyncPending(m, k)

\* A thread of n has an entry of k in L1 that it is about to queue.
Entering(n, k) == \E t \in Threads : home[t] = n /\ op[t].pc = "queue" /\ k \in op[t].keys

\* n has yet to write k to L2, in the round of the batch that is at work.
Unwritten(n, k) ==
  \/ SyncPending(n, k)
  \/ Entering(n, k)
  \/ Holds(queue[n], k)
  \/ \E i \in DOMAIN batch[n] : at[n] <= i /\ batch[n][i][1] = k

\* What n writes last of k is what n has of it.
LastSync(n, k) ==
  \A t \in Threads :
    home[t] = n /\ op[t].pc = "l2" /\ k \in op[t].keys => op[t].val = l1[n][k]
IsLast(q, i, k) == i \in DOMAIN q /\ q[i][1] = k /\ \A j \in DOMAIN q : i < j => q[j][1] # k
LastQueued(n, k) ==
  /\ \A i \in DOMAIN queue[n] : IsLast(queue[n], i, k) => queue[n][i][2] = l1[n][k]
  /\ ~Holds(queue[n], k) =>
       \A i \in DOMAIN batch[n] : IsLast(batch[n], i, k) => batch[n][i][2] = l1[n][k]
LastEntering(n, k) == \E t \in Threads : Queues(t, n, k)
LastAsync(n, k) == LastEntering(n, k) \/ LastQueued(n, k)

\* An entry that claims to be right, and what makes it right in the end.
Live(n, k) == l1[n][k] # None /\ <<n, k>> \notin spoilt
Mended(n, k) == l1[n][k] = l2[k] \/ Promised(n, k) \/ Unwritten(n, k)

\* What was read from L2 and is not old is still there.
FreshFills ==
  \A t \in Threads : op[t].pc = "fill" /\ ~op[t].old => \A k \in op[t].keys : l2[k] = op[t].val
EntryMended(n, k) == Live(n, k) => LastSync(n, k) /\ LastAsync(n, k) /\ Mended(n, k)

CacheInv ==
  /\ CacheTypeOK
  /\ FreshFills
  /\ \A n \in Nodes, k \in Keys : EntryMended(n, k)
-----------------------------------------------------------------------------
(* What the operators that write to the two levels do, entry by entry.      *)

LEMMA SetL1Entries ==
  ASSUME CacheTypeOK, NEW n \in Nodes, NEW K \in SUBSET Keys, NEW v \in Values \union {None},
         NEW S \in SUBSET K, SetL1(n, K, v, S)
  PROVE  /\ l1' \in [Nodes -> [Keys -> Values \union {None}]]
         /\ spoilt' \in SUBSET (Nodes \X Keys)
         /\ \A k \in K : l1'[n][k] = v /\ (<<n, k>> \in spoilt' <=> k \in S)
         /\ \A m \in Nodes, k \in Keys : ~(m = n /\ k \in K) =>
              l1'[m][k] = l1[m][k] /\ (<<m, k>> \in spoilt' <=> <<m, k>> \in spoilt)
<1>1. l1' = [l1 EXCEPT ![n] = [k \in Keys |-> IF k \in K THEN v ELSE l1[n][k]]]
  BY DEF SetL1
<1>2. spoilt' = (spoilt \ ({n} \X K)) \union ({n} \X S)
  BY DEF SetL1
<1>3. l1 \in [Nodes -> [Keys -> Values \union {None}]] /\ spoilt \in SUBSET (Nodes \X Keys)
  BY DEF CacheTypeOK
<1>4. [k \in Keys |-> IF k \in K THEN v ELSE l1[n][k]] \in [Keys -> Values \union {None}]
  BY <1>3
<1>5. l1' \in [Nodes -> [Keys -> Values \union {None}]]
  BY <1>1, <1>3, <1>4
<1>6. spoilt' \in SUBSET (Nodes \X Keys)
  BY <1>2, <1>3
<1>7. \A k \in K : l1'[n][k] = v /\ (<<n, k>> \in spoilt' <=> k \in S)
  BY <1>1, <1>2, <1>3
<1>8. \A m \in Nodes, k \in Keys : ~(m = n /\ k \in K) =>
        l1'[m][k] = l1[m][k] /\ (<<m, k>> \in spoilt' <=> <<m, k>> \in spoilt)
  BY <1>1, <1>2, <1>3
<1>. QED  BY <1>5, <1>6, <1>7, <1>8

LEMMA SetL2Entries ==
  ASSUME CacheTypeOK, NEW K \in SUBSET Keys, NEW v \in Values \union {None}, SetL2(K, v)
  PROVE  /\ l2' \in [Keys -> Values \union {None}]
         /\ \A k \in Keys : l2'[k] = IF k \in K THEN v ELSE l2[k]
<1>. QED  BY DEF SetL2, CacheTypeOK

LEMMA OpFields ==
  ASSUME NEW o \in Ops
  PROVE  /\ o.keys \in SUBSET Keys /\ o.val \in Values \union {None} /\ o.clear \in BOOLEAN
         /\ o.pc = "queue" => o.val \in Values /\ \E k \in Keys : o.keys = {k}
         /\ [o EXCEPT !.pc = "publish"] \in Ops
<1>1. CASE o \in Calls
  BY <1>1 DEF Ops, Calls
<1>2. CASE o \in AsyncPuts
  <2>1. PICK k \in Keys : o.keys = {k}
    BY <1>2 DEF AsyncPuts
  <2>2. /\ o.val \in Values /\ o.clear = FALSE /\ o.old = FALSE
        /\ o = [pc |-> o.pc, keys |-> o.keys, val |-> o.val, clear |-> o.clear, old |-> o.old]
    BY <1>2 DEF AsyncPuts
  <2>3. [o EXCEPT !.pc = "publish"] =
          [pc |-> "publish", keys |-> o.keys, val |-> o.val, clear |-> o.clear, old |-> o.old]
    BY <2>2
  <2>4. [o EXCEPT !.pc = "publish"] \in Calls
    BY <2>1, <2>2, <2>3 DEF Calls
  <2>. QED  BY <2>1, <2>2, <2>4 DEF Ops
<1>. QED  BY <1>1, <1>2 DEF Ops

LEMMA AgedOps ==
  ASSUME NEW o \in [Threads -> Ops], NEW K \in SUBSET Keys
  PROVE  /\ Aged(o, K) \in [Threads -> Ops]
         /\ \A t \in Threads :
              /\ Aged(o, K)[t].pc = o[t].pc /\ Aged(o, K)[t].keys = o[t].keys
              /\ Aged(o, K)[t].val = o[t].val /\ Aged(o, K)[t].clear = o[t].clear
              /\ Aged(o, K)[t].old <=>
                   o[t].old \/ (o[t].pc = "fill" /\ o[t].keys \intersect K # {})
<1>. QED  BY DEF Aged, Ops, Calls, AsyncPuts

LEMMA MissedEntries ==
  ASSUME NEW L \in SUBSET Nodes, NEW K \in SUBSET Keys
  PROVE  /\ Missed(L, K) \in SUBSET (Nodes \X Keys)
         /\ \A m \in Nodes, k \in Keys :
              <<m, k>> \in Missed(L, K) <=> m \in L /\ k \in K /\ l1[m][k] # None
<1>. QED  BY DEF Missed

LEMMA IdleOp == Idle \in Ops /\ Idle.pc = "idle"
BY DEF Idle, Ops, Calls, AsyncPuts

LEMMA HomeIsNode == ASSUME CacheTypeOK, NEW t \in Threads PROVE home[t] \in Nodes
BY CacheAssumption DEF CacheTypeOK
-----------------------------------------------------------------------------
(* Types.                                                                   *)

LEMMA TypesInit == CacheInit => CacheTypeOK
BY CacheAssumption DEF CacheInit, CacheTypeOK, IdleOp, Idle, Ops, Calls, AsyncPuts, Values

LEMMA TypesGetMiss ==
  ASSUME CacheTypeOK, UNCHANGED given, NEW t \in Threads, NEW k \in Keys, GetMiss(t, k)
  PROVE  CacheTypeOK'
<1>1. [Idle EXCEPT !.pc = "fill", !.keys = {k}, !.val = l2[k]] \in Ops
  BY DEF CacheTypeOK, Idle, Ops, Calls, AsyncPuts
<1>2. op' \in [Threads -> Ops]
  BY <1>1 DEF GetMiss, CacheTypeOK
<1>. QED  BY <1>2 DEF GetMiss, CacheTypeOK, given, entries, async, topic, bounds

LEMMA TypesFill ==
  ASSUME CacheTypeOK, UNCHANGED given, NEW t \in Threads, Fill(t)
  PROVE  CacheTypeOK'
<1>. DEFINE n == home[t]
           S == {x \in op[t].keys : op[t].old \/ SyncPending(n, x) \/ AsyncPending(n, x)}
<1>1. op[t].keys \in SUBSET Keys /\ op[t].val \in Values \union {None}
  BY OpFields DEF CacheTypeOK
<1>2. SetL1(n, op[t].keys, op[t].val, S) /\ S \in SUBSET op[t].keys
  BY DEF Fill
<1>. HIDE DEF S
<1>3. l1' \in [Nodes -> [Keys -> Values \union {None}]] /\ spoilt' \in SUBSET (Nodes \X Keys)
  BY <1>1, <1>2, HomeIsNode, SetL1Entries
<1>4. op' \in [Threads -> Ops]
  BY IdleOp DEF Fill, CacheTypeOK
<1>. QED  BY <1>3, <1>4 DEF Fill, CacheTypeOK, given, async, topic, bounds

LEMMA TypesDrop ==
  ASSUME CacheTypeOK, UNCHANGED given, NEW t \in Threads, NEW K \in SUBSET Keys, NEW c \in BOOLEAN,
         Drop(t, K, c)
  PROVE  CacheTypeOK'
<1>1. calls' \in 0 .. MaxCalls
  BY CacheAssumption DEF Drop, CacheTypeOK
<1>. DEFINE n == home[t]
           S == {}
<1>2. SetL1(n, K, None, S) /\ S \in SUBSET K
  BY DEF Drop
<1>. HIDE DEF S
<1>3. l1' \in [Nodes -> [Keys -> Values \union {None}]] /\ spoilt' \in SUBSET (Nodes \X Keys)
  BY <1>2, HomeIsNode, SetL1Entries
<1>4. [Idle EXCEPT !.pc = "l2", !.keys = K, !.clear = c] \in Ops
  BY DEF Idle, Ops, Calls, AsyncPuts
<1>5. op' \in [Threads -> Ops]
  BY <1>4 DEF Drop, CacheTypeOK
<1>. QED  BY <1>1, <1>3, <1>5 DEF Drop, CacheTypeOK, given, async, topic

LEMMA TypesPut ==
  ASSUME CacheTypeOK, UNCHANGED given, NEW t \in Threads, NEW k \in Keys,
         Put(t, k) \/ PutAsync(t, k)
  PROVE  CacheTypeOK'
<1>. DEFINE n == home[t]
<1>0. n \in Nodes /\ calls' \in 0 .. MaxCalls /\ calls' \in Values
  <2>1. calls' = calls + 1 /\ calls < MaxCalls
    BY DEF Put, PutAsync
  <2>2. calls' \in 0 .. MaxCalls /\ calls' \in Values
    BY <2>1, CacheAssumption DEF CacheTypeOK, Values
  <2>. QED  BY <2>2, HomeIsNode
<1>1. ASSUME NEW S \in SUBSET {k}, SetL1(n, {k}, calls', S)
      PROVE  l1' \in [Nodes -> [Keys -> Values \union {None}]] /\ spoilt' \in SUBSET (Nodes \X Keys)
  BY <1>0, <1>1, SetL1Entries
<1>2. CASE Put(t, k)
  <2>1. [Idle EXCEPT !.pc = "l2", !.keys = {k}, !.val = calls'] \in Ops
    BY <1>0 DEF Idle, Ops, Calls, AsyncPuts
  <2>2. op' \in [Threads -> Ops]
    BY <1>2, <2>1 DEF Put, CacheTypeOK
  <2>3. l1' \in [Nodes -> [Keys -> Values \union {None}]] /\ spoilt' \in SUBSET (Nodes \X Keys)
    <3>. DEFINE S == IF SyncPending(n, k) \/ AsyncPending(n, k) THEN {k} ELSE {}
    <3>1. S \in SUBSET {k} /\ SetL1(n, {k}, calls', S)
      BY <1>2 DEF Put
    <3>. HIDE DEF S
    <3>. QED  BY <1>1, <3>1
  <2>. QED  BY <1>0, <1>2, <2>2, <2>3 DEF Put, CacheTypeOK, given, async, topic
<1>3. CASE PutAsync(t, k)
  <2>1. [Idle EXCEPT !.pc = "queue", !.keys = {k}, !.val = calls'] \in Ops
    BY <1>0 DEF Idle, Ops, Calls, AsyncPuts
  <2>2. op' \in [Threads -> Ops]
    BY <1>3, <2>1 DEF PutAsync, CacheTypeOK
  <2>3. l1' \in [Nodes -> [Keys -> Values \union {None}]] /\ spoilt' \in SUBSET (Nodes \X Keys)
    <3>. DEFINE S == IF SyncPending(n, k) THEN {k} ELSE {}
    <3>1. S \in SUBSET {k} /\ SetL1(n, {k}, calls', S)
      BY <1>3 DEF PutAsync
    <3>. HIDE DEF S
    <3>. QED  BY <1>1, <3>1
  <2>. QED  BY <1>0, <1>3, <2>2, <2>3 DEF PutAsync, CacheTypeOK, given, async, topic
<1>. QED  BY <1>2, <1>3

LEMMA TypesEnqueue ==
  ASSUME CacheTypeOK, UNCHANGED given, NEW t \in Threads, Enqueue(t)
  PROVE  CacheTypeOK'
<1>. DEFINE n == home[t]
<1>1. PICK k \in op[t].keys :
        /\ queue' = [queue EXCEPT ![n] = Append(queue[n], <<k, op[t].val>>)]
        /\ spoilt' = spoilt \union (IF Crossed(t, k) THEN {<<n, k>>} ELSE {})
  BY DEF Enqueue
<1>2. n \in Nodes /\ k \in Keys /\ op[t].val \in Values
  BY HomeIsNode, OpFields DEF Enqueue, CacheTypeOK
<1>3. spoilt' \in SUBSET (Nodes \X Keys)
  BY <1>1, <1>2 DEF CacheTypeOK
<1>4. Append(queue[n], <<k, op[t].val>>) \in Seq(Keys \X Values)
  BY <1>2 DEF CacheTypeOK
<1>5. queue' \in [Nodes -> Seq(Keys \X Values)]
  BY <1>1, <1>2, <1>4 DEF CacheTypeOK
<1>6. op' \in [Threads -> Ops]
  BY IdleOp DEF Enqueue, CacheTypeOK
<1>. QED  BY <1>3, <1>5, <1>6 DEF Enqueue, CacheTypeOK, given, topic, bounds

LEMMA TypesWriteL2 ==
  ASSUME CacheTypeOK, UNCHANGED given, NEW t \in Threads, WriteL2(t)
  PROVE  CacheTypeOK'
<1>. DEFINE K == op[t].keys
<1>1. K \in SUBSET Keys /\ op[t].val \in Values \union {None} /\ home[t] \in Nodes
  BY HomeIsNode, OpFields DEF CacheTypeOK
<1>2. ASSUME NEW o \in [Threads -> Ops]
      PROVE  [o EXCEPT ![t].pc = "publish"] \in [Threads -> Ops]
  BY OpFields
<1>3. op' \in [Threads -> Ops] /\ l2' \in [Keys -> Values \union {None}]
      /\ spoilt' \in SUBSET (Nodes \X Keys) /\ faults' \in 0 .. MaxFaults
  <2>1. CASE /\ Works /\ SetL2(K, op[t].val)
             /\ op' = [Aged(op, K) EXCEPT ![t].pc = "publish"]
             /\ UNCHANGED spoilt
    <3>1. Aged(op, K) \in [Threads -> Ops]
      BY <1>1, AgedOps DEF CacheTypeOK
    <3>2. op' \in [Threads -> Ops]
      BY <1>2, <2>1, <3>1
    <3>3. l2' \in [Keys -> Values \union {None}]
      BY <1>1, <2>1, SetL2Entries
    <3>. QED  BY <2>1, <3>2, <3>3 DEF Works, CacheTypeOK
  <2>2. CASE /\ Fails /\ UNCHANGED l2
             /\ op' = [op EXCEPT ![t].pc = "publish"]
             /\ spoilt' = spoilt \union Missed({home[t]}, K)
    <3>1. Missed({home[t]}, K) \in SUBSET (Nodes \X Keys)
      BY <1>1, MissedEntries
    <3>2. faults' \in 0 .. MaxFaults
      BY <2>2, CacheAssumption DEF Fails, CacheTypeOK
    <3>. QED  BY <1>2, <2>2, <3>1, <3>2 DEF CacheTypeOK
  <2>. QED  BY <2>1, <2>2 DEF WriteL2
<1>. QED  BY <1>3 DEF WriteL2, CacheTypeOK, given, async, topic

LEMMA TypesPublish ==
  ASSUME CacheTypeOK, UNCHANGED given, NEW t \in Threads, Publish(t)
  PROVE  CacheTypeOK'
<1>. DEFINE n == home[t]
           K == op[t].keys
           m == [keys |-> K, clear |-> op[t].clear, from |-> n]
<1>1. K \in SUBSET Keys /\ op[t].clear \in BOOLEAN /\ n \in Nodes
  BY HomeIsNode, OpFields DEF CacheTypeOK
<1>2. m \in Msgs
  BY <1>1 DEF Msgs
<1>3. op' \in [Threads -> Ops]
  BY IdleOp DEF Publish, CacheTypeOK
<1>4. \A L \in SUBSET Nodes : Missed(L, K) \in SUBSET (Nodes \X Keys)
  BY <1>1, MissedEntries
<1>. HIDE DEF m
<1>5. CASE /\ Works
           /\ Send(n, <<m>>)
           /\ spoilt' = spoilt \union Missed(Nodes \ (sub \union {n}), K)
  <2>1. \A r \in Nodes : chan[r] \o <<m>> \in Seq(Msgs)
    BY <1>2 DEF CacheTypeOK
  <2>2. chan' \in [Nodes -> Seq(Msgs)]
    BY <1>5, <2>1 DEF Send, CacheTypeOK
  <2>3. spoilt' \in SUBSET (Nodes \X Keys)
    BY <1>4, <1>5 DEF CacheTypeOK
  <2>. QED  BY <1>3, <1>5, <2>2, <2>3 DEF Publish, Works, Send, CacheTypeOK, given, async
<1>6. CASE /\ Fails /\ UNCHANGED topic
           /\ spoilt' = spoilt \union Missed(Nodes \ {n}, K)
  <2>1. spoilt' \in SUBSET (Nodes \X Keys)
    BY <1>4, <1>6 DEF CacheTypeOK
  <2>2. faults' \in 0 .. MaxFaults
    BY <1>6, CacheAssumption DEF Fails, CacheTypeOK
  <2>. QED  BY <1>3, <1>6, <2>1, <2>2 DEF Publish, CacheTypeOK, given, async, topic
<1>. QED  BY <1>5, <1>6 DEF Publish, m

LEMMA TypesPoll ==
  ASSUME CacheTypeOK, UNCHANGED given, NEW n \in Nodes, Poll(n) \/ FlushStart(n)
  PROVE  CacheTypeOK'
<1>1. CASE Poll(n)
  <2>1. /\ Head(queue[n]) \in Keys \X Values
        /\ Tail(queue[n]) \in Seq(Keys \X Values)
        /\ Append(batch[n], Head(queue[n])) \in Seq(Keys \X Values)
        /\ Len(Append(batch[n], Head(queue[n]))) = Len(batch[n]) + 1
        /\ Len(batch[n]) \in Nat
    BY <1>1 DEF Poll, CacheTypeOK
  <2>2. /\ batch' = [batch EXCEPT ![n] = Append(batch[n], Head(queue[n]))]
        /\ queue' = [queue EXCEPT ![n] = Tail(queue[n])]
        /\ at' = at /\ at[n] = 0
    BY <1>1 DEF Poll
  <2>3. batch' \in [Nodes -> Seq(Keys \X Values)] /\ queue' \in [Nodes -> Seq(Keys \X Values)]
    BY <2>1, <2>2 DEF CacheTypeOK
  <2>4. \A m \in Nodes : at'[m] \in 0 .. Len(batch'[m]) + 1
    <3>1. \A m \in Nodes : Len(batch[m]) \in Nat /\ at[m] \in 0 .. Len(batch[m]) + 1
      BY DEF CacheTypeOK
    <3>2. Len(batch'[n]) = Len(batch[n]) + 1 /\ \A m \in Nodes : m # n => batch'[m] = batch[m]
      BY <2>1, <2>2 DEF CacheTypeOK
    <3>. QED  BY <2>2, <3>1, <3>2
  <2>. QED  BY <1>1, <2>2, <2>3, <2>4 DEF Poll, CacheTypeOK, given, entries, topic, bounds
<1>2. CASE FlushStart(n)
  <2>1. Len(batch[n]) \in Nat \ {0}
    BY <1>2 DEF FlushStart, CacheTypeOK
  <2>2. DOMAIN at' = Nodes /\ \A m \in Nodes : at'[m] \in 0 .. Len(batch[m]) + 1
    BY <1>2, <2>1 DEF FlushStart, CacheTypeOK
  <2>. QED  BY <1>2, <2>2 DEF FlushStart, CacheTypeOK, given, entries, topic, bounds
<1>. QED  BY <1>1, <1>2

LEMMA TypesWriteBatch ==
  ASSUME CacheTypeOK, UNCHANGED given, NEW n \in Nodes, WriteBatch(n)
  PROVE  CacheTypeOK'
<1>. DEFINE p == batch[n][at[n]]
           K == {batch[n][i][1] : i \in at[n] .. Len(batch[n])}
<1>1. at[n] \in 1 .. Len(batch[n]) /\ p \in Keys \X Values /\ Len(batch[n]) \in Nat
  BY DEF WriteBatch, CacheTypeOK
<1>2. p[1] \in Keys /\ p[2] \in Values \union {None}
  BY <1>1
<1>3. K \in SUBSET Keys
  <2>1. \A i \in at[n] .. Len(batch[n]) : batch[n][i] \in Keys \X Values
    BY <1>1 DEF CacheTypeOK
  <2>. QED  BY <2>1
<1>. HIDE DEF K, p
<1>4. CASE /\ Works /\ SetL2({p[1]}, p[2])
           /\ op' = Aged(op, {p[1]})
           /\ at' = [at EXCEPT ![n] = @ + 1]
           /\ UNCHANGED spoilt
  <2>1. l2' \in [Keys -> Values \union {None}]
    BY <1>2, <1>4, SetL2Entries
  <2>2. op' \in [Threads -> Ops]
    BY <1>2, <1>4, AgedOps DEF CacheTypeOK
  <2>3. DOMAIN at' = Nodes /\ \A m \in Nodes : at'[m] \in 0 .. Len(batch[m]) + 1
    BY <1>1, <1>4 DEF CacheTypeOK
  <2>. QED  BY <1>4, <2>1, <2>2, <2>3 DEF WriteBatch, Works, CacheTypeOK, given, topic
<1>5. CASE /\ Fails /\ UNCHANGED <<l2, op>>
           /\ at' = [at EXCEPT ![n] = Len(batch[n]) + 1]
           /\ spoilt' = spoilt \union Missed({n}, K)
  <2>1. spoilt' \in SUBSET (Nodes \X Keys)
    <3>1. Missed({n}, K) \in SUBSET (Nodes \X Keys)
      BY <1>3, MissedEntries
    <3>. QED  BY <1>5, <3>1 DEF CacheTypeOK
  <2>2. faults' \in 0 .. MaxFaults
    BY <1>5, CacheAssumption DEF Fails, CacheTypeOK
  <2>3. DOMAIN at' = Nodes /\ \A m \in Nodes : at'[m] \in 0 .. Len(batch[m]) + 1
    BY <1>1, <1>5 DEF CacheTypeOK
  <2>. QED  BY <1>5, <2>1, <2>2, <2>3 DEF WriteBatch, CacheTypeOK, given, topic
<1>. QED  BY <1>4, <1>5 DEF WriteBatch, p, K

\* A batch as messages, and its keys.
LEMMA AnnouncedMessages ==
  ASSUME CacheTypeOK, NEW n \in Nodes
  PROVE  /\ Announced(n) \in Seq(Msgs) /\ Len(Announced(n)) = Len(batch[n])
         /\ \A i \in 1 .. Len(batch[n]) :
              Announced(n)[i].keys = {batch[n][i][1]} /\ Announced(n)[i].from = n
         /\ {p[1] : p \in {batch[n][i] : i \in DOMAIN batch[n]}} \in SUBSET Keys
         /\ \A k : k \in {p[1] : p \in {batch[n][i] : i \in DOMAIN batch[n]}} <=> Holds(batch[n], k)
<1>1. Len(batch[n]) \in Nat /\ DOMAIN batch[n] = 1 .. Len(batch[n])
      /\ \A i \in 1 .. Len(batch[n]) : batch[n][i] \in Keys \X Values
  BY DEF CacheTypeOK
<1>2. \A i \in 1 .. Len(batch[n]) :
        [keys |-> {batch[n][i][1]}, clear |-> FALSE, from |-> n] \in Msgs
  BY <1>1 DEF Msgs
<1>3. Announced(n) \in [1 .. Len(batch[n]) -> Msgs]
  BY <1>1, <1>2 DEF Announced
<1>4. Announced(n) \in Seq(Msgs) /\ Len(Announced(n)) = Len(batch[n])
  BY <1>1, <1>3, IsASeq, LenProperties
<1>. QED  BY <1>1, <1>4 DEF Announced, Holds

LEMMA TypesPublishBatch ==
  ASSUME CacheTypeOK, UNCHANGED given, NEW n \in Nodes, PublishBatch(n)
  PROVE  CacheTypeOK'
<1>. DEFINE K == {p[1] : p \in {batch[n][i] : i \in DOMAIN batch[n]}}
           ms == Announced(n)
<1>1. ms \in Seq(Msgs) /\ K \in SUBSET Keys
  BY AnnouncedMessages
<1>. HIDE DEF K, ms
<1>2. DOMAIN at' = Nodes /\ \A m \in Nodes : at'[m] = IF m = n THEN 0 ELSE at[m]
  BY DEF PublishBatch, CacheTypeOK
<1>3. CASE /\ Works
           /\ Send(n, ms)
           /\ spoilt' = spoilt \union Missed(Nodes \ (sub \union {n}), K)
           /\ batch' = [batch EXCEPT ![n] = <<>>]
  <2>1. \A r \in Nodes : chan[r] \o ms \in Seq(Msgs)
    BY <1>1 DEF CacheTypeOK
  <2>2. chan' \in [Nodes -> Seq(Msgs)]
    BY <1>3, <2>1 DEF Send, CacheTypeOK
  <2>3. spoilt' \in SUBSET (Nodes \X Keys)
    <3>. DEFINE L == Nodes \ (sub \union {n})
    <3>1. L \in SUBSET Nodes
      OBVIOUS
    <3>. HIDE DEF L
    <3>2. Missed(L, K) \in SUBSET (Nodes \X Keys)
      BY <1>1, <3>1, MissedEntries
    <3>. QED  BY <1>3, <3>2 DEF CacheTypeOK, L
  <2>4. batch' \in [Nodes -> Seq(Keys \X Values)]
    BY <1>3 DEF CacheTypeOK
  <2>5. \A m \in Nodes : at'[m] \in 0 .. Len(batch'[m]) + 1
    <3>1. batch'[n] = <<>> /\ \A m \in Nodes : m # n => batch'[m] = batch[m]
      BY <1>3 DEF CacheTypeOK
    <3>2. at'[n] \in 0 .. Len(batch'[n]) + 1
      BY <1>2, <3>1
    <3>3. ASSUME NEW m \in Nodes, m # n PROVE at'[m] \in 0 .. Len(batch'[m]) + 1
      BY <1>2, <3>1, <3>3 DEF CacheTypeOK
    <3>. QED  BY <3>2, <3>3
  <2>. QED  BY <1>2, <1>3, <2>2, <2>3, <2>4, <2>5 DEF PublishBatch, Works, Send, CacheTypeOK, given
<1>4. CASE Fails /\ UNCHANGED <<topic, spoilt, batch>>
  <2>1. faults' \in 0 .. MaxFaults
    BY <1>4, CacheAssumption DEF Fails, CacheTypeOK
  <2>2. \A m \in Nodes : at'[m] \in 0 .. Len(batch'[m]) + 1
    <3>1. \A m \in Nodes : Len(batch[m]) \in Nat /\ at[m] \in 0 .. Len(batch[m]) + 1
      BY DEF CacheTypeOK
    <3>2. batch' = batch
      BY <1>4
    <3>. QED  BY <1>2, <3>1, <3>2
  <2>. QED  BY <1>2, <1>4, <2>1, <2>2 DEF PublishBatch, CacheTypeOK, given, topic
<1>. QED  BY <1>3, <1>4 DEF PublishBatch, K, ms

LEMMA TypesOnMessage ==
  ASSUME CacheTypeOK, UNCHANGED given, NEW n \in Nodes, OnMessage(n)
  PROVE  CacheTypeOK'
<1>. DEFINE m == Head(chan[n])
<1>1. m \in Msgs /\ Tail(chan[n]) \in Seq(Msgs)
  BY DEF OnMessage, CacheTypeOK
<1>2. m.keys \in SUBSET Keys
  BY <1>1 DEF Msgs
<1>. HIDE DEF m
<1>3. chan' \in [Nodes -> Seq(Msgs)]
  BY <1>1 DEF OnMessage, CacheTypeOK
<1>4. CASE UNCHANGED <<l1, spoilt>>
  BY <1>3, <1>4 DEF OnMessage, CacheTypeOK, given, async, bounds
<1>5. CASE SetL1(n, m.keys, None, {})
  <2>. DEFINE S == {}
  <2>1. SetL1(n, m.keys, None, S) /\ S \in SUBSET m.keys
    BY <1>5
  <2>. HIDE DEF S
  <2>2. l1' \in [Nodes -> [Keys -> Values \union {None}]] /\ spoilt' \in SUBSET (Nodes \X Keys)
    BY <1>2, <2>1, SetL1Entries
  <2>. QED  BY <1>3, <2>2 DEF OnMessage, CacheTypeOK, given, async, bounds
<1>. QED  BY <1>4, <1>5 DEF OnMessage, m

\* The keys that a misread message drops, and those it should have dropped.
Mistook(m) == UNION {reads[k].drops : k \in m.keys}
Kept(n, m) == {k \in m.keys \ Mistook(m) : m.from # n /\ l1[n][k] # None}

LEMMA MistookKeys ==
  ASSUME CacheTypeOK, NEW m \in Msgs
  PROVE  m.keys \in SUBSET Keys /\ Mistook(m) \in SUBSET Keys /\ m.from \in Nodes
<1>1. m.keys \in SUBSET Keys /\ m.from \in Nodes
  BY DEF Msgs
<1>2. \A k \in Keys : reads[k].drops \in SUBSET Keys
  BY DEF CacheTypeOK, Readings
<1>. QED  BY <1>1, <1>2 DEF Mistook

\* SetL1 on the keys dropped, and the others that are spoilt.
LEMMA MistakenEntries ==
  ASSUME CacheTypeOK, NEW n \in Nodes, Mistaken(n)
  PROVE  LET m == Head(chan[n]) IN
         /\ l1' \in [Nodes -> [Keys -> Values \union {None}]]
         /\ spoilt' \in SUBSET (Nodes \X Keys)
         /\ \A k \in Mistook(m) : l1'[n][k] = None
         /\ \A r \in Nodes, k \in Keys : ~(r = n /\ k \in Mistook(m)) =>
              /\ l1'[r][k] = l1[r][k]
              /\ <<r, k>> \in spoilt' <=> <<r, k>> \in spoilt \/ (r = n /\ k \in Kept(n, m))
<1>. DEFINE m == Head(chan[n])
           K == Mistook(m)
           S == Kept(n, m)
<1>1. m \in Msgs
  BY DEF Mistaken, CacheTypeOK
<1>2. K \in SUBSET Keys /\ S \in SUBSET Keys /\ K \intersect S = {}
  BY <1>1, MistookKeys DEF Kept
<1>3. /\ l1' = [l1 EXCEPT ![n] = [k \in Keys |-> IF k \in K THEN None ELSE l1[n][k]]]
      /\ spoilt' = (spoilt \ ({n} \X K)) \union ({n} \X S)
  BY DEF Mistaken, SetL1, Mistook, Kept
<1>. HIDE DEF K, S, m
<1>4. l1 \in [Nodes -> [Keys -> Values \union {None}]] /\ spoilt \in SUBSET (Nodes \X Keys)
  BY DEF CacheTypeOK
<1>5. l1' \in [Nodes -> [Keys -> Values \union {None}]]
  BY <1>3, <1>4
<1>6. spoilt' \in SUBSET (Nodes \X Keys)
  BY <1>2, <1>3, <1>4
<1>7. \A k \in K : l1'[n][k] = None
  BY <1>2, <1>3, <1>4
<1>8. \A r \in Nodes, k \in Keys : ~(r = n /\ k \in K) =>
        /\ l1'[r][k] = l1[r][k]
        /\ <<r, k>> \in spoilt' <=> <<r, k>> \in spoilt \/ (r = n /\ k \in S)
  BY <1>3, <1>4
<1>. QED  BY <1>5, <1>6, <1>7, <1>8 DEF K, S, m

LEMMA TypesMistaken ==
  ASSUME CacheTypeOK, UNCHANGED given, NEW n \in Nodes, Mistaken(n)
  PROVE  CacheTypeOK'
<1>1. Tail(chan[n]) \in Seq(Msgs)
  BY DEF Mistaken, CacheTypeOK
<1>2. chan' \in [Nodes -> Seq(Msgs)]
  BY <1>1 DEF Mistaken, CacheTypeOK
<1>3. l1' \in [Nodes -> [Keys -> Values \union {None}]] /\ spoilt' \in SUBSET (Nodes \X Keys)
  BY MistakenEntries
<1>. QED  BY <1>2, <1>3 DEF Mistaken, CacheTypeOK, given, async, bounds

\* The keys of the messages that a lost subscription takes with it.
Unheard(n) == UNION {chan[n][i].keys : i \in {j \in DOMAIN chan[n] : chan[n][j].from # n}}

LEMMA UnheardKeys ==
  ASSUME CacheTypeOK, NEW n \in Nodes
  PROVE  /\ Unheard(n) \in SUBSET Keys
         /\ \A k : k \in Unheard(n) <=>
              \E i \in DOMAIN chan[n] : k \in chan[n][i].keys /\ chan[n][i].from # n
<1>0. \A i \in DOMAIN chan[n] : chan[n][i] \in Msgs
  BY DEF CacheTypeOK
<1>1. \A i \in DOMAIN chan[n] : chan[n][i].keys \in SUBSET Keys
  BY <1>0 DEF Msgs
<1>. QED  BY <1>1 DEF Unheard

LEMMA TypesUnsubscribed ==
  ASSUME CacheTypeOK, UNCHANGED <<l1, l2, op, async, calls, given>>, faults' \in 0 .. MaxFaults,
         NEW n \in Nodes, Unsubscribed(n)
  PROVE  CacheTypeOK'
<1>1. Missed({n}, Unheard(n)) \in SUBSET (Nodes \X Keys)
  BY UnheardKeys, MissedEntries
<1>2. spoilt' \in SUBSET (Nodes \X Keys)
  BY <1>1 DEF Unsubscribed, Unheard, CacheTypeOK
<1>3. chan' \in [Nodes -> Seq(Msgs)] /\ sub' \in SUBSET Nodes
  BY DEF Unsubscribed, CacheTypeOK
<1>. QED  BY <1>2, <1>3 DEF CacheTypeOK, async, given

LEMMA TypesTopic ==
  ASSUME CacheTypeOK, UNCHANGED given, NEW n \in Nodes,
         Misread(n) \/ LoseTopic(n) \/ Resubscribe(n)
  PROVE  CacheTypeOK'
<1>1. CASE Misread(n)
  BY <1>1, TypesUnsubscribed DEF Misread, bounds, CacheTypeOK
<1>2. CASE LoseTopic(n)
  <2>1. faults' \in 0 .. MaxFaults
    BY <1>2, CacheAssumption DEF LoseTopic, Fails, CacheTypeOK
  <2>. QED  BY <1>2, <2>1, TypesUnsubscribed DEF LoseTopic
<1>3. CASE Resubscribe(n)
  BY <1>3 DEF Resubscribe, CacheTypeOK, given, entries, async, bounds
<1>. QED  BY <1>1, <1>2, <1>3

LEMMA TypesDropped ==
  ASSUME CacheTypeOK, UNCHANGED given, NEW k \in Keys,
         (\E n \in Nodes : Evict(n, k)) \/ Expire(k)
  PROVE  CacheTypeOK'
<1>1. ASSUME NEW n \in Nodes, Evict(n, k) PROVE CacheTypeOK'
  <2>. DEFINE S == {}
  <2>1. SetL1(n, {k}, None, S) /\ S \in SUBSET {k}
    BY <1>1 DEF Evict
  <2>. HIDE DEF S
  <2>2. l1' \in [Nodes -> [Keys -> Values \union {None}]] /\ spoilt' \in SUBSET (Nodes \X Keys)
    BY <2>1, SetL1Entries
  <2>. QED  BY <1>1, <2>2 DEF Evict, CacheTypeOK, given, async, topic, bounds
<1>2. CASE Expire(k)
  <2>1. l2' \in [Keys -> Values \union {None}]
    BY <1>2, SetL2Entries DEF Expire
  <2>2. op' \in [Threads -> Ops]
    <3>1. Aged(op, {k}) \in [Threads -> Ops]
      BY AgedOps DEF CacheTypeOK
    <3>. QED  BY <1>2, <3>1 DEF Expire
  <2>3. spoilt' \in SUBSET (Nodes \X Keys)
    BY <1>2 DEF Expire, CacheTypeOK
  <2>. QED  BY <1>2, <2>1, <2>2, <2>3 DEF Expire, CacheTypeOK, given, async, topic, bounds
<1>. QED  BY <1>1, <1>2

(* Type correctness: what is queued, announced and written is a value some  *)
(* call put, and the batch's position is one of its pairs' or past them.    *)
(* (CaffeineRedisCache, RedisAsyncRunnable.)                                *)
THEOREM CacheTypes == CacheSpec => []CacheTypeOK
<1>1. CacheTypeOK /\ [CacheNext]_cacheVars => CacheTypeOK'
  <2>. SUFFICES ASSUME CacheTypeOK, [CacheNext]_cacheVars PROVE CacheTypeOK'
    OBVIOUS
  <2>1. CASE UNCHANGED cacheVars
    BY <2>1 DEF CacheTypeOK, cacheVars, entries, async, topic, bounds, given
  <2>2. ASSUME NEW t \in Threads, NEW k \in Keys, UNCHANGED given,
               GetMiss(t, k) \/ Put(t, k) \/ PutAsync(t, k) \/ Remove(t, k)
        PROVE  CacheTypeOK'
    BY <2>2, TypesGetMiss, TypesPut, TypesDrop DEF Remove
  <2>3. ASSUME NEW t \in Threads, UNCHANGED given, Clear(t) PROVE CacheTypeOK'
    BY <2>3, TypesDrop DEF Clear
  <2>4. ASSUME NEW t \in Threads, UNCHANGED given, Fill(t) PROVE CacheTypeOK'
    BY <2>4, TypesFill
  <2>5. ASSUME NEW t \in Threads, UNCHANGED given, WriteL2(t) \/ Publish(t) \/ Enqueue(t)
        PROVE  CacheTypeOK'
    BY <2>5, TypesWriteL2, TypesPublish, TypesEnqueue
  <2>6. ASSUME NEW n \in Nodes, AsyncStep(n) PROVE CacheTypeOK'
    BY <2>6, TypesPoll, TypesWriteBatch, TypesPublishBatch DEF AsyncStep
  <2>7. ASSUME NEW n \in Nodes, UNCHANGED given, SubStep(n) \/ LoseTopic(n) PROVE CacheTypeOK'
    BY <2>7, TypesOnMessage, TypesMistaken, TypesTopic DEF SubStep
  <2>8. ASSUME NEW k \in Keys, UNCHANGED given, (\E n \in Nodes : Evict(n, k)) \/ Expire(k)
        PROVE  CacheTypeOK'
    BY <2>8, TypesDropped
  <2>. QED  BY <2>1, <2>2, <2>3, <2>4, <2>5, <2>6, <2>7, <2>8 DEF CacheNext, Proceed
<1>. QED  BY <1>1, TypesInit, PTL DEF CacheSpec
-----------------------------------------------------------------------------
(* Entries: one lemma per action.                                           *)

LEMMA FillMends ==
  ASSUME CacheInv, UNCHANGED given, NEW t \in Threads, Fill(t)
  PROVE  FreshFills' /\ \A n \in Nodes, k \in Keys : EntryMended(n, k)'
<1>. DEFINE h == home[t]
           K == op[t].keys
           S == {x \in K : op[t].old \/ SyncPending(h, x) \/ AsyncPending(h, x)}
<1>0. K \in SUBSET Keys /\ op[t].val \in Values \union {None} /\ h \in Nodes
  BY HomeIsNode, OpFields DEF CacheInv, CacheTypeOK
<1>1. SetL1(h, K, op[t].val, S) /\ S \in SUBSET K
  BY DEF Fill
<1>. DEFINE v == op[t].val
<1>. HIDE DEF h, K, S, v
<1>1a. /\ \A x \in K : l1'[h][x] = v /\ (<<h, x>> \in spoilt' <=> x \in S)
      /\ \A n \in Nodes, x \in Keys : ~(n = h /\ x \in K) =>
           l1'[n][x] = l1[n][x] /\ (<<n, x>> \in spoilt' <=> <<n, x>> \in spoilt)
  <2>1. CacheTypeOK /\ h \in Nodes /\ K \in SUBSET Keys /\ v \in Values \union {None}
        /\ S \in SUBSET K /\ SetL1(h, K, v, S)
    BY <1>0, <1>1 DEF CacheInv, v
  <2>. QED  BY <2>1, SetL1Entries
<1>. USE DEF h, K, S, v
<1>2. op[t].pc = "fill" /\ op'[t].pc = "idle" /\ \A r \in Threads : r # t => op'[r] = op[r]
  BY IdleOp DEF Fill, CacheInv, CacheTypeOK
<1>3. UNCHANGED <<l2, queue, batch, at, chan, home>>
  BY DEF Fill, async, topic, given
<1>4. FreshFills'
  BY <1>2, <1>3 DEF FreshFills, CacheInv
<1>5. ASSUME NEW n \in Nodes, NEW k \in Keys PROVE EntryMended(n, k)'
  <2>1. CASE n = h /\ k \in K
    <3>1. SUFFICES ASSUME Live(n, k)' PROVE (LastSync(n, k) /\ LastAsync(n, k) /\ Mended(n, k))'
      BY DEF EntryMended
    <3>2. l1'[n][k] = op[t].val /\ k \notin S
      <4>. HIDE DEF S
      <4>. QED  BY <1>1a, <2>1, <3>1 DEF Live
    <3>3. ~op[t].old /\ ~SyncPending(n, k) /\ ~AsyncPending(n, k)
      BY <2>1, <3>2
    <3>4. l2'[k] = op[t].val
      BY <1>2, <1>3, <2>1, <3>3 DEF FreshFills, CacheInv
    <3>5. LastSync(n, k)'
      BY <1>2, <1>3, <3>3 DEF LastSync, SyncPending
    <3>6. LastAsync(n, k)'
      BY <1>3, <3>3 DEF LastAsync, LastQueued, AsyncPending, IsLast, Holds
    <3>. QED  BY <3>2, <3>4, <3>5, <3>6 DEF Mended
  <2>2. CASE ~(n = h /\ k \in K)
    <3>1. l1'[n][k] = l1[n][k] /\ (<<n, k>> \in spoilt' <=> <<n, k>> \in spoilt)
      <4>. HIDE DEF S, h, K
      <4>. QED  BY <1>1a, <2>2
    <3>2. LastSync(n, k) => LastSync(n, k)'
      BY <1>2, <1>3, <3>1 DEF LastSync
    <3>3. LastAsync(n, k) => LastAsync(n, k)'
      BY <1>2, <1>3, <3>1 DEF LastAsync, LastEntering, Queues, LastQueued, IsLast, Holds
    <3>4. Mended(n, k) => Mended(n, k)'
      BY <1>2, <1>3, <3>1 DEF Mended, Promised, Unwritten, Entering, SyncPending, AsyncPending, Holds
    <3>. QED  BY <3>1, <3>2, <3>3, <3>4 DEF EntryMended, Live, CacheInv
  <2>. QED  BY <2>1, <2>2
<1>. QED  BY <1>4, <1>5

LEMMA GetMissMends ==
  ASSUME CacheInv, UNCHANGED given, NEW t \in Threads, NEW x \in Keys, GetMiss(t, x)
  PROVE  FreshFills' /\ \A n \in Nodes, k \in Keys : EntryMended(n, k)'
<1>1. /\ op[t].pc = "idle" /\ op'[t].pc = "fill" /\ op'[t].keys = {x} /\ op'[t].val = l2[x]
      /\ \A r \in Threads : r # t => op'[r] = op[r]
  BY DEF GetMiss, Idle, CacheInv, CacheTypeOK
<1>2. UNCHANGED <<l1, spoilt, l2, queue, batch, at, chan, home>>
  BY DEF GetMiss, entries, async, topic, given
<1>3. FreshFills'
  BY <1>1, <1>2 DEF FreshFills, CacheInv
<1>4. ASSUME NEW n \in Nodes, NEW k \in Keys PROVE EntryMended(n, k)'
  <2>1. LastSync(n, k) => LastSync(n, k)'
    BY <1>1, <1>2 DEF LastSync
  <2>2. LastAsync(n, k) => LastAsync(n, k)'
    BY <1>1, <1>2 DEF LastAsync, LastEntering, Queues, LastQueued, IsLast, Holds
  <2>3. Mended(n, k) => Mended(n, k)'
    BY <1>1, <1>2 DEF Mended, Promised, Unwritten, Entering, SyncPending, AsyncPending, Holds
  <2>. QED  BY <1>2, <2>1, <2>2, <2>3 DEF EntryMended, Live, CacheInv
<1>. QED  BY <1>3, <1>4

\* A call that begins to write K, with the entries of K dropped.
LEMMA DropMends ==
  ASSUME CacheInv, UNCHANGED given, NEW t \in Threads, NEW K \in SUBSET Keys, NEW c \in BOOLEAN,
         Drop(t, K, c)
  PROVE  FreshFills' /\ \A n \in Nodes, k \in Keys : EntryMended(n, k)'
<1>. DEFINE h == home[t]
           S == {}
<1>1. SetL1(h, K, None, S) /\ S \in SUBSET K
  BY DEF Drop
<1>. HIDE DEF h, S
<1>2. h \in Nodes
  BY HomeIsNode DEF h, CacheInv
<1>3. /\ \A x \in K : l1'[h][x] = None /\ (<<h, x>> \in spoilt' <=> x \in S)
      /\ \A n \in Nodes, x \in Keys : ~(n = h /\ x \in K) =>
           l1'[n][x] = l1[n][x] /\ (<<n, x>> \in spoilt' <=> <<n, x>> \in spoilt)
  BY <1>1, <1>2, SetL1Entries DEF CacheInv
<1>. USE DEF h
<1>4. /\ op[t].pc = "idle" /\ op'[t].pc = "l2" /\ op'[t].keys = K
      /\ \A r \in Threads : r # t => op'[r] = op[r]
  BY DEF Drop, Idle, CacheInv, CacheTypeOK
<1>5. UNCHANGED <<l2, queue, batch, at, chan, home>>
  BY DEF Drop, async, topic, given
<1>6. FreshFills'
  BY <1>4, <1>5 DEF FreshFills, CacheInv
<1>7. ASSUME NEW n \in Nodes, NEW k \in Keys PROVE EntryMended(n, k)'
  <2>1. CASE n = h /\ k \in K
    BY <1>3, <2>1 DEF EntryMended, Live
  <2>2. CASE ~(n = h /\ k \in K)
    <3>1. l1'[n][k] = l1[n][k] /\ (<<n, k>> \in spoilt' <=> <<n, k>> \in spoilt)
      BY <1>3, <2>2
    <3>2. LastSync(n, k) => LastSync(n, k)'
      BY <1>4, <1>5, <2>2, <3>1 DEF LastSync
    <3>3. LastAsync(n, k) => LastAsync(n, k)'
      BY <1>4, <1>5, <3>1 DEF LastAsync, LastEntering, Queues, LastQueued, IsLast, Holds
    <3>4. Mended(n, k) => Mended(n, k)'
      BY <1>4, <1>5, <3>1 DEF Mended, Promised, Unwritten, Entering, SyncPending, AsyncPending, Holds
    <3>. QED  BY <3>1, <3>2, <3>3, <3>4 DEF EntryMended, Live, CacheInv
  <2>. QED  BY <2>1, <2>2
<1>. QED  BY <1>6, <1>7

LEMMA EvictMends ==
  ASSUME CacheInv, UNCHANGED given, NEW h \in Nodes, NEW x \in Keys, Evict(h, x)
  PROVE  FreshFills' /\ \A n \in Nodes, k \in Keys : EntryMended(n, k)'
<1>. DEFINE S == {}
           K == {x}
<1>1. SetL1(h, K, None, S) /\ S \in SUBSET K /\ K \in SUBSET Keys
  BY DEF Evict
<1>. HIDE DEF S, K
<1>2. /\ \A y \in K : l1'[h][y] = None /\ (<<h, y>> \in spoilt' <=> y \in S)
      /\ \A n \in Nodes, y \in Keys : ~(n = h /\ y \in K) =>
           l1'[n][y] = l1[n][y] /\ (<<n, y>> \in spoilt' <=> <<n, y>> \in spoilt)
  BY <1>1, SetL1Entries DEF CacheInv
<1>3. UNCHANGED <<op, l2, queue, batch, at, chan, home>>
  BY DEF Evict, async, topic, given
<1>4. FreshFills'
  BY <1>3 DEF FreshFills, CacheInv
<1>5. ASSUME NEW n \in Nodes, NEW k \in Keys PROVE EntryMended(n, k)'
  <2>1. CASE n = h /\ k \in K
    BY <1>2, <2>1 DEF EntryMended, Live
  <2>2. CASE ~(n = h /\ k \in K)
    <3>1. l1'[n][k] = l1[n][k] /\ (<<n, k>> \in spoilt' <=> <<n, k>> \in spoilt)
      BY <1>2, <2>2
    <3>2. LastSync(n, k) => LastSync(n, k)'
      BY <1>3, <3>1 DEF LastSync
    <3>3. LastAsync(n, k) => LastAsync(n, k)'
      BY <1>3, <3>1 DEF LastAsync, LastEntering, Queues, LastQueued, IsLast, Holds
    <3>4. Mended(n, k) => Mended(n, k)'
      BY <1>3, <3>1 DEF Mended, Promised, Unwritten, Entering, SyncPending, AsyncPending, Holds
    <3>. QED  BY <3>1, <3>2, <3>3, <3>4 DEF EntryMended, Live, CacheInv
  <2>. QED  BY <2>1, <2>2
<1>. QED  BY <1>4, <1>5

\* Put: no other write of the node is under way, or the entry is spoilt.
LEMMA PutMends ==
  ASSUME CacheInv, UNCHANGED given, NEW t \in Threads, NEW x \in Keys, Put(t, x)
  PROVE  FreshFills' /\ \A n \in Nodes, k \in Keys : EntryMended(n, k)'
<1>. DEFINE h == home[t]
           K == {x}
           S == IF SyncPending(h, x) \/ AsyncPending(h, x) THEN {x} ELSE {}
<1>1. SetL1(h, K, calls', S) /\ S \in SUBSET K /\ K \in SUBSET Keys
  BY DEF Put
<1>2. calls' \in Values /\ h \in Nodes
  <2>1. CacheTypeOK
    BY DEF CacheInv
  <2>2. calls' \in Values
    BY <2>1, CacheAssumption DEF Put, CacheTypeOK, Values
  <2>. QED  BY <2>1, <2>2, HomeIsNode
<1>. HIDE DEF h, S, K
<1>3. /\ \A y \in K : l1'[h][y] = calls' /\ (<<h, y>> \in spoilt' <=> y \in S)
      /\ \A n \in Nodes, y \in Keys : ~(n = h /\ y \in K) =>
           l1'[n][y] = l1[n][y] /\ (<<n, y>> \in spoilt' <=> <<n, y>> \in spoilt)
  BY <1>1, <1>2, SetL1Entries DEF CacheInv
<1>. USE DEF h, K
<1>4. /\ op[t].pc = "idle" /\ op'[t].pc = "l2" /\ op'[t].keys = {x} /\ op'[t].val = calls'
      /\ \A r \in Threads : r # t => op'[r] = op[r]
  BY DEF Put, Idle, CacheInv, CacheTypeOK
<1>5. UNCHANGED <<l2, queue, batch, at, chan, home>>
  BY DEF Put, async, topic, given
<1>6. FreshFills'
  BY <1>4, <1>5 DEF FreshFills, CacheInv
<1>7. ASSUME NEW n \in Nodes, NEW k \in Keys PROVE EntryMended(n, k)'
  <2>1. CASE n = h /\ k = x
    <3>1. SUFFICES ASSUME Live(n, k)' PROVE (LastSync(n, k) /\ LastAsync(n, k) /\ Mended(n, k))'
      BY DEF EntryMended
    <3>2. l1'[n][k] = calls' /\ ~SyncPending(n, k) /\ ~AsyncPending(n, k)
      BY <1>3, <2>1, <3>1 DEF Live, S
    <3>3. LastSync(n, k)'
      BY <1>4, <1>5, <3>2 DEF LastSync, SyncPending
    <3>4. LastAsync(n, k)'
      BY <1>5, <3>2 DEF LastAsync, LastQueued, AsyncPending, IsLast, Holds
    <3>5. SyncPending(n, k)'
      BY <1>4, <1>5, <2>1 DEF SyncPending
    <3>. QED  BY <3>3, <3>4, <3>5 DEF Mended, Unwritten
  <2>2. CASE ~(n = h /\ k = x)
    <3>1. l1'[n][k] = l1[n][k] /\ (<<n, k>> \in spoilt' <=> <<n, k>> \in spoilt)
      BY <1>3, <2>2
    <3>2. LastSync(n, k) => LastSync(n, k)'
      BY <1>4, <1>5, <2>2, <3>1 DEF LastSync
    <3>3. LastAsync(n, k) => LastAsync(n, k)'
      BY <1>4, <1>5, <3>1 DEF LastAsync, LastEntering, Queues, LastQueued, IsLast, Holds
    <3>4. Mended(n, k) => Mended(n, k)'
      BY <1>4, <1>5, <3>1 DEF Mended, Promised, Unwritten, Entering, SyncPending, AsyncPending, Holds
    <3>. QED  BY <3>1, <3>2, <3>3, <3>4 DEF EntryMended, Live, CacheInv
  <2>. QED  BY <2>1, <2>2
<1>. QED  BY <1>6, <1>7

\* Ends of a queue.
LEMMA AppendEnds ==
  ASSUME NEW T, NEW q \in Seq(T), NEW p \in T
  PROVE  /\ \A k : Holds(Append(q, p), k) <=> Holds(q, k) \/ p[1] = k
         /\ \A k : p[1] = k => \A i : IsLast(Append(q, p), i, k) => i = Len(q) + 1
         /\ \A k : p[1] # k => \A i : IsLast(Append(q, p), i, k) => i # Len(q) + 1 /\ IsLast(q, i, k)
         /\ Append(q, p)[Len(q) + 1] = p /\ Len(q) + 1 \in DOMAIN Append(q, p)
         /\ \A i \in DOMAIN q : Append(q, p)[i] = q[i] /\ i \in DOMAIN Append(q, p)
<1>. DEFINE r == Append(q, p)
<1>1. /\ Len(q) \in Nat /\ DOMAIN q = 1 .. Len(q) /\ DOMAIN r = 1 .. (Len(q) + 1)
      /\ r[Len(q) + 1] = p
      /\ \A i \in 1 .. Len(q) : r[i] = q[i]
  OBVIOUS
<1>. HIDE DEF r
<1>2. DOMAIN r = DOMAIN q \union {Len(q) + 1} /\ Len(q) + 1 \notin DOMAIN q
  BY <1>1
<1>3. \A k : Holds(r, k) <=> Holds(q, k) \/ p[1] = k
  BY <1>1, <1>2 DEF Holds
<1>4. \A i \in DOMAIN q : i < Len(q) + 1
  BY <1>1
<1>5. \A k : p[1] = k => \A i : IsLast(r, i, k) => i = Len(q) + 1
  BY <1>1, <1>2, <1>4 DEF IsLast
<1>6. \A k : p[1] # k => \A i : IsLast(r, i, k) => i # Len(q) + 1 /\ IsLast(q, i, k)
  BY <1>1, <1>2 DEF IsLast
<1>. QED  BY <1>1, <1>2, <1>3, <1>5, <1>6 DEF r

LEMMA HeadTailEnds ==
  ASSUME NEW T, NEW q \in Seq(T), q # <<>>
  PROVE  /\ Head(q) \in T /\ Head(q) = q[1] /\ Tail(q) \in Seq(T) /\ 1 \in DOMAIN q
         /\ \A k : Holds(q, k) <=> Holds(Tail(q), k) \/ Head(q)[1] = k
         /\ \A i \in DOMAIN Tail(q) : i + 1 \in DOMAIN q /\ Tail(q)[i] = q[i + 1]
         /\ \A k : \A i \in DOMAIN Tail(q) : IsLast(Tail(q), i, k) => IsLast(q, i + 1, k)
         /\ \A k : ~Holds(Tail(q), k) /\ Head(q)[1] = k => IsLast(q, 1, k)
<1>. DEFINE r == Tail(q)
<1>1. /\ Len(q) \in Nat \ {0} /\ DOMAIN q = 1 .. Len(q) /\ DOMAIN r = 1 .. (Len(q) - 1)
      /\ Head(q) = q[1] /\ q[1] \in T /\ r \in Seq(T)
      /\ \A i \in 1 .. (Len(q) - 1) : r[i] = q[i + 1]
  OBVIOUS
<1>. HIDE DEF r
<1>2. /\ \A i \in DOMAIN r : i + 1 \in DOMAIN q /\ r[i] = q[i + 1]
      /\ \A j \in DOMAIN q : j # 1 => j - 1 \in DOMAIN r /\ r[j - 1] = q[j]
      /\ 1 \in DOMAIN q
  BY <1>1
<1>3. \A k : Holds(q, k) <=> Holds(r, k) \/ q[1][1] = k
  BY <1>2 DEF Holds
<1>4. \A k : \A i \in DOMAIN r : IsLast(r, i, k) => IsLast(q, i + 1, k)
  <2>1. ASSUME NEW i \in DOMAIN r, NEW j \in DOMAIN q, i + 1 < j PROVE j # 1 /\ i < j - 1
    BY <1>1, <2>1
  <2>. QED  BY <1>2, <2>1 DEF IsLast
<1>5. \A k : ~Holds(r, k) /\ q[1][1] = k => IsLast(q, 1, k)
  <2>1. \A j \in DOMAIN q : 1 < j => j # 1
    BY <1>1
  <2>. QED  BY <1>2, <2>1 DEF IsLast, Holds
<1>. QED  BY <1>1, <1>2, <1>3, <1>4, <1>5 DEF r

\* putL2Async's first statement: what it put it is about to queue.
LEMMA PutAsyncMends ==
  ASSUME CacheInv, UNCHANGED given, NEW t \in Threads, NEW x \in Keys, PutAsync(t, x)
  PROVE  FreshFills' /\ \A n \in Nodes, k \in Keys : EntryMended(n, k)'
<1>. DEFINE h == home[t]
           K == {x}
           S == IF SyncPending(h, x) THEN {x} ELSE {}
<1>1. SetL1(h, K, calls', S) /\ S \in SUBSET K /\ K \in SUBSET Keys
  BY DEF PutAsync
<1>2. calls' \in Values /\ h \in Nodes
  <2>1. CacheTypeOK
    BY DEF CacheInv
  <2>2. calls' \in Values
    BY <2>1, CacheAssumption DEF PutAsync, CacheTypeOK, Values
  <2>. QED  BY <2>1, <2>2, HomeIsNode
<1>. HIDE DEF h, S, K
<1>3. /\ \A y \in K : l1'[h][y] = calls' /\ (<<h, y>> \in spoilt' <=> y \in S)
      /\ \A n \in Nodes, y \in Keys : ~(n = h /\ y \in K) =>
           l1'[n][y] = l1[n][y] /\ (<<n, y>> \in spoilt' <=> <<n, y>> \in spoilt)
  BY <1>1, <1>2, SetL1Entries DEF CacheInv
<1>. USE DEF h, K
<1>4. /\ op[t].pc = "idle" /\ op'[t].pc = "queue" /\ op'[t].keys = {x} /\ op'[t].val = calls'
      /\ \A r \in Threads : r # t => op'[r] = op[r]
  BY DEF PutAsync, Idle, CacheInv, CacheTypeOK
<1>5. UNCHANGED <<l2, queue, batch, at, chan, home>>
  BY DEF PutAsync, async, topic, given
<1>6. FreshFills'
  BY <1>4, <1>5 DEF FreshFills, CacheInv
<1>7. ASSUME NEW n \in Nodes, NEW k \in Keys PROVE EntryMended(n, k)'
  <2>1. CASE n = h /\ k = x
    <3>1. SUFFICES ASSUME Live(n, k)' PROVE (LastSync(n, k) /\ LastAsync(n, k) /\ Mended(n, k))'
      BY DEF EntryMended
    <3>2. l1'[n][k] = calls' /\ ~SyncPending(n, k)
      BY <1>3, <2>1, <3>1 DEF Live, S
    <3>3. LastSync(n, k)'
      BY <1>4, <1>5, <3>2 DEF LastSync, SyncPending
    <3>4. LastEntering(n, k)' /\ Entering(n, k)'
      BY <1>4, <1>5, <2>1, <3>2 DEF LastEntering, Queues, Entering
    <3>. QED  BY <3>3, <3>4 DEF LastAsync, Mended, Unwritten
  <2>2. CASE ~(n = h /\ k = x)
    <3>1. l1'[n][k] = l1[n][k] /\ (<<n, k>> \in spoilt' <=> <<n, k>> \in spoilt)
      BY <1>3, <2>2
    <3>2. LastSync(n, k) => LastSync(n, k)'
      BY <1>4, <1>5, <2>2, <3>1 DEF LastSync
    <3>3. LastAsync(n, k) => LastAsync(n, k)'
      BY <1>4, <1>5, <3>1 DEF LastAsync, LastEntering, Queues, LastQueued, IsLast, Holds
    <3>4. Mended(n, k) => Mended(n, k)'
      BY <1>4, <1>5, <3>1 DEF Mended, Promised, Unwritten, Entering, SyncPending, AsyncPending, Holds
    <3>. QED  BY <3>1, <3>2, <3>3, <3>4 DEF EntryMended, Live, CacheInv
  <2>. QED  BY <2>1, <2>2
<1>. QED  BY <1>6, <1>7

\* Its second: what it queues is what the node has, or another thread is still
\* to queue that, or the entry is spoilt.
LEMMA EnqueueMends ==
  ASSUME CacheInv, UNCHANGED given, NEW t \in Threads, Enqueue(t)
  PROVE  FreshFills' /\ \A n \in Nodes, k \in Keys : EntryMended(n, k)'
<1>. DEFINE h == home[t]
<1>0. CacheTypeOK /\ h \in Nodes
  BY HomeIsNode DEF CacheInv
<1>1. PICK x \in op[t].keys :
        /\ queue' = [queue EXCEPT ![h] = Append(queue[h], <<x, op[t].val>>)]
        /\ spoilt' = spoilt \union (IF Crossed(t, x) THEN {<<h, x>>} ELSE {})
  BY DEF Enqueue
<1>. DEFINE p == <<x, op[t].val>>
<1>2. op[t].pc = "queue" /\ op[t].keys = {x} /\ x \in Keys /\ op[t].val \in Values
  <2>1. op[t] \in Ops /\ op[t].pc = "queue"
    BY <1>0 DEF Enqueue, CacheTypeOK
  <2>2. op[t].val \in Values /\ \E k \in Keys : op[t].keys = {k}
    BY <2>1, OpFields
  <2>. QED  BY <1>1, <2>1, <2>2
<1>3. /\ UNCHANGED <<l1, l2, batch, at, chan, home>>
      /\ op'[t].pc = "idle" /\ \A r \in Threads : r # t => op'[r] = op[r]
  BY <1>0, IdleOp DEF Enqueue, CacheTypeOK, topic, given
<1>4. /\ queue[h] \in Seq(Keys \X Values) /\ p \in Keys \X Values
      /\ queue'[h] = Append(queue[h], p)
      /\ \A n \in Nodes : n # h => queue'[n] = queue[n]
  BY <1>0, <1>1, <1>2 DEF CacheTypeOK
<1>5. /\ \A n, k : <<n, k>> \in spoilt' <=>
             <<n, k>> \in spoilt \/ (n = h /\ k = x /\ Crossed(t, x))
  BY <1>1
<1>6. p[1] = x /\ p[2] = op[t].val
  OBVIOUS
<1>. HIDE DEF p, h
<1>7. /\ \A k : Holds(queue'[h], k) <=> Holds(queue[h], k) \/ p[1] = k
      /\ \A k : p[1] = k => \A i : IsLast(queue'[h], i, k) => i = Len(queue[h]) + 1
      /\ \A k : p[1] # k => \A i : IsLast(queue'[h], i, k) =>
                                     i # Len(queue[h]) + 1 /\ IsLast(queue[h], i, k)
      /\ queue'[h][Len(queue[h]) + 1] = p
      /\ \A i \in DOMAIN queue[h] : queue'[h][i] = queue[h][i]
  <2>. DEFINE T == Keys \X Values
             q == queue[h]
  <2>1. q \in Seq(T) /\ p \in T /\ queue'[h] = Append(q, p)
    BY <1>4
  <2>. HIDE DEF T, q
  <2>2. \A k : Holds(Append(q, p), k) <=> Holds(q, k) \/ p[1] = k
    BY <2>1, AppendEnds
  <2>3. \A k : p[1] = k => \A i : IsLast(Append(q, p), i, k) => i = Len(q) + 1
    BY <2>1, AppendEnds
  <2>4. \A k : p[1] # k => \A i : IsLast(Append(q, p), i, k) => i # Len(q) + 1 /\ IsLast(q, i, k)
    BY <2>1, AppendEnds
  <2>5. Append(q, p)[Len(q) + 1] = p /\ \A i \in DOMAIN q : Append(q, p)[i] = q[i]
    BY <2>1, AppendEnds
  <2>. QED  BY <2>1, <2>2, <2>3, <2>4, <2>5 DEF q
<1>8. FreshFills'
  BY <1>3 DEF FreshFills, CacheInv
<1>9. ASSUME NEW n \in Nodes, NEW k \in Keys PROVE EntryMended(n, k)'
  <2>1. SUFFICES ASSUME Live(n, k)', Live(n, k), LastSync(n, k), LastAsync(n, k), Mended(n, k)
                 PROVE  (LastSync(n, k) /\ LastAsync(n, k) /\ Mended(n, k))'
    BY <1>3, <1>5 DEF EntryMended, Live, CacheInv
  <2>2. LastSync(n, k)'
    BY <1>3, <2>1 DEF LastSync
  <2>3. CASE n = h /\ k = x
    <3>1. Holds(queue'[n], k)
      BY <1>6, <1>7, <2>3
    <3>2. ~Crossed(t, x) /\ l1[n][k] # None
      BY <1>5, <2>1, <2>3 DEF Live
    <3>3. CASE l1[n][k] = op[t].val
      <4>1. LastQueued(n, k)'
        BY <1>3, <1>6, <1>7, <2>3, <3>1, <3>3 DEF LastQueued
      <4>. QED  BY <2>2, <3>1, <4>1 DEF LastAsync, Mended, Unwritten
    <3>4. CASE l1[n][k] # op[t].val
      <4>1. PICK r \in Threads \ {t} : Queues(r, n, k)
        BY <2>3, <3>2, <3>4 DEF Crossed, h
      <4>2. LastEntering(n, k)'
        BY <1>3, <4>1 DEF LastEntering, Queues
      <4>. QED  BY <2>2, <3>1, <4>2 DEF LastAsync, Mended, Unwritten
    <3>. QED  BY <3>3, <3>4
  <2>4. CASE ~(n = h /\ k = x)
    <3>1. Holds(queue'[n], k) <=> Holds(queue[n], k)
      BY <1>4, <1>6, <1>7, <2>4
    <3>2. \A i : IsLast(queue'[n], i, k) => IsLast(queue[n], i, k) /\ queue'[n][i] = queue[n][i]
      <4>1. \A i : IsLast(queue[n], i, k) => i \in DOMAIN queue[n]
        BY DEF IsLast
      <4>2. CASE n = h
        BY <1>6, <1>7, <2>4, <4>1, <4>2
      <4>. QED  BY <1>4, <4>2
    <3>3. LastQueued(n, k) => LastQueued(n, k)'
      <4>1. \A i : IsLast(queue[n], i, k) => i \in DOMAIN queue[n]
        BY DEF IsLast
      <4>. QED  BY <1>3, <3>1, <3>2, <4>1 DEF LastQueued
    <3>4. /\ LastEntering(n, k) => LastEntering(n, k)'
          /\ Entering(n, k) => Entering(n, k)'
      BY <1>2, <1>3, <2>4 DEF LastEntering, Queues, Entering, h
    <3>5. \A m \in Nodes : AsyncPending(m, k) => AsyncPending(m, k)'
      BY <1>3, <1>4, <1>7 DEF AsyncPending
    <3>6. Promised(n, k) => Promised(n, k)'
      BY <1>2, <1>3, <3>5 DEF Promised
    <3>7. Unwritten(n, k) => Unwritten(n, k)'
      BY <1>2, <1>3, <3>1, <3>4 DEF Unwritten, SyncPending
    <3>. QED  BY <1>3, <2>1, <2>2, <3>3, <3>4, <3>6, <3>7 DEF LastAsync, Mended
  <2>. QED  BY <2>3, <2>4
<1>. QED  BY <1>8, <1>9

\* What SetL2 and Aged leave of the fills that are not old.
LEMMA AgedFresh ==
  ASSUME CacheInv, NEW K \in SUBSET Keys, NEW v \in Values \union {None}, SetL2(K, v),
         NEW o \in [Threads -> Ops], o = Aged(op, K),
         \A r \in Threads : op'[r] = o[r] \/ op'[r].pc # "fill"
  PROVE  FreshFills'
<1>1. \A k \in Keys : k \notin K => l2'[k] = l2[k]
  BY SetL2Entries DEF CacheInv
<1>2. \A r \in Threads :
        /\ o[r].pc = op[r].pc /\ o[r].keys = op[r].keys /\ o[r].val = op[r].val
        /\ o[r].old <=> op[r].old \/ (op[r].pc = "fill" /\ op[r].keys \intersect K # {})
  <2>1. op \in [Threads -> Ops]
    BY DEF CacheInv, CacheTypeOK
  <2>2. \A r \in Threads :
          /\ Aged(op, K)[r].pc = op[r].pc /\ Aged(op, K)[r].keys = op[r].keys
          /\ Aged(op, K)[r].val = op[r].val
          /\ Aged(op, K)[r].old <=> op[r].old \/ (op[r].pc = "fill" /\ op[r].keys \intersect K # {})
    BY <2>1, AgedOps
  <2>. QED  BY <2>2
<1>3. SUFFICES ASSUME NEW r \in Threads, op'[r].pc = "fill", ~op'[r].old, NEW k \in op'[r].keys
               PROVE  l2'[k] = op'[r].val
  BY DEF FreshFills
<1>4. op'[r] = o[r]
  BY <1>3
<1>5. op[r].pc = "fill" /\ ~op[r].old /\ k \in op[r].keys /\ k \notin K /\ op'[r].val = op[r].val
  BY <1>2, <1>3, <1>4
<1>6. k \in Keys
  BY <1>5, OpFields DEF CacheInv, CacheTypeOK
<1>. QED  BY <1>1, <1>5, <1>6 DEF FreshFills, CacheInv

LEMMA WriteL2Mends ==
  ASSUME CacheInv, UNCHANGED given, NEW t \in Threads, WriteL2(t)
  PROVE  FreshFills' /\ \A n \in Nodes, k \in Keys : EntryMended(n, k)'
<1>. DEFINE h == home[t]
           K == op[t].keys
           v == op[t].val
           o == Aged(op, K)
<1>0. CacheTypeOK /\ op \in [Threads -> Ops]
  BY DEF CacheInv, CacheTypeOK
<1>1. K \in SUBSET Keys /\ v \in Values \union {None} /\ h \in Nodes /\ op[t].pc = "l2"
  BY <1>0, HomeIsNode, OpFields DEF WriteL2
<1>2. UNCHANGED <<l1, queue, batch, at, chan, home>>
  BY DEF WriteL2, async, topic, given
<1>3. o \in [Threads -> Ops] /\ \A r \in Threads :
        o[r].pc = op[r].pc /\ o[r].keys = op[r].keys /\ o[r].val = op[r].val
  BY <1>0, <1>1, AgedOps
<1>. HIDE DEF h, K, v, o
<1>4. CASE Works /\ SetL2(K, v) /\ op' = [o EXCEPT ![t].pc = "publish"] /\ UNCHANGED spoilt
  <2>1. /\ \A r \in Threads : r # t => op'[r] = o[r]
        /\ op'[t].pc = "publish" /\ op'[t].keys = K
    BY <1>3, <1>4 DEF Ops, Calls, AsyncPuts, K
  <2>2. \A k \in Keys : l2'[k] = IF k \in K THEN v ELSE l2[k]
    BY <1>0, <1>1, <1>4, SetL2Entries
  <2>3. FreshFills'
    <3>1. \A r \in Threads : op'[r] = o[r] \/ op'[r].pc # "fill"
      BY <2>1
    <3>. QED  BY <1>1, <1>3, <1>4, <3>1, AgedFresh DEF o
  <2>4. ASSUME NEW n \in Nodes, NEW k \in Keys PROVE EntryMended(n, k)'
    <3>1. SUFFICES ASSUME Live(n, k)', LastSync(n, k), LastAsync(n, k), Mended(n, k)
                   PROVE  (LastSync(n, k) /\ LastAsync(n, k) /\ Mended(n, k))'
      BY <1>2, <1>4 DEF EntryMended, Live, CacheInv
    <3>2. LastSync(n, k)'
      BY <1>2, <1>3, <2>1, <3>1 DEF LastSync
    <3>3. LastAsync(n, k)'
      BY <1>1, <1>2, <1>3, <2>1, <3>1 DEF LastAsync, LastEntering, Queues, LastQueued, IsLast, Holds
    <3>4. CASE n = h /\ k \in K
      <4>1. v = l1[n][k]
        BY <1>1, <3>1, <3>4 DEF LastSync, h, K, v
      <4>. QED  BY <1>2, <2>2, <3>2, <3>3, <3>4, <4>1 DEF Mended
    <3>5. CASE n # h /\ k \in K
      <4>1. Promised(n, k)'
        BY <1>2, <2>1, <3>5 DEF Promised, h
      <4>. QED  BY <3>2, <3>3, <4>1 DEF Mended
    <3>6. CASE k \notin K
      <4>1. l2'[k] = l2[k]
        BY <2>2, <3>6
      <4>2. Promised(n, k) => Promised(n, k)'
        BY <1>2, <1>3, <2>1, <3>6 DEF Promised, AsyncPending, Holds, K
      <4>3. Unwritten(n, k) => Unwritten(n, k)'
        BY <1>1, <1>2, <1>3, <2>1, <3>6 DEF Unwritten, Entering, SyncPending, Holds, K
      <4>. QED  BY <1>2, <3>1, <3>2, <3>3, <4>1, <4>2, <4>3 DEF Mended
    <3>. QED  BY <3>4, <3>5, <3>6
  <2>. QED  BY <2>3, <2>4
<1>5. CASE /\ Fails /\ UNCHANGED l2 /\ op' = [op EXCEPT ![t].pc = "publish"]
           /\ spoilt' = spoilt \union Missed({h}, K)
  <2>1. /\ \A r \in Threads : r # t => op'[r] = op[r]
        /\ op'[t].pc = "publish" /\ op'[t].keys = K
    BY <1>0, <1>5 DEF Ops, Calls, AsyncPuts, K
  <2>2. \A n \in Nodes, k \in Keys :
          <<n, k>> \in Missed({h}, K) <=> n = h /\ k \in K /\ l1[n][k] # None
    <3>. DEFINE L == {h}
    <3>1. L \in SUBSET Nodes /\ \A n : n \in L <=> n = h
      BY <1>1
    <3>. HIDE DEF L
    <3>2. \A n \in Nodes, k \in Keys :
            <<n, k>> \in Missed(L, K) <=> n \in L /\ k \in K /\ l1[n][k] # None
      BY <1>1, <3>1, MissedEntries
    <3>. QED  BY <3>1, <3>2 DEF L
  <2>3. FreshFills'
    BY <1>5, <2>1 DEF FreshFills, CacheInv
  <2>4. ASSUME NEW n \in Nodes, NEW k \in Keys PROVE EntryMended(n, k)'
    <3>1. SUFFICES ASSUME Live(n, k)', Live(n, k), LastSync(n, k), LastAsync(n, k), Mended(n, k)
                   PROVE  (LastSync(n, k) /\ LastAsync(n, k) /\ Mended(n, k))'
      BY <1>2, <1>5 DEF EntryMended, Live, CacheInv
    <3>2. ~(n = h /\ k \in K)
      BY <1>2, <1>5, <2>2, <3>1 DEF Live
    <3>3. LastSync(n, k)'
      BY <1>2, <2>1, <3>1 DEF LastSync
    <3>4. LastAsync(n, k)'
      BY <1>1, <1>2, <2>1, <3>1 DEF LastAsync, LastEntering, Queues, LastQueued, IsLast, Holds
    <3>5. Promised(n, k) => Promised(n, k)'
      BY <1>2, <2>1 DEF Promised, AsyncPending, Holds, K
    <3>6. Unwritten(n, k) => Unwritten(n, k)'
      BY <1>1, <1>2, <2>1, <3>2 DEF Unwritten, Entering, SyncPending, Holds, K, h
    <3>. QED  BY <1>2, <1>5, <3>1, <3>3, <3>4, <3>5, <3>6 DEF Mended
  <2>. QED  BY <2>3, <2>4
<1>. QED  BY <1>4, <1>5 DEF WriteL2, h, K, v, o

LEMMA PublishMends ==
  ASSUME CacheInv, UNCHANGED given, NEW t \in Threads, Publish(t)
  PROVE  FreshFills' /\ \A n \in Nodes, k \in Keys : EntryMended(n, k)'
<1>. DEFINE h == home[t]
           K == op[t].keys
           m == [keys |-> K, clear |-> op[t].clear, from |-> h]
<1>0. CacheTypeOK
  BY DEF CacheInv
<1>1. K \in SUBSET Keys /\ op[t].clear \in BOOLEAN /\ h \in Nodes /\ op[t].pc = "publish"
  BY <1>0, HomeIsNode, OpFields DEF Publish, CacheTypeOK
<1>2. m \in Msgs /\ m.keys = K /\ m.from = h
  BY <1>1 DEF Msgs
<1>. HIDE DEF h, K, m
<1>3. op'[t].pc = "idle" /\ \A r \in Threads : r # t => op'[r] = op[r]
  BY <1>0, IdleOp DEF Publish, CacheTypeOK
<1>4. UNCHANGED <<l1, l2, queue, batch, at, home>>
  BY DEF Publish, async, given
<1>5. FreshFills'
  BY <1>3, <1>4 DEF FreshFills, CacheInv
<1>6. ASSUME spoilt \in SUBSET spoilt',
             \A n \in Nodes, k \in Keys : Live(n, k)' /\ Promised(n, k) => Promised(n, k)'
      PROVE  \A n \in Nodes, k \in Keys : EntryMended(n, k)'
  <2>. SUFFICES ASSUME NEW n \in Nodes, NEW k \in Keys PROVE EntryMended(n, k)'
    OBVIOUS
  <2>1. SUFFICES ASSUME Live(n, k)', LastSync(n, k), LastAsync(n, k), Mended(n, k)
                 PROVE  (LastSync(n, k) /\ LastAsync(n, k) /\ Mended(n, k))'
    BY <1>4, <1>6 DEF EntryMended, Live, CacheInv
  <2>2. LastSync(n, k)'
    BY <1>3, <1>4, <2>1 DEF LastSync
  <2>3. LastAsync(n, k)'
    BY <1>1, <1>3, <1>4, <2>1 DEF LastAsync, LastEntering, Queues, LastQueued, IsLast, Holds
  <2>4. Unwritten(n, k) => Unwritten(n, k)'
    BY <1>1, <1>3, <1>4 DEF Unwritten, Entering, SyncPending, Holds
  <2>. QED  BY <1>4, <1>6, <2>1, <2>2, <2>3, <2>4 DEF Mended
<1>7. CASE /\ Works /\ Send(h, <<m>>)
           /\ spoilt' = spoilt \union Missed(Nodes \ (sub \union {h}), K)
  <2>. DEFINE L == Nodes \ (sub \union {h})
  <2>1. \A n \in Nodes, k \in Keys :
          <<n, k>> \in Missed(L, K) <=> n \in L /\ k \in K /\ l1[n][k] # None
    <3>1. L \in SUBSET Nodes
      OBVIOUS
    <3>. HIDE DEF L
    <3>. QED  BY <1>1, <3>1, MissedEntries
  <2>2. \A n \in Nodes :
          /\ n \in sub => \E i \in DOMAIN chan'[n] : chan'[n][i] = m
          /\ \A i \in DOMAIN chan[n] : i \in DOMAIN chan'[n] /\ chan'[n][i] = chan[n][i]
    <3>. SUFFICES ASSUME NEW n \in Nodes
                  PROVE  /\ n \in sub => \E i \in DOMAIN chan'[n] : chan'[n][i] = m
                         /\ \A i \in DOMAIN chan[n] : i \in DOMAIN chan'[n] /\ chan'[n][i] = chan[n][i]
      OBVIOUS
    <3>1. chan[n] \in Seq(Msgs)
      BY <1>0 DEF CacheTypeOK
    <3>2. /\ DOMAIN (chan[n] \o <<m>>) = 1 .. (Len(chan[n]) + 1)
          /\ (chan[n] \o <<m>>)[Len(chan[n]) + 1] = m
          /\ \A i \in 1 .. Len(chan[n]) : (chan[n] \o <<m>>)[i] = chan[n][i]
          /\ Len(chan[n]) \in Nat /\ DOMAIN chan[n] = 1 .. Len(chan[n])
      BY <1>2, <3>1
    <3>3. chan'[n] = IF n \in sub THEN chan[n] \o <<m>> ELSE chan[n]
      BY <1>7 DEF Send
    <3>. QED  BY <3>2, <3>3
  <2>3. ASSUME NEW n \in Nodes, NEW k \in Keys, Live(n, k)', Promised(n, k) PROVE Promised(n, k)'
    <3>1. CASE n # h /\ k \in K
      <4>1. n \in sub
        BY <1>4, <1>7, <2>1, <2>3, <3>1 DEF Live
      <4>2. PICK i \in DOMAIN chan'[n] : chan'[n][i] = m
        BY <2>2, <4>1
      <4>. QED  BY <1>2, <3>1, <4>2 DEF Promised
    <3>2. CASE ~(n # h /\ k \in K)
      BY <1>3, <1>4, <2>2, <2>3, <3>2 DEF Promised, AsyncPending, Holds, h, K
    <3>. QED  BY <3>1, <3>2
  <2>4. spoilt \in SUBSET spoilt'
    BY <1>7
  <2>. QED  BY <1>5, <1>6, <2>3, <2>4
<1>8. CASE /\ Fails /\ UNCHANGED topic
           /\ spoilt' = spoilt \union Missed(Nodes \ {h}, K)
  <2>. DEFINE L == Nodes \ {h}
  <2>1. \A n \in Nodes, k \in Keys :
          <<n, k>> \in Missed(L, K) <=> n \in L /\ k \in K /\ l1[n][k] # None
    <3>1. L \in SUBSET Nodes
      OBVIOUS
    <3>. HIDE DEF L
    <3>. QED  BY <1>1, <3>1, MissedEntries
  <2>2. ASSUME NEW n \in Nodes, NEW k \in Keys, Live(n, k)', Promised(n, k) PROVE Promised(n, k)'
    <3>1. ~(n # h /\ k \in K)
      BY <1>4, <1>8, <2>1, <2>2 DEF Live
    <3>. QED  BY <1>3, <1>4, <1>8, <2>2, <3>1 DEF Promised, AsyncPending, Holds, h, K, topic
  <2>3. spoilt \in SUBSET spoilt'
    BY <1>8
  <2>. QED  BY <1>5, <1>6, <2>2, <2>3
<1>. QED  BY <1>7, <1>8 DEF Publish, h, K, m

LEMMA PollMends ==
  ASSUME CacheInv, UNCHANGED given, NEW h \in Nodes, Poll(h)
  PROVE  FreshFills' /\ \A n \in Nodes, k \in Keys : EntryMended(n, k)'
<1>. DEFINE q == queue[h]
           b == batch[h]
           p == Head(q)
           T == Keys \X Values
<1>1. UNCHANGED <<l1, spoilt, l2, op, at, chan, home>> /\ at[h] = 0
  BY DEF Poll, entries, topic, given
<1>2. /\ q \in Seq(T) /\ q # <<>> /\ b \in Seq(T)
      /\ queue'[h] = Tail(q) /\ batch'[h] = Append(b, p)
      /\ \A n \in Nodes : n # h => queue'[n] = queue[n] /\ batch'[n] = batch[n]
  BY DEF Poll, CacheInv, CacheTypeOK
<1>3. /\ p = q[1] /\ 1 \in DOMAIN q /\ Len(b) \in Nat /\ DOMAIN b = 1 .. Len(b) /\ p \in T
      /\ DOMAIN Append(b, p) = 1 .. (Len(b) + 1)
  BY <1>2
<1>. HIDE DEF q, b, p, T
<1>4. /\ \A k : Holds(q, k) <=> Holds(queue'[h], k) \/ p[1] = k
      /\ \A i \in DOMAIN queue'[h] : i + 1 \in DOMAIN q /\ queue'[h][i] = q[i + 1]
  BY <1>2, HeadTailEnds DEF p
<1>5. \A k : \A i \in DOMAIN queue'[h] : IsLast(queue'[h], i, k) => IsLast(q, i + 1, k)
  <2>1. \A k : \A i \in DOMAIN Tail(q) : IsLast(Tail(q), i, k) => IsLast(q, i + 1, k)
    BY <1>2, HeadTailEnds
  <2>. QED  BY <1>2, <2>1
<1>6. \A k : ~Holds(queue'[h], k) /\ p[1] = k => IsLast(q, 1, k)
  BY <1>2, HeadTailEnds DEF p
<1>7. \A k : Holds(batch'[h], k) <=> Holds(b, k) \/ p[1] = k
  <2>1. \A k : Holds(Append(b, p), k) <=> Holds(b, k) \/ p[1] = k
    BY <1>2, <1>3, AppendEnds
  <2>. QED  BY <1>2, <2>1
<1>8. \A k : p[1] = k => \A i : IsLast(batch'[h], i, k) => i = Len(b) + 1
  <2>1. \A k : p[1] = k => \A i : IsLast(Append(b, p), i, k) => i = Len(b) + 1
    BY <1>2, <1>3, AppendEnds
  <2>. QED  BY <1>2, <2>1
<1>9. \A k : p[1] # k => \A i : IsLast(batch'[h], i, k) => i # Len(b) + 1 /\ IsLast(b, i, k)
  BY <1>2, <1>3, AppendEnds
<1>10. /\ batch'[h][Len(b) + 1] = p /\ Len(b) + 1 \in DOMAIN batch'[h]
       /\ \A i \in DOMAIN b : batch'[h][i] = b[i] /\ i \in DOMAIN batch'[h]
  BY <1>2, <1>3, AppendEnds
<1>11. FreshFills'
  BY <1>1 DEF FreshFills, CacheInv
<1>12. \A m \in Nodes, k \in Keys : AsyncPending(m, k) <=> AsyncPending(m, k)'
  <2>. SUFFICES ASSUME NEW m \in Nodes, NEW k \in Keys PROVE AsyncPending(m, k) <=> AsyncPending(m, k)'
    OBVIOUS
  <2>1. CASE m = h
    BY <1>4, <1>7, <2>1 DEF AsyncPending, q, b
  <2>2. CASE m # h
    BY <1>2, <2>2 DEF AsyncPending
  <2>. QED  BY <2>1, <2>2
<1>13. ASSUME NEW n \in Nodes, NEW k \in Keys PROVE EntryMended(n, k)'
  <2>1. SUFFICES ASSUME LastSync(n, k), LastAsync(n, k), Mended(n, k)
                 PROVE  (LastSync(n, k) /\ LastAsync(n, k) /\ Mended(n, k))'
    BY <1>1 DEF EntryMended, Live, CacheInv
  <2>2. LastSync(n, k)'
    BY <1>1, <2>1 DEF LastSync
  <2>3. LastAsync(n, k)'
    <3>1. LastEntering(n, k) => LastEntering(n, k)'
      BY <1>1 DEF LastEntering, Queues
    <3>2. CASE LastQueued(n, k) /\ n # h
      <4>1. queue'[n] = queue[n] /\ batch'[n] = batch[n]
        BY <1>2, <3>2
      <4>. QED  BY <1>1, <3>2, <4>1 DEF LastAsync, LastQueued
    <3>3. CASE LastQueued(n, k) /\ n = h
      <4>1. \A i \in DOMAIN queue'[h] : IsLast(queue'[h], i, k) => queue'[h][i][2] = l1[n][k]
        BY <1>4, <1>5, <3>3 DEF LastQueued, q
      <4>2. ASSUME ~Holds(queue'[h], k), NEW i \in DOMAIN batch'[h], IsLast(batch'[h], i, k)
            PROVE  batch'[h][i][2] = l1[n][k]
        <5>1. CASE p[1] = k
          <6>1. i = Len(b) + 1 /\ IsLast(q, 1, k)
            BY <1>6, <1>8, <4>2, <5>1
          <6>. QED  BY <1>3, <1>10, <3>3, <6>1 DEF LastQueued, q
        <5>2. CASE p[1] # k
          <6>1. ~Holds(q, k) /\ IsLast(b, i, k)
            BY <1>4, <1>9, <4>2, <5>2
          <6>2. i \in DOMAIN b
            BY <6>1 DEF IsLast
          <6>. QED  BY <1>10, <3>3, <6>1, <6>2 DEF LastQueued, q, b
        <5>. QED  BY <5>1, <5>2
      <4>. QED  BY <1>1, <3>3, <4>1, <4>2 DEF LastAsync, LastQueued
    <3>. QED  BY <2>1, <3>1, <3>2, <3>3 DEF LastAsync
  <2>4. Promised(n, k) => Promised(n, k)'
    BY <1>1, <1>12 DEF Promised
  <2>5. Unwritten(n, k) => Unwritten(n, k)'
    <3>1. CASE n # h
      BY <1>1, <1>2, <3>1 DEF Unwritten, Entering, SyncPending, Holds
    <3>2. CASE n = h
      <4>1. CASE SyncPending(n, k) \/ Entering(n, k)
        BY <1>1, <4>1 DEF Unwritten, Entering, SyncPending
      <4>2. CASE Holds(queue[n], k)
        <5>1. 0 <= Len(b) + 1
          BY <1>3
        <5>. QED  BY <1>1, <1>4, <1>10, <3>2, <4>2, <5>1 DEF Unwritten, q
      <4>3. CASE \E i \in DOMAIN batch[n] : at[n] <= i /\ batch[n][i][1] = k
        BY <1>1, <1>10, <3>2, <4>3 DEF Unwritten, b
      <4>. QED  BY <4>1, <4>2, <4>3 DEF Unwritten
    <3>. QED  BY <3>1, <3>2
  <2>. QED  BY <1>1, <2>1, <2>2, <2>3, <2>4, <2>5 DEF Mended
<1>. QED  BY <1>11, <1>13

LEMMA FlushStartMends ==
  ASSUME CacheInv, UNCHANGED given, NEW h \in Nodes, FlushStart(h)
  PROVE  FreshFills' /\ \A n \in Nodes, k \in Keys : EntryMended(n, k)'
<1>1. UNCHANGED <<l1, spoilt, l2, op, queue, batch, chan, home>>
  BY DEF FlushStart, entries, topic, given
<1>2. at'[h] = 1 /\ \A n \in Nodes : n # h => at'[n] = at[n]
  BY DEF FlushStart, CacheInv, CacheTypeOK
<1>3. \A n \in Nodes : \A i \in DOMAIN batch[n] : 1 <= i
  BY DEF CacheInv, CacheTypeOK
<1>4. FreshFills'
  BY <1>1 DEF FreshFills, CacheInv
<1>5. ASSUME NEW n \in Nodes, NEW k \in Keys PROVE EntryMended(n, k)'
  <2>1. LastSync(n, k) => LastSync(n, k)'
    BY <1>1 DEF LastSync
  <2>2. LastAsync(n, k) => LastAsync(n, k)'
    BY <1>1 DEF LastAsync, LastEntering, Queues, LastQueued, IsLast, Holds
  <2>3. Promised(n, k) => Promised(n, k)'
    BY <1>1 DEF Promised, AsyncPending, Holds
  <2>4. Unwritten(n, k) => Unwritten(n, k)'
    BY <1>1, <1>2, <1>3 DEF Unwritten, Entering, SyncPending, Holds
  <2>. QED  BY <1>1, <2>1, <2>2, <2>3, <2>4 DEF EntryMended, Live, Mended, CacheInv
<1>. QED  BY <1>4, <1>5

LEMMA WriteBatchMends ==
  ASSUME CacheInv, UNCHANGED given, NEW h \in Nodes, WriteBatch(h)
  PROVE  FreshFills' /\ \A n \in Nodes, k \in Keys : EntryMended(n, k)'
<1>. DEFINE b == batch[h]
           a == at[h]
           p == b[a]
           K == {b[i][1] : i \in a .. Len(b)}
           o == Aged(op, {p[1]})
<1>0. CacheTypeOK /\ op \in [Threads -> Ops]
  BY DEF CacheInv, CacheTypeOK
<1>1. /\ Len(b) \in Nat /\ DOMAIN b = 1 .. Len(b) /\ a \in DOMAIN b /\ p \in Keys \X Values
      /\ \A i \in DOMAIN b : b[i] \in Keys \X Values
  BY <1>0 DEF WriteBatch, CacheTypeOK
<1>2. p[1] \in Keys /\ p[2] \in Values \union {None} /\ K \in SUBSET Keys
      /\ \A i \in DOMAIN b : a <= i => b[i][1] \in K
  BY <1>1
<1>3. UNCHANGED <<l1, queue, batch, chan, home>>
  BY DEF WriteBatch, topic, given
<1>4. o \in [Threads -> Ops] /\ \A r \in Threads :
        o[r].pc = op[r].pc /\ o[r].keys = op[r].keys /\ o[r].val = op[r].val
  <2>1. {p[1]} \in SUBSET Keys
    BY <1>2
  <2>. QED  BY <1>0, <2>1, AgedOps
<1>. HIDE DEF a, b, p, K, o
<1>5. ASSUME Works, SetL2({p[1]}, p[2]), op' = o, at' = [at EXCEPT ![h] = a + 1], UNCHANGED spoilt
      PROVE  FreshFills' /\ \A n \in Nodes, k \in Keys : EntryMended(n, k)'
  <2>. DEFINE L == {p[1]}
             v == p[2]
  <2>0. L \in SUBSET Keys /\ v \in Values \union {None} /\ SetL2(L, v) /\ o = Aged(op, L)
        /\ \A k : k \in L <=> k = p[1]
    BY <1>2, <1>5 DEF o
  <2>. HIDE DEF L, v
  <2>1. \A k \in Keys : l2'[k] = IF k \in L THEN v ELSE l2[k]
    BY <1>0, <2>0, SetL2Entries
  <2>2. FreshFills'
    <3>1. \A r \in Threads : op'[r] = o[r] \/ op'[r].pc # "fill"
      BY <1>5
    <3>. QED  BY <1>4, <2>0, <3>1, AgedFresh
  <2>3. at'[h] = a + 1 /\ \A n \in Nodes : n # h => at'[n] = at[n]
    BY <1>0, <1>5 DEF CacheTypeOK
  <2>4. ASSUME NEW n \in Nodes, NEW k \in Keys PROVE EntryMended(n, k)'
    <3>1. SUFFICES ASSUME LastSync(n, k), LastAsync(n, k), Mended(n, k)
                   PROVE  (LastSync(n, k) /\ LastAsync(n, k) /\ Mended(n, k))'
      BY <1>3, <1>5 DEF EntryMended, Live, CacheInv
    <3>2. LastSync(n, k)'
      BY <1>3, <1>4, <1>5, <3>1 DEF LastSync
    <3>3. LastAsync(n, k)'
      BY <1>3, <1>4, <1>5, <3>1 DEF LastAsync, LastEntering, Queues, LastQueued, IsLast, Holds
    <3>4. Promised(n, k) => Promised(n, k)'
      BY <1>3, <1>4, <1>5 DEF Promised, AsyncPending, Holds
    <3>5. SyncPending(n, k) \/ Entering(n, k) => (SyncPending(n, k) \/ Entering(n, k))'
      BY <1>3, <1>4, <1>5 DEF SyncPending, Entering
    <3>6. CASE k # p[1]
      <4>1. l2'[k] = l2[k]
        BY <2>0, <2>1, <3>6
      <4>2. ASSUME NEW i \in DOMAIN batch[n], at[n] <= i, batch[n][i][1] = k
            PROVE  at'[n] <= i
        <5>1. CASE n = h
          <6>1. i # a
            BY <3>6, <4>2, <5>1 DEF p, b
          <6>. QED  BY <1>1, <2>3, <4>2, <5>1, <6>1 DEF a, b
        <5>. QED  BY <2>3, <4>2, <5>1
      <4>3. Unwritten(n, k) => Unwritten(n, k)'
        BY <1>3, <3>5, <4>2 DEF Unwritten, Holds
      <4>. QED  BY <1>3, <3>1, <3>2, <3>3, <3>4, <4>1, <4>3 DEF Mended
    <3>7. CASE k = p[1] /\ n # h
      <4>1. Promised(n, k)'
        BY <1>1, <1>3, <3>7 DEF Promised, AsyncPending, Holds, b, p
      <4>. QED  BY <3>2, <3>3, <4>1 DEF Mended
    <3>8. CASE k = p[1] /\ n = h
      <4>1. CASE Holds(queue[h], k)
        BY <1>3, <3>2, <3>3, <3>8, <4>1 DEF Mended, Unwritten
      <4>2. CASE \E j \in DOMAIN b : a < j /\ b[j][1] = k
        <5>1. PICK j \in DOMAIN b : a < j /\ b[j][1] = k
          BY <4>2
        <5>2. at'[n] <= j
          BY <1>1, <2>3, <3>8, <5>1
        <5>3. Unwritten(n, k)'
          BY <1>3, <3>8, <5>1, <5>2 DEF Unwritten, b
        <5>. QED  BY <3>2, <3>3, <5>3 DEF Mended
      <4>3. CASE LastEntering(n, k)
        <5>1. Entering(n, k)
          BY <4>3 DEF LastEntering, Queues, Entering
        <5>. QED  BY <3>2, <3>3, <3>5, <5>1 DEF Mended, Unwritten
      <4>4. CASE /\ ~Holds(queue[h], k) /\ ~\E j \in DOMAIN b : a < j /\ b[j][1] = k
                 /\ LastQueued(n, k)
        <5>1. IsLast(b, a, k)
          BY <1>1, <3>8, <4>4 DEF IsLast, p
        <5>2. p[2] = l1[n][k]
          BY <1>1, <3>8, <4>4, <5>1 DEF LastQueued, b, p
        <5>3. l2'[k] = p[2]
          BY <2>0, <2>1, <3>8 DEF v
        <5>. QED  BY <1>3, <3>2, <3>3, <5>2, <5>3 DEF Mended
      <4>. QED  BY <3>1, <4>1, <4>2, <4>3, <4>4 DEF LastAsync
    <3>. QED  BY <3>6, <3>7, <3>8
  <2>. QED  BY <2>2, <2>4
<1>6. ASSUME Fails, UNCHANGED <<l2, op>>, at' = [at EXCEPT ![h] = Len(b) + 1],
             spoilt' = spoilt \union Missed({h}, K)
      PROVE  FreshFills' /\ \A n \in Nodes, k \in Keys : EntryMended(n, k)'
  <2>1. FreshFills'
    BY <1>6 DEF FreshFills, CacheInv
  <2>2. \A n \in Nodes, k \in Keys :
          <<n, k>> \in Missed({h}, K) <=> n = h /\ k \in K /\ l1[n][k] # None
    <3>. DEFINE L == {h}
    <3>1. L \in SUBSET Nodes /\ \A n : n \in L <=> n = h
      OBVIOUS
    <3>. HIDE DEF L
    <3>2. \A n \in Nodes, k \in Keys :
            <<n, k>> \in Missed(L, K) <=> n \in L /\ k \in K /\ l1[n][k] # None
      BY <1>2, <3>1, MissedEntries
    <3>. QED  BY <3>1, <3>2 DEF L
  <2>3. \A n \in Nodes : n # h => at'[n] = at[n]
    BY <1>0, <1>6 DEF CacheTypeOK
  <2>4. ASSUME NEW n \in Nodes, NEW k \in Keys PROVE EntryMended(n, k)'
    <3>1. SUFFICES ASSUME Live(n, k)', Live(n, k), LastSync(n, k), LastAsync(n, k), Mended(n, k)
                   PROVE  (LastSync(n, k) /\ LastAsync(n, k) /\ Mended(n, k))'
      BY <1>3, <1>6 DEF EntryMended, Live, CacheInv
    <3>2. LastSync(n, k)'
      BY <1>3, <1>6, <3>1 DEF LastSync
    <3>3. LastAsync(n, k)'
      BY <1>3, <1>6, <3>1 DEF LastAsync, LastEntering, Queues, LastQueued, IsLast, Holds
    <3>4. Promised(n, k) => Promised(n, k)'
      BY <1>3, <1>6 DEF Promised, AsyncPending, Holds
    <3>5. ~(n = h /\ k \in K)
      BY <1>3, <1>6, <2>2, <3>1 DEF Live
    <3>6. ~(n = h /\ \E i \in DOMAIN b : a <= i /\ b[i][1] = k)
      BY <1>2, <3>5
    <3>7. Unwritten(n, k) => Unwritten(n, k)'
      BY <1>3, <1>6, <2>3, <3>6 DEF Unwritten, Entering, SyncPending, Holds, a, b
    <3>. QED  BY <1>3, <1>6, <3>1, <3>2, <3>3, <3>4, <3>7 DEF Mended
  <2>. QED  BY <2>1, <2>4
<1>. QED  BY <1>5, <1>6 DEF WriteBatch, a, b, p, K, o

LEMMA PublishBatchMends ==
  ASSUME CacheInv, UNCHANGED given, NEW h \in Nodes, PublishBatch(h)
  PROVE  FreshFills' /\ \A n \in Nodes, k \in Keys : EntryMended(n, k)'
<1>. DEFINE b == batch[h]
           K == {p[1] : p \in {b[i] : i \in DOMAIN b}}
           ms == Announced(h)
<1>0. CacheTypeOK
  BY DEF CacheInv
<1>1. UNCHANGED <<l1, l2, op, queue, home>>
  BY DEF PublishBatch, given
<1>2. at'[h] = 0 /\ \A n \in Nodes : n # h => at'[n] = at[n]
  BY <1>0 DEF PublishBatch, CacheTypeOK
<1>3. /\ Len(b) \in Nat /\ DOMAIN b = 1 .. Len(b)
      /\ \A i \in DOMAIN b : ~(at[h] <= i) /\ 0 <= i
  BY <1>0 DEF PublishBatch, CacheTypeOK
<1>4. /\ ms \in Seq(Msgs) /\ Len(ms) = Len(b) /\ K \in SUBSET Keys
      /\ \A i \in 1 .. Len(b) : ms[i].keys = {b[i][1]} /\ ms[i].from = h
  BY <1>0, AnnouncedMessages
<1>5. \A k : Holds(b, k) <=> k \in K
  BY <1>0, AnnouncedMessages
<1>. HIDE DEF b, K, ms
<1>6. FreshFills'
  BY <1>1 DEF FreshFills, CacheInv
<1>7. CASE /\ Works
           /\ Send(h, ms)
           /\ spoilt' = spoilt \union Missed(Nodes \ (sub \union {h}), K)
           /\ batch' = [batch EXCEPT ![h] = <<>>]
  <2>. DEFINE L == Nodes \ (sub \union {h})
  <2>1. \A n \in Nodes, k \in Keys :
          <<n, k>> \in Missed(L, K) <=> n \in L /\ k \in K /\ l1[n][k] # None
    <3>1. L \in SUBSET Nodes
      OBVIOUS
    <3>. HIDE DEF L
    <3>. QED  BY <1>4, <3>1, MissedEntries
  <2>2. batch'[h] = <<>> /\ \A n \in Nodes : n # h => batch'[n] = batch[n]
    BY <1>0, <1>7 DEF CacheTypeOK
  <2>3. \A n \in Nodes :
          /\ \A i \in DOMAIN chan[n] : i \in DOMAIN chan'[n] /\ chan'[n][i] = chan[n][i]
          /\ n \in sub => \A j \in 1 .. Len(b) : \E i \in DOMAIN chan'[n] : chan'[n][i] = ms[j]
    <3>. SUFFICES ASSUME NEW n \in Nodes
                  PROVE  /\ \A i \in DOMAIN chan[n] : i \in DOMAIN chan'[n] /\ chan'[n][i] = chan[n][i]
                         /\ n \in sub =>
                              \A j \in 1 .. Len(b) : \E i \in DOMAIN chan'[n] : chan'[n][i] = ms[j]
      OBVIOUS
    <3>1. chan[n] \in Seq(Msgs)
      BY <1>0 DEF CacheTypeOK
    <3>2. /\ DOMAIN (chan[n] \o ms) = 1 .. (Len(chan[n]) + Len(ms))
          /\ \A i \in 1 .. Len(chan[n]) : (chan[n] \o ms)[i] = chan[n][i]
          /\ \A j \in 1 .. Len(ms) : (chan[n] \o ms)[Len(chan[n]) + j] = ms[j]
          /\ Len(chan[n]) \in Nat /\ Len(ms) \in Nat /\ DOMAIN chan[n] = 1 .. Len(chan[n])
      <4>1. chan[n] \o ms \in Seq(Msgs) /\ Len(chan[n] \o ms) = Len(chan[n]) + Len(ms)
            /\ \A i \in 1 .. Len(chan[n]) + Len(ms) :
                 (chan[n] \o ms)[i] = IF i <= Len(chan[n]) THEN chan[n][i] ELSE ms[i - Len(chan[n])]
        <5>. DEFINE c == chan[n]
        <5>1. c \in Seq(Msgs) /\ ms \in Seq(Msgs)
          BY <1>4, <3>1
        <5>. HIDE DEF c
        <5>2. c \o ms \in Seq(Msgs) /\ Len(c \o ms) = Len(c) + Len(ms)
          BY <5>1, ConcatProperties
        <5>3. \A i \in 1 .. Len(c) + Len(ms) : (c \o ms)[i] = IF i <= Len(c) THEN c[i] ELSE ms[i - Len(c)]
          BY <5>1, ConcatProperties
        <5>. QED  BY <5>2, <5>3 DEF c
      <4>2. Len(chan[n]) \in Nat /\ Len(ms) \in Nat /\ DOMAIN chan[n] = 1 .. Len(chan[n])
            /\ DOMAIN (chan[n] \o ms) = 1 .. Len(chan[n] \o ms)
        BY <1>4, <3>1, <4>1
      <4>3. \A i \in 1 .. Len(chan[n]) : (chan[n] \o ms)[i] = chan[n][i]
        BY <4>1, <4>2
      <4>4. ASSUME NEW j \in 1 .. Len(ms) PROVE (chan[n] \o ms)[Len(chan[n]) + j] = ms[j]
        <5>1. /\ Len(chan[n]) + j \in 1 .. Len(chan[n]) + Len(ms)
              /\ ~(Len(chan[n]) + j <= Len(chan[n]))
              /\ Len(chan[n]) + j - Len(chan[n]) = j
          BY <4>2
        <5>. QED  BY <4>1, <5>1
      <4>. QED  BY <4>1, <4>2, <4>3, <4>4
    <3>3. chan'[n] = IF n \in sub THEN chan[n] \o ms ELSE chan[n]
      BY <1>7 DEF Send
    <3>4. \A i \in DOMAIN chan[n] : i \in DOMAIN chan'[n] /\ chan'[n][i] = chan[n][i]
      BY <3>2, <3>3
    <3>5. ASSUME n \in sub, NEW j \in 1 .. Len(b) PROVE \E i \in DOMAIN chan'[n] : chan'[n][i] = ms[j]
      <4>1. Len(chan[n]) + j \in 1 .. (Len(chan[n]) + Len(ms))
        BY <1>4, <3>2, <3>5
      <4>. QED  BY <1>4, <3>2, <3>3, <3>5, <4>1
    <3>. QED  BY <3>4, <3>5
  <2>4. ASSUME NEW n \in Nodes, NEW k \in Keys PROVE EntryMended(n, k)'
    <3>1. SUFFICES ASSUME Live(n, k)', LastSync(n, k), LastAsync(n, k), Mended(n, k)
                   PROVE  (LastSync(n, k) /\ LastAsync(n, k) /\ Mended(n, k))'
      BY <1>1, <1>7 DEF EntryMended, Live, CacheInv
    <3>2. LastSync(n, k)'
      BY <1>1, <3>1 DEF LastSync
    <3>3. LastAsync(n, k)'
      <4>1. /\ queue'[n] = queue[n] /\ l1' = l1
            /\ LastEntering(n, k) => LastEntering(n, k)'
        BY <1>1 DEF LastEntering, Queues
      <4>2. CASE n = h
        <5>1. \A i \in DOMAIN batch'[n] : FALSE
          BY <2>2, <4>2
        <5>. QED  BY <3>1, <4>1, <5>1 DEF LastAsync, LastQueued
      <4>3. CASE n # h
        BY <2>2, <3>1, <4>1, <4>3 DEF LastAsync, LastQueued
      <4>. QED  BY <4>2, <4>3
    <3>4. Promised(n, k) => Promised(n, k)'
      <4>1. CASE n # h /\ Holds(b, k)
        <5>1. n \in sub
          BY <1>1, <1>5, <1>7, <2>1, <3>1, <4>1 DEF Live
        <5>2. PICK j \in 1 .. Len(b) : b[j][1] = k
          BY <1>3, <4>1 DEF Holds
        <5>3. PICK i \in DOMAIN chan'[n] : chan'[n][i] = ms[j]
          BY <2>3, <5>1
        <5>. QED  BY <1>4, <4>1, <5>2, <5>3 DEF Promised
      <4>2. CASE ~(n # h /\ Holds(b, k))
        <5>1. \A m \in Nodes : m # n /\ AsyncPending(m, k) => AsyncPending(m, k)'
          <6>. SUFFICES ASSUME NEW m \in Nodes, m # n, AsyncPending(m, k) PROVE AsyncPending(m, k)'
            OBVIOUS
          <6>1. CASE m = h
            BY <1>1, <4>2, <6>1 DEF AsyncPending, b
          <6>2. CASE m # h
            BY <1>1, <2>2, <6>2 DEF AsyncPending
          <6>. QED  BY <6>1, <6>2
        <5>. QED  BY <1>1, <2>3, <5>1 DEF Promised
      <4>. QED  BY <4>1, <4>2
    <3>5. Unwritten(n, k) => Unwritten(n, k)'
      <4>1. SyncPending(n, k) \/ Entering(n, k) => (SyncPending(n, k) \/ Entering(n, k))'
        BY <1>1 DEF SyncPending, Entering
      <4>2. CASE n = h
        BY <1>1, <1>3, <4>1, <4>2 DEF Unwritten, b
      <4>3. CASE n # h
        BY <1>1, <1>2, <2>2, <4>1, <4>3 DEF Unwritten
      <4>. QED  BY <4>2, <4>3
    <3>. QED  BY <1>1, <3>1, <3>2, <3>3, <3>4, <3>5 DEF Mended
  <2>. QED  BY <1>6, <2>4
<1>8. CASE Fails /\ UNCHANGED <<topic, spoilt, batch>>
  <2>1. UNCHANGED <<spoilt, batch, chan>>
    BY <1>8 DEF topic
  <2>2. ASSUME NEW n \in Nodes, NEW k \in Keys PROVE EntryMended(n, k)'
    <3>1. LastSync(n, k) => LastSync(n, k)'
      BY <1>1 DEF LastSync
    <3>2. LastAsync(n, k) => LastAsync(n, k)'
      BY <1>1, <2>1 DEF LastAsync, LastEntering, Queues, LastQueued, IsLast, Holds
    <3>3. Promised(n, k) => Promised(n, k)'
      BY <1>1, <2>1 DEF Promised, AsyncPending, Holds
    <3>4. Unwritten(n, k) => Unwritten(n, k)'
      <4>1. SyncPending(n, k) \/ Entering(n, k) => (SyncPending(n, k) \/ Entering(n, k))'
        BY <1>1 DEF SyncPending, Entering
      <4>2. CASE n = h
        BY <1>1, <1>3, <2>1, <4>1, <4>2 DEF Unwritten, b
      <4>3. CASE n # h
        BY <1>1, <1>2, <2>1, <4>1, <4>3 DEF Unwritten
      <4>. QED  BY <4>2, <4>3
    <3>. QED  BY <1>1, <2>1, <3>1, <3>2, <3>3, <3>4 DEF EntryMended, Live, Mended, CacheInv
  <2>. QED  BY <1>6, <2>2
<1>. QED  BY <1>7, <1>8 DEF PublishBatch, b, K, ms

\* A message taken off the topic, for an entry that it leaves as it was and has
\* nothing to say of.
LEMMA HeardMends ==
  ASSUME CacheInv, UNCHANGED <<l2, op, queue, batch, at, home>>, NEW h \in Nodes,
         chan[h] # <<>>, chan' = [chan EXCEPT ![h] = Tail(chan[h])],
         NEW n \in Nodes, NEW k \in Keys, l1'[n][k] = l1[n][k],
         <<n, k>> \in spoilt' <=> <<n, k>> \in spoilt,
         n = h => Head(chan[h]).from = h \/ k \notin Head(chan[h]).keys
  PROVE  EntryMended(n, k)'
<1>. DEFINE q == chan[h]
<1>1. q \in Seq(Msgs) /\ chan'[h] = Tail(q) /\ \A m \in Nodes : m # h => chan'[m] = chan[m]
  BY DEF CacheInv, CacheTypeOK
<1>2. /\ Len(q) \in Nat \ {0} /\ DOMAIN q = 1 .. Len(q) /\ DOMAIN Tail(q) = 1 .. (Len(q) - 1)
      /\ \A i \in 1 .. (Len(q) - 1) : Tail(q)[i] = q[i + 1]
      /\ Head(q) = q[1]
  BY <1>1
<1>. HIDE DEF q
<1>3. \A i \in DOMAIN q : i # 1 => i - 1 \in DOMAIN chan'[h] /\ chan'[h][i - 1] = q[i]
  BY <1>1, <1>2
<1>4. LastSync(n, k) => LastSync(n, k)'
  BY DEF LastSync
<1>5. LastAsync(n, k) => LastAsync(n, k)'
  BY DEF LastAsync, LastEntering, Queues, LastQueued, IsLast, Holds
<1>6. Unwritten(n, k) => Unwritten(n, k)'
  BY DEF Unwritten, Entering, SyncPending, Holds
<1>7. Promised(n, k) => Promised(n, k)'
  <2>1. ASSUME NEW i \in DOMAIN chan[n], k \in chan[n][i].keys, chan[n][i].from # n
        PROVE  \E j \in DOMAIN chan'[n] : k \in chan'[n][j].keys /\ chan'[n][j].from # n
    <3>1. CASE n # h
      <4>1. chan'[n] = chan[n]
        BY <1>1, <3>1
      <4>. QED  BY <2>1, <4>1
    <3>2. CASE n = h
      <4>1. i # 1
        BY <1>2, <2>1, <3>2 DEF q
      <4>2. i - 1 \in DOMAIN chan'[n] /\ chan'[n][i - 1] = chan[n][i]
        BY <1>3, <3>2, <4>1 DEF q
      <4>. QED  BY <2>1, <4>2
    <3>. QED  BY <3>1, <3>2
  <2>. QED  BY <2>1 DEF Promised, AsyncPending, Holds
<1>. QED  BY <1>4, <1>5, <1>6, <1>7 DEF EntryMended, Live, Mended, CacheInv

LEMMA OnMessageMends ==
  ASSUME CacheInv, UNCHANGED given, NEW h \in Nodes, OnMessage(h)
  PROVE  FreshFills' /\ \A n \in Nodes, k \in Keys : EntryMended(n, k)'
<1>. DEFINE m == Head(chan[h])
           K == m.keys
           S == {}
<1>0. CacheTypeOK
  BY DEF CacheInv
<1>1. /\ UNCHANGED <<l2, op, queue, batch, at, home>>
      /\ chan[h] # <<>> /\ chan' = [chan EXCEPT ![h] = Tail(chan[h])]
  BY DEF OnMessage, async, given
<1>2. K \in SUBSET Keys
  <2>1. m \in Msgs
    BY <1>0, <1>1 DEF CacheTypeOK
  <2>. QED  BY <1>0, <2>1, MistookKeys
<1>3. IF m.from = h THEN UNCHANGED <<l1, spoilt>> ELSE SetL1(h, K, None, S)
  BY DEF OnMessage
<1>4. FreshFills'
  BY <1>1 DEF FreshFills, CacheInv
<1>5. CASE m.from = h
  BY <1>1, <1>3, <1>4, <1>5, HeardMends
<1>6. CASE m.from # h
  <2>. HIDE DEF K, S
  <2>1. /\ \A y \in K : l1'[h][y] = None /\ (<<h, y>> \in spoilt' <=> y \in S)
        /\ \A n \in Nodes, y \in Keys : ~(n = h /\ y \in K) =>
             l1'[n][y] = l1[n][y] /\ (<<n, y>> \in spoilt' <=> <<n, y>> \in spoilt)
    <3>1. SetL1(h, K, None, S) /\ S \in SUBSET K
      BY <1>3, <1>6 DEF S
    <3>. QED  BY <1>0, <1>2, <3>1, SetL1Entries
  <2>2. ASSUME NEW n \in Nodes, NEW k \in Keys PROVE EntryMended(n, k)'
    <3>1. CASE n = h /\ k \in K
      BY <2>1, <3>1 DEF EntryMended, Live
    <3>2. CASE ~(n = h /\ k \in K)
      <4>1. l1'[n][k] = l1[n][k] /\ (<<n, k>> \in spoilt' <=> <<n, k>> \in spoilt)
        BY <2>1, <3>2
      <4>. QED  BY <1>1, <3>2, <4>1, HeardMends DEF K
    <3>. QED  BY <3>1, <3>2
  <2>. QED  BY <1>4, <2>2
<1>. QED  BY <1>5, <1>6

\* The entry that a misread message was about is dropped with others, or it is
\* spoilt, or it is none, or the node's own message was misread.
LEMMA MistakenMends ==
  ASSUME CacheInv, UNCHANGED given, NEW h \in Nodes, Mistaken(h)
  PROVE  FreshFills' /\ \A n \in Nodes, k \in Keys : EntryMended(n, k)'
<1>. DEFINE m == Head(chan[h])
<1>0. CacheTypeOK
  BY DEF CacheInv
<1>1. /\ UNCHANGED <<l2, op, queue, batch, at, home>>
      /\ chan[h] # <<>> /\ chan' = [chan EXCEPT ![h] = Tail(chan[h])]
  BY DEF Mistaken, async, given
<1>2. /\ \A k \in Mistook(m) : l1'[h][k] = None
      /\ \A n \in Nodes, k \in Keys : ~(n = h /\ k \in Mistook(m)) =>
           /\ l1'[n][k] = l1[n][k]
           /\ <<n, k>> \in spoilt' <=> <<n, k>> \in spoilt \/ (n = h /\ k \in Kept(h, m))
  BY <1>0, MistakenEntries
<1>3. FreshFills'
  BY <1>1 DEF FreshFills, CacheInv
<1>4. ASSUME NEW n \in Nodes, NEW k \in Keys PROVE EntryMended(n, k)'
  <2>1. CASE n = h /\ k \in Mistook(m)
    BY <1>2, <2>1 DEF EntryMended, Live
  <2>2. CASE ~(n = h /\ k \in Mistook(m)) /\ n = h /\ k \in Kept(h, m)
    BY <1>2, <2>2 DEF EntryMended, Live
  <2>3. CASE ~(n = h /\ k \in Mistook(m)) /\ ~(n = h /\ k \in Kept(h, m))
    <3>1. l1'[n][k] = l1[n][k] /\ (<<n, k>> \in spoilt' <=> <<n, k>> \in spoilt)
      BY <1>2, <2>3
    <3>2. CASE n = h => m.from = h \/ k \notin m.keys
      BY <1>1, <3>1, <3>2, HeardMends
    <3>3. CASE n = h /\ m.from # h /\ k \in m.keys
      BY <2>3, <3>1, <3>3 DEF Kept, EntryMended, Live
    <3>. QED  BY <3>2, <3>3
  <2>. QED  BY <2>1, <2>2, <2>3
<1>. QED  BY <1>3, <1>4

LEMMA UnsubscribedMends ==
  ASSUME CacheInv, UNCHANGED <<l1, l2, op, async, given>>, NEW h \in Nodes, Unsubscribed(h)
  PROVE  FreshFills' /\ \A n \in Nodes, k \in Keys : EntryMended(n, k)'
<1>. DEFINE K == Unheard(h)
           L == {h}
<1>0. CacheTypeOK
  BY DEF CacheInv
<1>1. UNCHANGED <<l1, l2, op, queue, batch, at, home>>
  BY DEF async, given
<1>2. \A n \in Nodes : n # h => chan'[n] = chan[n]
  BY <1>0 DEF Unsubscribed, CacheTypeOK
<1>3. spoilt' = spoilt \union Missed(L, K) /\ L \in SUBSET Nodes /\ \A n : n \in L <=> n = h
  BY DEF Unsubscribed, Unheard
<1>4. K \in SUBSET Keys /\ \A k : k \in K <=>
        \E i \in DOMAIN chan[h] : k \in chan[h][i].keys /\ chan[h][i].from # h
  BY <1>0, UnheardKeys
<1>. HIDE DEF K, L
<1>5. \A n \in Nodes, k \in Keys :
        <<n, k>> \in Missed(L, K) <=> n \in L /\ k \in K /\ l1[n][k] # None
  BY <1>3, <1>4, MissedEntries
<1>6. FreshFills'
  BY <1>1 DEF FreshFills, CacheInv
<1>7. ASSUME NEW n \in Nodes, NEW k \in Keys PROVE EntryMended(n, k)'
  <2>1. SUFFICES ASSUME Live(n, k)', LastSync(n, k), LastAsync(n, k), Mended(n, k)
                 PROVE  (LastSync(n, k) /\ LastAsync(n, k) /\ Mended(n, k))'
    BY <1>1, <1>3 DEF EntryMended, Live, CacheInv
  <2>2. LastSync(n, k)'
    BY <1>1, <2>1 DEF LastSync
  <2>3. LastAsync(n, k)'
    BY <1>1, <2>1 DEF LastAsync, LastEntering, Queues, LastQueued, IsLast, Holds
  <2>4. Unwritten(n, k) => Unwritten(n, k)'
    BY <1>1 DEF Unwritten, Entering, SyncPending, Holds
  <2>5. ~(n = h /\ k \in K)
    BY <1>1, <1>3, <1>5, <2>1 DEF Live
  <2>6. Promised(n, k) => Promised(n, k)'
    BY <1>1, <1>2, <1>4, <2>5 DEF Promised, AsyncPending, Holds
  <2>. QED  BY <1>1, <2>1, <2>2, <2>3, <2>4, <2>6 DEF Mended
<1>. QED  BY <1>6, <1>7

LEMMA ResubscribeMends ==
  ASSUME CacheInv, UNCHANGED given, NEW h \in Nodes, Resubscribe(h)
  PROVE  FreshFills' /\ \A n \in Nodes, k \in Keys : EntryMended(n, k)'
<1>1. UNCHANGED <<l1, spoilt, l2, op, queue, batch, at, chan, home>>
  BY DEF Resubscribe, entries, async, given
<1>2. FreshFills'
  BY <1>1 DEF FreshFills, CacheInv
<1>3. ASSUME NEW n \in Nodes, NEW k \in Keys PROVE EntryMended(n, k)'
  BY <1>1 DEF CacheInv, EntryMended, Live, LastSync, LastAsync, LastEntering, Queues, LastQueued, IsLast, Holds,
              Mended, Promised, Unwritten, Entering, SyncPending, AsyncPending
<1>. QED  BY <1>2, <1>3

LEMMA ExpireMends ==
  ASSUME CacheInv, UNCHANGED given, NEW x \in Keys, Expire(x)
  PROVE  FreshFills' /\ \A n \in Nodes, k \in Keys : EntryMended(n, k)'
<1>. DEFINE K == {x}
           o == Aged(op, K)
<1>0. CacheTypeOK /\ op \in [Threads -> Ops]
  BY DEF CacheInv, CacheTypeOK
<1>1. /\ K \in SUBSET Keys /\ SetL2(K, None) /\ op' = o
      /\ spoilt' = spoilt \union {<<n, x>> : n \in {m \in Nodes : l1[m][x] = l2[x]}}
  BY DEF Expire
<1>2. UNCHANGED <<l1, queue, batch, at, chan, home>>
  BY DEF Expire, async, topic, given
<1>3. o \in [Threads -> Ops] /\ \A r \in Threads :
        o[r].pc = op[r].pc /\ o[r].keys = op[r].keys /\ o[r].val = op[r].val
  BY <1>0, <1>1, AgedOps
<1>4. \A k : k \in K <=> k = x
  OBVIOUS
<1>. HIDE DEF K, o
<1>5. \A k \in Keys : k # x => l2'[k] = l2[k]
  BY <1>0, <1>1, <1>4, SetL2Entries
<1>6. FreshFills'
  BY <1>1, <1>3, AgedFresh DEF o
<1>7. ASSUME NEW n \in Nodes, NEW k \in Keys PROVE EntryMended(n, k)'
  <2>1. SUFFICES ASSUME Live(n, k)', LastSync(n, k), LastAsync(n, k), Mended(n, k)
                 PROVE  (LastSync(n, k) /\ LastAsync(n, k) /\ Mended(n, k))'
    BY <1>1, <1>2 DEF EntryMended, Live, CacheInv
  <2>2. LastSync(n, k)'
    BY <1>1, <1>2, <1>3, <2>1 DEF LastSync
  <2>3. LastAsync(n, k)'
    BY <1>1, <1>2, <1>3, <2>1 DEF LastAsync, LastEntering, Queues, LastQueued, IsLast, Holds
  <2>4. Promised(n, k) => Promised(n, k)'
    BY <1>1, <1>2, <1>3 DEF Promised, AsyncPending, Holds
  <2>5. Unwritten(n, k) => Unwritten(n, k)'
    BY <1>1, <1>2, <1>3 DEF Unwritten, Entering, SyncPending, Holds
  <2>6. k = x => l1[n][k] # l2[k]
    BY <1>1, <2>1 DEF Live
  <2>. QED  BY <1>2, <1>5, <2>1, <2>2, <2>3, <2>4, <2>5, <2>6 DEF Mended
<1>. QED  BY <1>6, <1>7
-----------------------------------------------------------------------------
(* The inductive invariant: a live entry that differs from Redis has been   *)
(* promised a message or is still to be written, and what its node writes   *)
(* last is what it holds.  (CaffeineRedisCache, RedisAsyncRunnable,         *)
(* JedisSubscriber.)                                                        *)
THEOREM CacheInvariant == CacheSpec => []CacheInv
<1>1. CacheInit => FreshFills /\ \A n \in Nodes, k \in Keys : EntryMended(n, k)
  BY DEF CacheInit, Idle, FreshFills, EntryMended, Live
<1>2. CacheInv /\ [CacheNext]_cacheVars => (FreshFills /\ \A n \in Nodes, k \in Keys : EntryMended(n, k))'
  <2>. SUFFICES ASSUME CacheInv, [CacheNext]_cacheVars
                PROVE  FreshFills' /\ \A n \in Nodes, k \in Keys : EntryMended(n, k)'
    OBVIOUS
  <2>1. CASE UNCHANGED cacheVars
    <3>1. UNCHANGED <<l1, spoilt, l2, op, queue, batch, at, chan, home>>
      BY <2>1 DEF cacheVars, entries, async, topic, given
    <3>2. FreshFills'
      BY <3>1 DEF FreshFills, CacheInv
    <3>3. ASSUME NEW n \in Nodes, NEW k \in Keys PROVE EntryMended(n, k)'
      BY <3>1 DEF CacheInv, EntryMended, Live, LastSync, LastAsync, LastEntering, Queues, LastQueued, IsLast, Holds,
                  Mended, Promised, Unwritten, Entering, SyncPending, AsyncPending
    <3>. QED  BY <3>2, <3>3
  <2>2. ASSUME NEW t \in Threads, NEW k \in Keys, UNCHANGED given,
               GetMiss(t, k) \/ Put(t, k) \/ PutAsync(t, k) \/ Remove(t, k) \/ Clear(t)
        PROVE  FreshFills' /\ \A n \in Nodes, x \in Keys : EntryMended(n, x)'
    BY <2>2, GetMissMends, PutMends, PutAsyncMends, DropMends DEF Remove, Clear
  <2>3. ASSUME NEW t \in Threads, UNCHANGED given, Fill(t) \/ WriteL2(t) \/ Publish(t) \/ Enqueue(t)
        PROVE  FreshFills' /\ \A n \in Nodes, x \in Keys : EntryMended(n, x)'
    BY <2>3, FillMends, WriteL2Mends, PublishMends, EnqueueMends
  <2>4. ASSUME NEW t \in Threads, UNCHANGED given, Clear(t)
        PROVE  FreshFills' /\ \A n \in Nodes, x \in Keys : EntryMended(n, x)'
    BY <2>4, DropMends DEF Clear
  <2>5. ASSUME NEW h \in Nodes, AsyncStep(h)
        PROVE  FreshFills' /\ \A n \in Nodes, x \in Keys : EntryMended(n, x)'
    BY <2>5, PollMends, FlushStartMends, WriteBatchMends, PublishBatchMends DEF AsyncStep
  <2>6. ASSUME NEW h \in Nodes, UNCHANGED given, SubStep(h) \/ LoseTopic(h)
        PROVE  FreshFills' /\ \A n \in Nodes, x \in Keys : EntryMended(n, x)'
    <3>1. CASE Misread(h) \/ LoseTopic(h)
      BY <2>6, <3>1, UnsubscribedMends DEF Misread, LoseTopic
    <3>. QED  BY <2>6, <3>1, OnMessageMends, MistakenMends, ResubscribeMends DEF SubStep
  <2>7. ASSUME NEW k \in Keys, UNCHANGED given, (\E h \in Nodes : Evict(h, k)) \/ Expire(k)
        PROVE  FreshFills' /\ \A n \in Nodes, x \in Keys : EntryMended(n, x)'
    BY <2>7, EvictMends, ExpireMends
  <2>. QED  BY <2>1, <2>2, <2>3, <2>4, <2>5, <2>6, <2>7 DEF CacheNext, Proceed
<1>. QED  BY <1>1, <1>2, CacheTypes, PTL DEF CacheSpec, CacheInv

(* With nothing about a key under way, no node holds another value of it    *)
(* than Redis, but for the spoilt entries.  (CaffeineRedisCache,            *)
(* RedisAsyncRunnable, JedisSubscriber.)                                    *)
THEOREM CacheCoherentAtRest == CacheSpec => []CoherentAtRest
<1>1. CacheInv => CoherentAtRest
  <2>. SUFFICES ASSUME CacheInv, NEW k \in Keys, AtRest(k), NEW n \in Nodes, StaleUnspoilt(n, k)
                PROVE  FALSE
    BY DEF CoherentAtRest
  <2>1. Live(n, k) /\ l1[n][k] # l2[k]
    BY DEF StaleUnspoilt, Live
  <2>2. ~Promised(n, k)
    BY DEF AtRest, Promised, InMessages
  <2>3. ~Unwritten(n, k)
    BY DEF AtRest, Unwritten, Entering, SyncPending, AsyncPending, Holds
  <2>. QED  BY <2>1, <2>2, <2>3 DEF CacheInv, EntryMended, Mended
<1>. QED  BY <1>1, CacheInvariant, PTL
=============================================================================
