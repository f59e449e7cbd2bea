------------------------- MODULE ChatDeliveryProofs -------------------------
(***************************************************************************)
(* Proofs about ChatDelivery, for any users, connections, groups and        *)
(* messages.                                                                *)
(***************************************************************************)
EXTENDS ChatDelivery, PresenceProofs

(* A worker that is at work has a packet, one that pushes has a recipient,  *)
(* and one that reads the members has a group message; a handler that       *)
(* answers a chat message has that message.                                 *)
Shapes ==
  \A c \in Channels :
    /\ worker[c].pc # "idle" => worker[c].msg \in Msgs
    /\ worker[c].pc = "members" => KindOf[worker[c].msg] = "group"
    /\ worker[c].pc = "push" => worker[c].to \in Users
    /\ handler[c].pc \in {"check", "send"} => handler[c].msg \in Msgs

ChatTypeInv == ChatTypeOK /\ Shapes

(* The types of the operators the steps are built from. *)
LEMMA RecipientsAreUsers ==
  ASSUME NEW m \in Msgs PROVE Recipients(m) \in SUBSET Users
BY ChatAssumption, PresenceAssumption DEF Recipients

LEMMA BoxIsKey ==
  ASSUME NEW m \in Msgs, NEW u \in Users PROVE BoxOf(m, u) \in Keys
BY ChatAssumption, PresenceAssumption DEF BoxOf, Keys

LEMMA TargetsAreChannels ==
  ASSUME PresenceTypeOK, NEW m \in Msgs PROVE Targets(m) \in SUBSET Channels
BY DEF Targets, LiveChannels, PresenceTypeOK

LEMMA VerdictTyped ==
  ASSUME PresenceTypeOK, NEW u, NEW v, Verdict(u, v), UNCHANGED netVars
  PROVE  PresenceTypeOK'
BY PresenceAssumption DEF Verdict, RedisWorks, RedisFails, PresenceTypeOK, netVars

LEMMA CallTyped ==
  ASSUME PresenceTypeOK, RedisWorks \/ RedisFails, UNCHANGED netVars
  PROVE  PresenceTypeOK'
BY PresenceAssumption DEF RedisWorks, RedisFails, PresenceTypeOK, netVars

LEMMA PresenceKept ==
  ASSUME PresenceTypeOK, UNCHANGED presenceVars PROVE PresenceTypeOK'
BY DEF PresenceTypeOK, presenceVars, netVars

LEMMA WorkerWithTyped ==
  ASSUME NEW w \in Workers, NEW s \in SUBSET Users
  PROVE  /\ WorkerWith(w, s) \in Workers
         /\ WorkerWith(w, s).pc \in {"idle", "check"}
         /\ WorkerWith(w, s).pc # "idle" => WorkerWith(w, s).msg = w.msg
BY DEF WorkerWith, Workers, IdleWorker

LEMMA IdleTyped ==
  /\ IdleHandler \in Handlers /\ IdleHandler.pc = "idle" /\ IdleHandler.buf = {}
  /\ IdleWorker \in Workers /\ IdleWorker.pc = "idle"
BY DEF IdleHandler, Handlers, IdleWorker, Workers

LEMMA NextBoxTyped ==
  ASSUME NEW h \in Handlers, NEW ks \in SUBSET Keys, NEW friend \in BOOLEAN
  PROVE  /\ NextBox(h, ks, friend) \in Handlers
         /\ NextBox(h, ks, friend).pc \in {"read", "groups", "reply"}
         /\ NextBox(h, ks, friend).buf = h.buf
         /\ NextBox(h, ks, friend).cur = {}
BY DEF NextBox, Handlers
-----------------------------------------------------------------------------
LEMMA ChatInitial == Init => ChatTypeInv
<1> SUFFICES ASSUME Init PROVE ChatTypeInv
  OBVIOUS
<1>1. PresenceTypeOK
  BY PresenceInitial DEF Init, PresenceInv
<1>2. Shapes
  BY IdleTyped DEF Init, Shapes
<1> QED
  BY <1>1, <1>2, IdleTyped, ChatAssumption DEF Init, ChatTypeInv, ChatTypeOK

(* The packet handler's steps for a chat message. *)
LEMMA ChatReqTyped ==
  ASSUME ChatTypeInv, NEW c \in Channels,
         \/ \E m \in Msgs : ChatEnqueue(c, m)
         \/ ChatCheck(c)
         \/ ChatSend(c)
  PROVE  ChatTypeInv'
<1> USE DEF ChatTypeInv, chatVars, clientVars, histVars
<1>1. ASSUME NEW m \in Msgs, ChatEnqueue(c, m)
      PROVE  ChatTypeInv'
  <2>1. PresenceTypeOK'
    BY <1>1, PresenceKept DEF ChatEnqueue, ChatTypeOK
  <2> DEFINE h == CASE KindOf[m] = "private" -> [IdleHandler EXCEPT !.pc = "check", !.msg = m]
                    [] KindOf[m] = "group" -> [IdleHandler EXCEPT !.pc = "send", !.msg = m]
                    [] OTHER -> IdleHandler
             unsettled == {v \in Recipients(m) : ~Settled(v)}
  <2>h. h \in Handlers /\ (h.pc \in {"check", "send"} => h.msg = m)
    BY DEF Handlers, IdleHandler
  <2>e. handler' = [handler EXCEPT ![c] = h]
        /\ moved' = moved \union {<<u, m>> : u \in unsettled}
        /\ queue' = [queue EXCEPT ![c] = Append(@, m)] /\ accepted' = accepted \union {m}
    BY <1>1 DEF ChatEnqueue
  <2> HIDE DEF h
  <2>2. handler' \in [Channels -> Handlers]
        /\ (handler'[c].pc \in {"check", "send"} => handler'[c].msg = m)
    BY <2>h, <2>e DEF ChatTypeOK
  <2>u. unsettled \in SUBSET Users
    BY RecipientsAreUsers
  <2> HIDE DEF unsettled
  <2>3. moved' \in SUBSET (Users \X Msgs)
    BY <2>e, <2>u DEF ChatTypeOK
  <2>4. queue' \in [Channels -> Seq(Msgs)] /\ accepted' \in SUBSET Msgs
    BY <2>e DEF ChatTypeOK
  <2>5. ChatTypeOK'
    BY <1>1, <2>1, <2>2, <2>3, <2>4 DEF ChatEnqueue, ChatTypeOK
  <2>6. Shapes'
    BY <1>1, <2>2 DEF ChatEnqueue, Shapes, ChatTypeOK
  <2> QED
    BY <2>5, <2>6
<1>2. CASE ChatCheck(c)
  <2>1. PICK v \in BOOLEAN :
          /\ Verdict(DestOf[handler[c].msg], v)
          /\ handler' = [handler EXCEPT ![c] =
               IF v THEN [@ EXCEPT !.pc = "send"] ELSE IdleHandler]
          /\ ack' = IF v THEN ack ELSE [ack EXCEPT ![handler[c].msg] = "offline"]
    BY <1>2 DEF ChatCheck
  <2>2. PresenceTypeOK'
    BY <1>2, <2>1, VerdictTyped DEF ChatCheck, ChatTypeOK
  <2> DEFINE h == IF v THEN [handler[c] EXCEPT !.pc = "send"] ELSE IdleHandler
  <2>h. h \in Handlers /\ h.pc # "check" /\ (h.pc = "send" => h.msg \in Msgs)
    <3>1. handler[c] \in Handlers /\ handler[c].msg \in Msgs
      BY <1>2 DEF ChatCheck, ChatTypeOK, Shapes
    <3> QED
      BY <3>1, IdleTyped DEF Handlers
  <2>e. handler' = [handler EXCEPT ![c] = h]
    BY <2>1
  <2> HIDE DEF h
  <2>3. handler' \in [Channels -> Handlers] /\ (handler'[c].pc = "send" => handler'[c].msg \in Msgs)
        /\ handler'[c].pc # "check"
    BY <2>h, <2>e DEF ChatTypeOK
  <2>4. ChatTypeOK'
    BY <1>2, <2>1, <2>2, <2>3 DEF ChatCheck, ChatTypeOK
  <2>5. Shapes'
    BY <1>2, <2>1, <2>3 DEF ChatCheck, Shapes, ChatTypeOK
  <2> QED
    BY <2>4, <2>5
<1>3. CASE ChatSend(c)
  <2>1. PresenceTypeOK'
    BY <1>3, PresenceKept DEF ChatSend, ChatTypeOK
  <2>2. handler[c].msg \in Msgs
    BY <1>3 DEF ChatSend, Shapes
  <2>3. live' \in SUBSET (Msgs \X Channels)
    BY <1>3, <2>2, TargetsAreChannels DEF ChatSend, ChatTypeOK
  <2>4. ChatTypeOK'
    BY <1>3, <2>1, <2>2, <2>3, IdleTyped DEF ChatSend, ChatTypeOK
  <2>5. Shapes'
    BY <1>3, IdleTyped DEF ChatSend, Shapes, ChatTypeOK
  <2> QED
    BY <2>4, <2>5
<1> QED
  BY <1>1, <1>2, <1>3

(* The worker's steps. *)
LEMMA WorkerTyped ==
  ASSUME ChatTypeInv, NEW c \in Channels, WorkerStep(c)
  PROVE  ChatTypeInv'
<1> USE DEF ChatTypeInv, chatVars, clientVars, histVars
<1> DEFINE w == worker[c]
           rest == <<handler, clientVars, accepted, dropped, shared, twice, moved>>
<1>w. w \in Workers
  BY DEF ChatTypeOK
<1>r. ASSUME PresenceTypeOK', UNCHANGED rest,
             queue' \in [Channels -> Seq(Msgs)], store' \in SUBSET Msgs,
             mailbox' \in [Keys -> SUBSET Msgs],
             pushed' \in SUBSET (Keys \X Msgs), late' \in SUBSET (Keys \X Msgs),
             NEW x \in Workers, worker' = [worker EXCEPT ![c] = x],
             x.pc # "idle" => x.msg \in Msgs,
             x.pc = "members" => KindOf[x.msg] = "group",
             x.pc = "push" => x.to \in Users
      PROVE  ChatTypeInv'
  BY <1>r DEF ChatTypeOK, Shapes
<1>1. CASE Take(c)
  <2> DEFINE x == [w EXCEPT !.pc = "store", !.msg = Head(queue[c])]
  <2>1. queue[c] \in Seq(Msgs) /\ queue[c] # <<>>
    BY <1>1 DEF Take, ChatTypeOK
  <2>2. Head(queue[c]) \in Msgs /\ Tail(queue[c]) \in Seq(Msgs)
    BY <2>1
  <2>3. x \in Workers /\ x.pc = "store" /\ x.msg \in Msgs
    BY <1>w, <2>2 DEF Workers
  <2>4. worker' = [worker EXCEPT ![c] = x] /\ queue' = [queue EXCEPT ![c] = Tail(queue[c])]
    BY <1>1 DEF Take
  <2> HIDE DEF x
  <2>5. queue' \in [Channels -> Seq(Msgs)]
    BY <2>2, <2>4 DEF ChatTypeOK
  <2>6. PresenceTypeOK' /\ UNCHANGED <<rest, store, mailbox, pushed, late>>
    BY <1>1, PresenceKept DEF Take, ChatTypeOK
  <2> QED
    BY <1>r, <2>3, <2>4, <2>5, <2>6 DEF ChatTypeOK
<1>2. CASE StoreMsg(c)
  <2> DEFINE x == IF KindOf[w.msg] = "group" THEN [w EXCEPT !.pc = "members"]
                  ELSE [w EXCEPT !.pc = "check", !.todo = {DestOf[w.msg]}]
  <2>1. w.msg \in Msgs
    BY <1>2 DEF StoreMsg, Shapes
  <2>2. x \in Workers /\ x.pc \in {"members", "check"} /\ x.msg = w.msg
        /\ (x.pc = "members" => KindOf[w.msg] = "group")
    BY <1>w, <2>1, ChatAssumption DEF Workers
  <2>3. worker' = [worker EXCEPT ![c] = x]
    BY <1>2 DEF StoreMsg
  <2> HIDE DEF x
  <2>4. PresenceTypeOK' /\ store' \in SUBSET Msgs
    BY <1>2, <2>1, CallTyped DEF StoreMsg, ChatTypeOK
  <2>5. UNCHANGED <<rest, queue, mailbox, pushed, late>>
    BY <1>2 DEF StoreMsg
  <2> QED
    BY <1>r, <2>1, <2>2, <2>3, <2>4, <2>5 DEF ChatTypeOK
<1>3. CASE ReadMembers(c)
  <2>1. w.msg \in Msgs /\ KindOf[w.msg] = "group"
    BY <1>3 DEF ReadMembers, Shapes
  <2>2. Members[DestOf[w.msg]] \in SUBSET Users
    BY <2>1, ChatAssumption
  <2>3. PICK x : /\ worker' = [worker EXCEPT ![c] = x]
                 /\ x = WorkerWith(w, Members[DestOf[w.msg]]) \/ x = IdleWorker
    BY <1>3 DEF ReadMembers
  <2>4. x \in Workers /\ x.pc \in {"idle", "check"} /\ (x.pc # "idle" => x.msg = w.msg)
    BY <1>w, <2>2, <2>3, WorkerWithTyped, IdleTyped
  <2>5. PresenceTypeOK'
    BY <1>3, CallTyped DEF ReadMembers, ChatTypeOK
  <2>6. UNCHANGED <<rest, queue, store, mailbox, pushed, late>>
    BY <1>3 DEF ReadMembers
  <2> QED
    BY <1>r, <2>1, <2>3, <2>4, <2>5, <2>6 DEF ChatTypeOK
<1>4. CASE CheckRecipient(c)
  <2>1. PICK u \in w.todo, v \in BOOLEAN :
          /\ Verdict(u, v)
          /\ worker' = [worker EXCEPT ![c] =
               IF v THEN WorkerWith(@, @.todo \ {u}) ELSE [@ EXCEPT !.pc = "push", !.to = u]]
    BY <1>4 DEF CheckRecipient
  <2> DEFINE x == IF v THEN WorkerWith(w, w.todo \ {u}) ELSE [w EXCEPT !.pc = "push", !.to = u]
  <2>2. w.msg \in Msgs /\ u \in Users /\ w.todo \ {u} \in SUBSET Users
    BY <1>4, <1>w, <2>1 DEF CheckRecipient, Shapes, Workers
  <2>3. ~v => [w EXCEPT !.pc = "push", !.to = u] \in Workers
    BY <1>w, <2>2 DEF Workers
  <2>4. x \in Workers /\ x.pc \in {"idle", "check", "push"}
        /\ (x.pc # "idle" => x.msg = w.msg) /\ (x.pc = "push" => x.to = u)
    <3>1. CASE v
      BY <1>w, <2>2, <3>1, WorkerWithTyped
    <3>2. CASE ~v
      BY <1>w, <2>3, <3>2 DEF Workers
    <3> QED
      BY <3>1, <3>2
  <2>5. worker' = [worker EXCEPT ![c] = x]
    BY <2>1
  <2> HIDE DEF x
  <2>6. PresenceTypeOK'
    BY <1>4, <2>1, VerdictTyped DEF CheckRecipient, ChatTypeOK
  <2>7. UNCHANGED <<rest, queue, store, mailbox, pushed, late>>
    BY <1>4 DEF CheckRecipient
  <2> QED
    BY <1>r, <2>2, <2>4, <2>5, <2>6, <2>7 DEF ChatTypeOK
<1>5. CASE Push(c)
  <2> DEFINE k == BoxOf(w.msg, w.to)
             x == WorkerWith(w, w.todo \ {w.to})
  <2>1. w.msg \in Msgs /\ w.to \in Users
    BY <1>5 DEF Push, Shapes
  <2>2. k \in Keys
    BY <2>1, BoxIsKey
  <2>3. x \in Workers /\ x.pc \in {"idle", "check"} /\ (x.pc # "idle" => x.msg = w.msg)
    BY <1>w, WorkerWithTyped DEF Workers
  <2>4. worker' = [worker EXCEPT ![c] = x]
    BY <1>5 DEF Push
  <2>5. \/ mailbox' = [mailbox EXCEPT ![k] = @ \union {w.msg}]
           /\ pushed' = pushed \union {<<k, w.msg>>}
           /\ late' \in {late, late \union {<<k, w.msg>>}}
        \/ UNCHANGED <<mailbox, pushed, late>>
    BY <1>5 DEF Push
  <2>6. PresenceTypeOK' /\ UNCHANGED <<rest, queue, store>>
    BY <1>5, CallTyped DEF Push, ChatTypeOK
  <2> HIDE DEF k, x
  <2>7. /\ mailbox' \in [Keys -> SUBSET Msgs]
        /\ pushed' \in SUBSET (Keys \X Msgs) /\ late' \in SUBSET (Keys \X Msgs)
    <3>1. <<k, w.msg>> \in Keys \X Msgs
      BY <2>1, <2>2
    <3>2. mailbox[k] \union {w.msg} \in SUBSET Msgs
      BY <2>1, <2>2 DEF ChatTypeOK
    <3>3. mailbox' \in [Keys -> SUBSET Msgs]
      BY <2>5, <3>2 DEF ChatTypeOK
    <3> HIDE DEF w
    <3>4. pushed' \in SUBSET (Keys \X Msgs) /\ late' \in SUBSET (Keys \X Msgs)
      BY <2>5, <3>1 DEF ChatTypeOK
    <3> QED
      BY <3>3, <3>4
  <2> QED
    BY <1>r, <2>1, <2>3, <2>4, <2>6, <2>7 DEF ChatTypeOK
<1> QED
  BY <1>1, <1>2, <1>3, <1>4, <1>5 DEF WorkerStep

(* The steps of a request for offline messages. *)
LEMMA FetchTyped ==
  ASSUME ChatTypeInv, NEW c \in Channels,
         \/ FetchAll(c)
         \/ \E f \in Users : FetchFriend(c, f)
         \/ \E g \in Groups : FetchGroup(c, g)
  PROVE  ChatTypeInv'
<1> USE DEF ChatTypeInv, chatVars, clientVars, histVars
<1>1. ASSUME RedisWorks \/ RedisFails,
             NEW mode \in {"none", "friend", "group", "all"}, NEW keys \in SUBSET Keys,
             NEW pc \in {"idle", "read", "groups"}, Fetch(c, mode, keys, pc)
      PROVE  ChatTypeInv'
  <2> DEFINE x == [IdleHandler EXCEPT !.pc = pc, !.mode = mode, !.keys = keys]
  <2>1. x \in Handlers /\ x.pc = pc
    BY DEF Handlers, IdleHandler
  <2>2. PresenceTypeOK'
    BY <1>1, CallTyped DEF Fetch, ChatTypeOK
  <2>3. handler' = [handler EXCEPT ![c] = x]
    BY <1>1 DEF Fetch
  <2>4. fetches' \in 0 .. MaxFetch
    BY <1>1, ChatAssumption DEF Fetch, ChatTypeOK
  <2> HIDE DEF x
  <2>5. ChatTypeOK'
    BY <1>1, <2>1, <2>2, <2>3, <2>4 DEF Fetch, ChatTypeOK
  <2>6. Shapes'
    BY <1>1, <2>1, <2>3 DEF Fetch, ChatTypeOK, Shapes
  <2> QED
    BY <2>5, <2>6
<1>2. CASE FetchAll(c)
  <2>1. BoxesLike(UserOf[c]) \in SUBSET Keys
    BY DEF BoxesLike, Keys
  <2> QED
    BY <1>1, <1>2, <2>1 DEF FetchAll
<1>3. ASSUME NEW f \in Users, FetchFriend(c, f) PROVE ChatTypeInv'
  <2>1. {<<UserOf[c], f>>} \in SUBSET Keys
    BY PresenceAssumption DEF Keys
  <2> QED
    BY <1>1, <1>3, <2>1 DEF FetchFriend
<1>4. ASSUME NEW g \in Groups, FetchGroup(c, g) PROVE ChatTypeInv'
  <2>1. {<<UserOf[c], g>>} \in SUBSET Keys
    BY PresenceAssumption DEF Keys
  <2> QED
    BY <1>1, <1>4, <2>1 DEF FetchGroup
<1> QED
  BY <1>2, <1>3, <1>4

LEMMA MailboxTyped ==
  ASSUME ChatTypeInv, NEW c \in Channels,
         ReadBox(c) \/ DelBox(c) \/ ReadGroups(c) \/ FetchReply(c)
  PROVE  ChatTypeInv'
<1> USE DEF ChatTypeInv, chatVars, clientVars, histVars
<1> DEFINE h == handler[c]
           rest == <<queue, worker, store, ack, live, fetches, accepted, pushed, late, moved>>
<1>h. h \in Handlers
  BY DEF ChatTypeOK
<1>r. ASSUME PresenceTypeOK', UNCHANGED rest,
             mailbox' \in [Keys -> SUBSET Msgs], got' \in SUBSET (Users \X Keys \X Msgs),
             dropped' \in SUBSET (Keys \X Msgs), shared' \in SUBSET (Keys \X Msgs),
             twice' \in SUBSET (Users \X Keys \X Msgs),
             NEW x \in Handlers, handler' = [handler EXCEPT ![c] = x],
             x.pc \notin {"check", "send"}
      PROVE  ChatTypeInv'
  BY <1>r DEF ChatTypeOK, Shapes
<1>n. ASSUME NEW ks \in SUBSET Keys, NEW friend \in BOOLEAN
      PROVE  NextBox(h, ks, friend) \in Handlers
             /\ NextBox(h, ks, friend).pc \notin {"check", "send"}
  BY <1>h, NextBoxTyped
<1>1. CASE ReadBox(c)
  <2> DEFINE box(k) == {k} \X (mailbox[k] \ AtZero)
             skip(k) == NextBox(h, h.keys \ {k}, FALSE)
  <2>1. PICK k \in h.keys :
          /\ RedisWorks \/ RedisFails
          /\ \/ handler' = [handler EXCEPT ![c] = Removing(h, k, TRUE, box(k))]
             \/ handler' = [handler EXCEPT ![c] = Removing(h, k, FALSE, {})]
             \/ handler' = [handler EXCEPT ![c] = skip(k)]
    BY <1>1 DEF ReadBox
  <2>2. k \in Keys /\ h.keys \ {k} \in SUBSET Keys /\ mailbox[k] \in SUBSET Msgs
    BY <1>h, <2>1 DEF Handlers, ChatTypeOK
  <2>3. ASSUME NEW ok \in BOOLEAN, NEW read \in SUBSET (Keys \X Msgs)
        PROVE  Removing(h, k, ok, read) \in Handlers /\ Removing(h, k, ok, read).pc = "del"
    <3>1. h.buf \union read \in SUBSET (Keys \X Msgs)
      BY <1>h DEF Handlers
    <3> QED
      BY <1>h, <2>2, <3>1 DEF Removing, Handlers
  <2>4. box(k) \in SUBSET (Keys \X Msgs)
    BY <2>2
  <2>6. skip(k) \in Handlers /\ skip(k).pc \notin {"check", "send"}
    BY <1>n, <2>2
  <2>7. PresenceTypeOK'
    BY <1>1, <2>1, CallTyped DEF ReadBox, ChatTypeOK
  <2>8. UNCHANGED <<rest, mailbox, got, dropped, twice>>
    BY <1>1 DEF ReadBox
  <2>s. shared' \in SUBSET (Keys \X Msgs)
    <3>1. PICK j \in h.keys :
            \/ shared' = shared \union {p \in box(j) : \E d \in Channels : p \in handler[d].buf}
            \/ UNCHANGED shared
      BY <1>1 DEF ReadBox
    <3>2. j \in Keys /\ mailbox[j] \in SUBSET Msgs
      BY <1>h, <3>1 DEF Handlers, ChatTypeOK
    <3>3. box(j) \in SUBSET (Keys \X Msgs)
      BY <3>2
    <3> QED
      BY <3>1, <3>3 DEF ChatTypeOK
  <2>9. ASSUME NEW x \in Handlers, x.pc \notin {"check", "send"},
               handler' = [handler EXCEPT ![c] = x]
        PROVE  ChatTypeInv'
    BY <1>r, <2>7, <2>8, <2>9, <2>s DEF ChatTypeOK
  <2> HIDE DEF skip, box
  <2> QED
    BY <2>1, <2>3, <2>4, <2>6, <2>9
<1>2. CASE DelBox(c)
  <2>1. PICK k \in h.cur :
       /\ \/ RedisWorks /\ mailbox' = [mailbox EXCEPT ![k] = {}]
          \/ RedisFails /\ UNCHANGED mailbox
       /\ \/ /\ handler' = [handler EXCEPT ![c] = NextBox(h, h.keys \ {k}, k[2] \in Users)]
             /\ UNCHANGED dropped
          \/ /\ handler' = [handler EXCEPT ![c] = IdleHandler]
             /\ dropped' = dropped \union OnlyIn(h.buf)
                      \union ({k} \X (mailbox[k] \ mailbox'[k]))
    BY <1>2 DEF DelBox
  <2>2. k \in Keys /\ h.keys \ {k} \in SUBSET Keys /\ mailbox[k] \in SUBSET Msgs
    BY <1>h, <2>1 DEF Handlers, ChatTypeOK
  <2> DEFINE next == NextBox(h, h.keys \ {k}, k[2] \in Users)
  <2>3. next \in Handlers /\ next.pc \notin {"check", "send"}
    BY <1>h, <2>2 DEF NextBox, Handlers
  <2>4. \/ handler' = [handler EXCEPT ![c] = next]
        \/ handler' = [handler EXCEPT ![c] = IdleHandler]
    BY <2>1
  <2> HIDE DEF next
  <2>5. mailbox' \in [Keys -> SUBSET Msgs]
    BY <2>1 DEF ChatTypeOK
  <2>6. dropped' \in SUBSET (Keys \X Msgs)
    <3>1. OnlyIn(h.buf) \in SUBSET (Keys \X Msgs)
      BY <1>h DEF OnlyIn, Handlers
    <3>2. {k} \X (mailbox[k] \ mailbox'[k]) \in SUBSET (Keys \X Msgs)
      BY <2>2
    <3> QED
      BY <2>1, <3>1, <3>2 DEF ChatTypeOK
  <2>7. PresenceTypeOK'
    BY <1>2, <2>1, CallTyped DEF DelBox, ChatTypeOK
  <2>8. UNCHANGED <<rest, got, shared, twice>>
    BY <1>2 DEF DelBox
  <2> QED
    BY <1>r, <2>3, <2>4, <2>5, <2>6, <2>7, <2>8, IdleTyped DEF ChatTypeOK
<1>3. CASE ReadGroups(c)
  <2> DEFINE boxes == {<<UserOf[c], g>> : g \in {i \in Groups : UserOf[c] \in Members[i]}}
  <2>1. PICK ks \in {boxes, {}} : handler' = [handler EXCEPT ![c] = NextBox(h, ks, FALSE)]
    BY <1>3 DEF ReadGroups
  <2>2. ks \in SUBSET Keys
    BY <2>1, PresenceAssumption DEF Keys
  <2>3. PresenceTypeOK'
    BY <1>3, CallTyped DEF ReadGroups, ChatTypeOK
  <2>4. UNCHANGED <<rest, mailbox, got, dropped, shared, twice>>
    BY <1>3 DEF ReadGroups
  <2> QED
    BY <1>n, <1>r, <2>1, <2>2, <2>3, <2>4 DEF ChatTypeOK
<1>4. CASE FetchReply(c)
  <2> DEFINE new == {<<UserOf[c], p[1], p[2]>> : p \in h.buf}
  <2>1. h.buf \in SUBSET (Keys \X Msgs)
    BY <1>h DEF Handlers
  <2>2. new \in SUBSET (Users \X Keys \X Msgs)
    BY <2>1, PresenceAssumption
  <2>3. OnlyIn(h.buf) \in SUBSET (Keys \X Msgs)
    BY <2>1 DEF OnlyIn
  <2>4. \/ got' = got \union new /\ twice' = twice \union (got \intersect new) /\ UNCHANGED dropped
        \/ dropped' = dropped \union OnlyIn(h.buf) /\ UNCHANGED <<got, twice>>
    BY <1>4 DEF FetchReply
  <2> HIDE DEF new
  <2>5. /\ got' \in SUBSET (Users \X Keys \X Msgs) /\ twice' \in SUBSET (Users \X Keys \X Msgs)
        /\ dropped' \in SUBSET (Keys \X Msgs)
    BY <2>2, <2>3, <2>4 DEF ChatTypeOK
  <2>6. handler' = [handler EXCEPT ![c] = IdleHandler] /\ UNCHANGED <<rest, mailbox, shared>>
    BY <1>4 DEF FetchReply
  <2>7. PresenceTypeOK'
    BY <1>4, PresenceKept DEF FetchReply, ChatTypeOK
  <2> QED
    BY <1>r, <2>5, <2>6, <2>7, IdleTyped DEF ChatTypeOK
<1> QED
  BY <1>1, <1>2, <1>3, <1>4

(* The steps of presence and the crash. *)
LEMMA OutsideTyped ==
  ASSUME ChatTypeInv, ServerCrash \/ \E c \in Channels : Move(c)
  PROVE  ChatTypeInv'
<1> USE DEF ChatTypeInv, chatVars, clientVars, histVars
<1>1. UnderWay \in SUBSET Msgs
  BY DEF UnderWay, ChatTypeOK
<1>2. CASE ServerCrash
  <2>1. PresenceTypeOK'
    BY <1>2, PresenceTyped DEF ServerCrash, PresenceNext, ChatTypeOK
  <2>2. UNION {OnlyIn(handler[c].buf) : c \in Channels} \in SUBSET (Keys \X Msgs)
    BY DEF OnlyIn, ChatTypeOK, Handlers
  <2>3. dropped' \in SUBSET (Keys \X Msgs) /\ moved' \in SUBSET (Users \X Msgs)
    BY <1>1, <1>2, <2>2 DEF ServerCrash, ChatTypeOK
  <2>4. ChatTypeOK'
    BY <1>2, <2>1, <2>3, IdleTyped DEF ServerCrash, ChatTypeOK
  <2>5. Shapes'
    BY <1>2, IdleTyped DEF ServerCrash, Shapes
  <2> QED
    BY <2>4, <2>5
<1>3. ASSUME NEW c \in Channels, Move(c) PROVE ChatTypeInv'
  <2>1. PresenceTypeOK'
    BY <1>3, PresenceTyped DEF Move, PresenceNext, ChatTypeOK
  <2>2. moved' \in SUBSET (Users \X Msgs)
    BY <1>1, <1>3, PresenceAssumption DEF Move, ChatTypeOK
  <2>3. ChatTypeOK'
    BY <1>3, <2>1, <2>2 DEF Move, ChatTypeOK
  <2>4. Shapes'
    BY <1>3 DEF Move, Shapes
  <2> QED
    BY <2>3, <2>4
<1> QED
  BY <1>2, <1>3

LEMMA ChatTyped == ChatTypeInv /\ [Next]_vars => ChatTypeInv'
<1> SUFFICES ASSUME ChatTypeInv, [Next]_vars PROVE ChatTypeInv'
  OBVIOUS
<1>1. CASE UNCHANGED vars
  BY <1>1, PresenceKept
  DEF vars, chatVars, clientVars, histVars, ChatTypeInv, ChatTypeOK, Shapes
<1>2. CASE Next
  BY <1>2, OutsideTyped, ChatReqTyped, WorkerTyped, FetchTyped, MailboxTyped
  DEF Next, HandlerStep
<1> QED
  BY <1>1, <1>2

(* ChatDelivery keeps the types of its variables for any constants: no      *)
(* mailbox is filed under anything but a user and a sender or group, and no *)
(* thread works on a message or a recipient it does not have.               *)
THEOREM ChatTypes == Spec => []ChatTypeOK
<1>1. Spec => []ChatTypeInv
  BY ChatInitial, ChatTyped, PTL DEF Spec
<1> QED
  BY <1>1, PTL DEF ChatTypeInv
-----------------------------------------------------------------------------
(***************************************************************************)
(* PushKept.  It is not inductive alone: that the removal of a mailbox      *)
(* loses nothing depends on what the handler read before (Reading), and     *)
(* that a handler which starts anew loses nothing, on its empty answer.     *)
(***************************************************************************)
Empty == \A c \in Channels : handler[c].pc \in {"idle", "check", "send"} => handler[c].buf = {}

Reading ==
  \A c \in Channels : handler[c].pc = "del" /\ handler[c].ok =>
    \A k \in handler[c].cur : \A m \in mailbox[k] :
      <<k, m>> \in handler[c].buf \union late \/ m \in AtZero

MailInv == Empty /\ Reading /\ PushKept

mailVars == <<handler, mailbox, pushed, got, late, dropped>>

LEMMA MailInitial == Init => MailInv
BY IdleTyped DEF Init, MailInv, Empty, Reading, PushKept

LEMMA MailFrame ==
  ASSUME MailInv, UNCHANGED mailVars PROVE MailInv'
BY DEF MailInv, mailVars, Empty, Reading, PushKept, MailKept

(* A handler step that reads and removes nothing and keeps the answer. *)
LEMMA AnswerFrame ==
  ASSUME ChatTypeInv, MailInv, NEW c \in Channels, NEW x \in Handlers,
         handler' = [handler EXCEPT ![c] = x], x.buf = handler[c].buf, x.pc # "del",
         x.pc \in {"idle", "check", "send"} => x.buf = {},
         UNCHANGED <<mailbox, pushed, got, late, dropped>>
  PROVE  MailInv'
<1> USE DEF ChatTypeInv, MailInv
<1>1. handler \in [Channels -> Handlers]
  BY DEF ChatTypeOK
<1>2. /\ handler'[c] = x
      /\ \A d \in Channels : d # c => handler'[d] = handler[d]
      /\ \A d \in Channels : handler'[d].buf = handler[d].buf
  BY <1>1
<1>3. Empty'
  BY <1>2 DEF Empty
<1>4. Reading'
  BY <1>2 DEF Reading
<1>5. PushKept'
  BY <1>2 DEF PushKept, MailKept
<1> QED
  BY <1>3, <1>4, <1>5

(* The worker's steps: only Push touches a mailbox, and if it comes between *)
(* a read and its removal, `late' names the message.                        *)
LEMMA WorkerMail ==
  ASSUME ChatTypeInv, MailInv, NEW c \in Channels, WorkerStep(c)
  PROVE  MailInv'
<1> USE DEF ChatTypeInv, MailInv
<1>1. CASE Take(c) \/ StoreMsg(c) \/ ReadMembers(c) \/ CheckRecipient(c)
  BY <1>1, MailFrame
  DEF Take, StoreMsg, ReadMembers, CheckRecipient, mailVars, clientVars, histVars
<1>2. CASE Push(c)
  <2> DEFINE w == worker[c]
             k == BoxOf(w.msg, w.to)
  <2>1. w.msg \in Msgs /\ w.to \in Users
    BY <1>2 DEF Push, Shapes
  <2>2. k \in Keys
    BY <2>1, BoxIsKey
  <2>3. UNCHANGED <<handler, got, dropped>>
    BY <1>2 DEF Push, clientVars
  <2>4. \/ UNCHANGED <<mailbox, pushed, late>>
        \/ /\ mailbox' = [mailbox EXCEPT ![k] = @ \union {w.msg}]
           /\ pushed' = pushed \union {<<k, w.msg>>}
           /\ late' = IF \E d \in Channels : k \in handler[d].cur
                        THEN late \union {<<k, w.msg>>} ELSE late
    BY <1>2 DEF Push
  <2>5. CASE UNCHANGED <<mailbox, pushed, late>>
    BY <2>3, <2>5, MailFrame DEF mailVars
  <2>6. CASE /\ mailbox' = [mailbox EXCEPT ![k] = @ \union {w.msg}]
             /\ pushed' = pushed \union {<<k, w.msg>>}
             /\ late' = IF \E d \in Channels : k \in handler[d].cur
                          THEN late \union {<<k, w.msg>>} ELSE late
    <3> HIDE DEF k
    <3>1. /\ mailbox'[k] = mailbox[k] \union {w.msg}
          /\ \A j \in Keys : j # k => mailbox'[j] = mailbox[j]
          /\ \A j \in Keys : mailbox[j] \subseteq mailbox'[j]
          /\ late \subseteq late'
      BY <2>2, <2>6 DEF ChatTypeOK
    <3>2. Empty'
      BY <2>3 DEF Empty
    <3>3. Reading'
      <4> SUFFICES ASSUME NEW d \in Channels, handler[d].pc = "del", handler[d].ok,
                          NEW j \in handler[d].cur, NEW m \in mailbox'[j]
                   PROVE  <<j, m>> \in handler[d].buf \union late' \/ m \in AtZero
        BY <2>3 DEF Reading
      <4>1. j \in Keys
        BY DEF ChatTypeOK, Handlers
      <4>2. CASE m \in mailbox[j]
        BY <3>1, <4>2 DEF Reading
      <4>3. CASE m \notin mailbox[j]
        <5>1. j = k /\ m = w.msg
          BY <3>1, <4>1, <4>3
        <5> QED
          BY <2>6, <5>1
      <4> QED
        BY <4>2, <4>3
    <3>4. PushKept'
      <4> SUFFICES ASSUME NEW p \in pushed' PROVE MailKept(p)' \/ p[2] \in AtZero
        BY DEF PushKept
      <4>1. CASE p \in pushed
        <5>1. p \in Keys \X Msgs
          BY <4>1 DEF ChatTypeOK
        <5>2. MailKept(p) \/ p[2] \in AtZero
          BY <4>1 DEF PushKept
        <5> QED
          BY <2>3, <3>1, <5>1, <5>2 DEF MailKept
      <4>2. CASE p = <<k, w.msg>>
        BY <3>1, <4>2 DEF MailKept
      <4> QED
        BY <2>6, <4>1, <4>2
    <3> QED
      BY <3>2, <3>3, <3>4
  <2> QED
    BY <2>4, <2>5, <2>6
<1> QED
  BY <1>1, <1>2 DEF WorkerStep

(* Reading a mailbox puts all of it that has a positive time in the answer. *)
LEMMA ReadBoxMail ==
  ASSUME ChatTypeInv, MailInv, NEW c \in Channels, ReadBox(c)
  PROVE  MailInv'
<1> USE DEF ChatTypeInv, MailInv
<1> DEFINE h == handler[c]
           box(k) == {k} \X (mailbox[k] \ AtZero)
           next(k) == NextBox(h, h.keys \ {k}, FALSE)
<1>1. PICK k \in h.keys :
        \/ handler' = [handler EXCEPT ![c] = Removing(h, k, TRUE, box(k))]
        \/ handler' = [handler EXCEPT ![c] = Removing(h, k, FALSE, {})]
        \/ handler' = [handler EXCEPT ![c] = next(k)]
  BY DEF ReadBox
<1>2. UNCHANGED <<mailbox, pushed, got, late, dropped>>
  BY DEF ReadBox, clientVars, histVars
<1>3. h \in Handlers /\ k \in Keys /\ h.keys \ {k} \in SUBSET Keys /\ h.pc = "read"
  BY <1>1 DEF ReadBox, ChatTypeOK, Handlers
<1>4. CASE handler' = [handler EXCEPT ![c] = next(k)]
  <2>1. next(k) \in Handlers /\ next(k).pc \in {"read", "groups", "reply"} /\ next(k).buf = h.buf
    BY <1>3, NextBoxTyped
  <2> HIDE DEF next
  <2> QED
    BY <1>2, <1>4, <2>1, AnswerFrame
<1>5. ASSUME NEW x, handler' = [handler EXCEPT ![c] = x],
             x.pc = "del", x.cur = {k}, h.buf \subseteq x.buf, x.ok => box(k) \subseteq x.buf
      PROVE  MailInv'
  <2>1. handler'[c] = x /\ \A d \in Channels : d # c => handler'[d] = handler[d]
    BY <1>5 DEF ChatTypeOK
  <2>2. Empty'
    BY <1>5, <2>1 DEF Empty
  <2>3. Reading'
    <3> SUFFICES ASSUME NEW d \in Channels, handler'[d].pc = "del", handler'[d].ok,
                        NEW j \in handler'[d].cur, NEW m \in mailbox[j]
                 PROVE  <<j, m>> \in handler'[d].buf \union late \/ m \in AtZero
      BY <1>2 DEF Reading
    <3>1. CASE d # c
      BY <2>1, <3>1 DEF Reading
    <3>2. CASE d = c
      <4>1. j = k /\ x.ok
        BY <1>5, <2>1, <3>2
      <4>2. m \in AtZero \/ <<k, m>> \in box(k)
        BY <4>1
      <4> QED
        BY <1>5, <2>1, <3>2, <4>1, <4>2
    <3> QED
      BY <3>1, <3>2
  <2>4. PushKept'
    BY <1>2, <1>5, <2>1 DEF PushKept, MailKept
  <2> QED
    BY <2>2, <2>3, <2>4
<1> HIDE DEF box, next
<1>6. CASE handler' = [handler EXCEPT ![c] = Removing(h, k, TRUE, box(k))]
  <2> DEFINE x == Removing(h, k, TRUE, box(k))
  <2>1. x.pc = "del" /\ x.cur = {k} /\ h.buf \subseteq x.buf /\ box(k) \subseteq x.buf
    BY <1>3 DEF Removing, Handlers
  <2>2. handler' = [handler EXCEPT ![c] = x]
    BY <1>6
  <2> HIDE DEF x
  <2> QED
    BY <1>5, <2>1, <2>2
<1>7. CASE handler' = [handler EXCEPT ![c] = Removing(h, k, FALSE, {})]
  <2> DEFINE x == Removing(h, k, FALSE, {})
  <2>1. x.pc = "del" /\ x.cur = {k} /\ h.buf \subseteq x.buf /\ ~x.ok
    BY <1>3 DEF Removing, Handlers
  <2>2. handler' = [handler EXCEPT ![c] = x]
    BY <1>7
  <2> HIDE DEF x
  <2> QED
    BY <1>5, <2>1, <2>2
<1> QED
  BY <1>1, <1>4, <1>6, <1>7

(* Removing a mailbox takes what was read before, what came in between, and *)
(* what is not positive; after a failed read the rest is `dropped'.         *)
LEMMA DelBoxMail ==
  ASSUME ChatTypeInv, MailInv, NEW c \in Channels, DelBox(c)
  PROVE  MailInv'
<1> USE DEF ChatTypeInv, MailInv
<1> DEFINE h == handler[c]
           next(k) == NextBox(h, h.keys \ {k}, k[2] \in Users)
<1>1. PICK k \in h.cur :
        /\ \/ RedisWorks /\ mailbox' = [mailbox EXCEPT ![k] = {}]
           \/ RedisFails /\ UNCHANGED mailbox
        /\ IF h.ok
             THEN /\ handler' = [handler EXCEPT ![c] = next(k)]
                  /\ UNCHANGED dropped
             ELSE /\ handler' = [handler EXCEPT ![c] = IdleHandler]
                  /\ dropped' = dropped \union OnlyIn(h.buf)
                       \union ({k} \X (mailbox[k] \ mailbox'[k]))
  BY DEF DelBox
<1>2. UNCHANGED <<pushed, got, late>> /\ h.pc = "del"
  BY DEF DelBox, clientVars
<1>3. h \in Handlers /\ k \in Keys /\ h.keys \ {k} \in SUBSET Keys
  BY <1>1 DEF ChatTypeOK, Handlers
<1>4. /\ \A j \in Keys : j # k => mailbox'[j] = mailbox[j]
      /\ \A j \in Keys : mailbox'[j] \subseteq mailbox[j]
      /\ mailbox'[k] \in {{}, mailbox[k]}
  BY <1>1, <1>3 DEF ChatTypeOK
<1>5. PICK x \in Handlers :
        /\ handler' = [handler EXCEPT ![c] = x]
        /\ x.pc # "del"
        /\ x.pc \in {"idle", "check", "send"} => x.buf = {}
        /\ h.ok => x.buf = h.buf
  <2>1. next(k) \in Handlers /\ next(k).pc \in {"read", "groups", "reply"} /\ next(k).buf = h.buf
    BY <1>3 DEF NextBox, Handlers
  <2> HIDE DEF next
  <2> QED
    BY <1>1, <2>1, IdleTyped
<1>6. handler'[c] = x /\ \A d \in Channels : d # c => handler'[d] = handler[d]
  BY <1>5 DEF ChatTypeOK
<1>7. Empty'
  BY <1>5, <1>6 DEF Empty
<1>8. Reading'
  <2> SUFFICES ASSUME NEW d \in Channels, handler'[d].pc = "del", handler'[d].ok,
                      NEW j \in handler'[d].cur, NEW m \in mailbox'[j]
               PROVE  <<j, m>> \in handler'[d].buf \union late \/ m \in AtZero
    BY <1>2 DEF Reading
  <2>1. d # c /\ handler'[d] = handler[d]
    BY <1>5, <1>6
  <2>2. j \in Keys
    BY <2>1 DEF ChatTypeOK, Handlers
  <2>3. m \in mailbox[j]
    BY <1>4, <2>2
  <2> QED
    BY <2>1, <2>3 DEF Reading
<1>9. PushKept'
  <2> SUFFICES ASSUME NEW p \in pushed PROVE MailKept(p)' \/ p[2] \in AtZero
    BY <1>2 DEF PushKept
  <2>1. p \in Keys \X Msgs /\ p = <<p[1], p[2]>>
    BY DEF ChatTypeOK
  <2>2. MailKept(p) \/ p[2] \in AtZero
    BY DEF PushKept
  <2>3. dropped \subseteq dropped'
    BY <1>1
  <2>4. CASE p[2] \in mailbox[p[1]] \ mailbox'[p[1]]
    <3>1. p[1] = k
      BY <1>4, <2>1, <2>4
    <3>2. CASE h.ok
      <4>1. p \in h.buf \union late \/ p[2] \in AtZero
        BY <1>2, <2>1, <2>4, <3>1, <3>2 DEF Reading
      <4> QED
        BY <1>2, <1>5, <1>6, <3>2, <4>1 DEF MailKept
    <3>3. CASE ~h.ok
      <4>1. p \in {k} \X (mailbox[k] \ mailbox'[k])
        BY <2>1, <2>4, <3>1
      <4> QED
        BY <1>1, <3>3, <4>1 DEF MailKept
    <3> QED
      BY <3>2, <3>3
  <2>5. CASE p[2] \in mailbox'[p[1]]
    BY <2>5 DEF MailKept
  <2>6. CASE p[2] \notin mailbox[p[1]]
    <3>1. ASSUME NEW d \in Channels, p \in handler[d].buf PROVE MailKept(p)'
      <4>1. CASE d # c \/ h.ok
        BY <1>5, <1>6, <3>1, <4>1 DEF MailKept
      <4>2. CASE d = c /\ ~h.ok
        <5>1. p \in OnlyIn(h.buf)
          BY <2>6, <3>1, <4>2 DEF OnlyIn
        <5> QED
          BY <1>1, <4>2, <5>1 DEF MailKept
      <4> QED
        BY <4>1, <4>2
    <3> QED
      BY <1>2, <2>2, <2>3, <2>6, <3>1 DEF MailKept
  <2> QED
    BY <2>4, <2>5, <2>6
<1> QED
  BY <1>7, <1>8, <1>9

(* The answer hands out all of it, or `dropped' names what was lost with    *)
(* the connection.                                                          *)
LEMMA FetchReplyMail ==
  ASSUME ChatTypeInv, MailInv, NEW c \in Channels, FetchReply(c)
  PROVE  MailInv'
<1> USE DEF ChatTypeInv, MailInv
<1> DEFINE h == handler[c]
           new == {<<UserOf[c], p[1], p[2]>> : p \in h.buf}
<1>1. UNCHANGED <<mailbox, pushed, late>> /\ handler' = [handler EXCEPT ![c] = IdleHandler]
  BY DEF FetchReply
<1>2. \/ got' = got \union new /\ UNCHANGED dropped
      \/ dropped' = dropped \union OnlyIn(h.buf) /\ UNCHANGED got
  BY DEF FetchReply
<1>3. handler'[c] = IdleHandler /\ \A d \in Channels : d # c => handler'[d] = handler[d]
  BY <1>1 DEF ChatTypeOK
<1>4. Empty'
  BY <1>3, IdleTyped DEF Empty
<1>5. Reading'
  BY <1>1, <1>3, IdleTyped DEF Reading
<1>6. PushKept'
  <2> SUFFICES ASSUME NEW p \in pushed PROVE MailKept(p)' \/ p[2] \in AtZero
    BY <1>1 DEF PushKept
  <2>1. MailKept(p) \/ p[2] \in AtZero
    BY DEF PushKept
  <2>2. CASE p \in h.buf
    <3>1. <<UserOf[c], p[1], p[2]>> \in new /\ UserOf[c] \in Users
      BY <2>2, PresenceAssumption
    <3>2. p[2] \in mailbox[p[1]] \/ p \in OnlyIn(h.buf)
      BY <2>2 DEF OnlyIn
    <3> HIDE DEF new
    <3> QED
      BY <1>1, <1>2, <3>1, <3>2 DEF MailKept
  <2>3. CASE p \notin h.buf
    BY <1>1, <1>2, <1>3, <2>1, <2>3 DEF MailKept
  <2> QED
    BY <2>2, <2>3
<1> QED
  BY <1>4, <1>5, <1>6

LEMMA CrashMail ==
  ASSUME ChatTypeInv, MailInv, ServerCrash
  PROVE  MailInv'
<1> USE DEF ChatTypeInv, MailInv
<1>1. /\ handler' = [c \in Channels |-> IdleHandler]
      /\ dropped' = dropped \union UNION {OnlyIn(handler[c].buf) : c \in Channels}
      /\ UNCHANGED <<mailbox, pushed, got, late>>
  BY DEF ServerCrash, clientVars
<1>2. Empty' /\ Reading'
  BY <1>1, IdleTyped DEF Empty, Reading
<1>3. PushKept'
  <2> SUFFICES ASSUME NEW p \in pushed PROVE MailKept(p)' \/ p[2] \in AtZero
    BY <1>1 DEF PushKept
  <2>1. ASSUME NEW d \in Channels, p \in handler[d].buf PROVE MailKept(p)'
    BY <1>1, <2>1 DEF MailKept, OnlyIn
  <2> QED
    BY <1>1, <2>1 DEF PushKept, MailKept
<1> QED
  BY <1>2, <1>3

LEMMA MailPreserved == ChatTypeInv /\ MailInv /\ [Next]_vars => MailInv'
<1> SUFFICES ASSUME ChatTypeInv, MailInv, [Next]_vars PROVE MailInv'
  OBVIOUS
<1>1. CASE UNCHANGED vars
  BY <1>1, MailFrame DEF vars, chatVars, clientVars, histVars, mailVars
<1>2. ASSUME NEW c \in Channels, Move(c) PROVE MailInv'
  BY <1>2, MailFrame DEF Move, clientVars, mailVars
<1>3. ASSUME NEW c \in Channels,
             \/ \E m \in Msgs : ChatEnqueue(c, m)
             \/ ChatCheck(c) \/ ChatSend(c)
      PROVE  MailInv'
  <2>1. handler[c] \in Handlers /\ handler[c].buf = {}
    BY <1>3 DEF ChatEnqueue, ChatCheck, ChatSend, ChatTypeInv, ChatTypeOK, MailInv, Empty
  <2>2. ChatTypeInv'
    BY <1>3, ChatReqTyped
  <2> DEFINE x == handler'[c]
  <2>3. x \in Handlers
    BY <2>2 DEF ChatTypeInv, ChatTypeOK
  <2>4. handler' = [handler EXCEPT ![c] = x] /\ x.buf = {} /\ x.pc # "del"
    <3>1. handler \in [Channels -> Handlers]
      BY DEF ChatTypeInv, ChatTypeOK
    <3>2. ASSUME NEW y \in Handlers, handler' = [handler EXCEPT ![c] = y],
                 y.buf = {}, y.pc # "del"
          PROVE  handler' = [handler EXCEPT ![c] = x] /\ x.buf = {} /\ x.pc # "del"
      BY <3>1, <3>2
    <3>3. ASSUME NEW m \in Msgs, ChatEnqueue(c, m)
          PROVE  handler' = [handler EXCEPT ![c] = x] /\ x.buf = {} /\ x.pc # "del"
      <4> DEFINE y == CASE KindOf[m] = "private" -> [IdleHandler EXCEPT !.pc = "check", !.msg = m]
                        [] KindOf[m] = "group" -> [IdleHandler EXCEPT !.pc = "send", !.msg = m]
                        [] OTHER -> IdleHandler
      <4>1. handler' = [handler EXCEPT ![c] = y]
        BY <3>3 DEF ChatEnqueue
      <4>2. y \in Handlers /\ y.buf = {} /\ y.pc # "del"
        BY DEF Handlers, IdleHandler
      <4> HIDE DEF y
      <4> QED
        BY <3>2, <4>1, <4>2
    <3>4. CASE ChatCheck(c)
      <4> DEFINE y == [handler[c] EXCEPT !.pc = "send"]
      <4>1. \/ handler' = [handler EXCEPT ![c] = y]
            \/ handler' = [handler EXCEPT ![c] = IdleHandler]
        BY <3>4 DEF ChatCheck
      <4>2. y \in Handlers /\ y.buf = {} /\ y.pc # "del"
        BY <2>1 DEF Handlers
      <4> HIDE DEF y
      <4> QED
        BY <3>2, <4>1, <4>2, IdleTyped
    <3>5. CASE ChatSend(c)
      <4>1. handler' = [handler EXCEPT ![c] = IdleHandler]
        BY <3>5 DEF ChatSend
      <4> QED
        BY <3>2, <4>1, IdleTyped
    <3> QED
      BY <1>3, <3>3, <3>4, <3>5
  <2>5. UNCHANGED <<mailbox, pushed, got, late, dropped>>
    BY <1>3 DEF ChatEnqueue, ChatCheck, ChatSend, clientVars, histVars
  <2> HIDE DEF x
  <2> QED
    BY <2>1, <2>3, <2>4, <2>5, AnswerFrame
<1>4. ASSUME NEW c \in Channels,
             \/ FetchAll(c)
             \/ \E f \in Users : FetchFriend(c, f)
             \/ \E g \in Groups : FetchGroup(c, g)
      PROVE  MailInv'
  <2>1. ASSUME NEW mode, NEW keys, NEW pc \in {"idle", "read", "groups"},
               Fetch(c, mode, keys, pc)
        PROVE  MailInv'
    <3> DEFINE x == [IdleHandler EXCEPT !.pc = pc, !.mode = mode, !.keys = keys]
    <3>1. handler' = [handler EXCEPT ![c] = x] /\ handler[c].pc = "idle"
      BY <2>1 DEF Fetch
    <3>2. x.buf = {} /\ x.pc = pc
      BY DEF IdleHandler
    <3>3. handler[c].buf = {}
      BY <3>1 DEF MailInv, Empty
    <3>4. UNCHANGED <<mailbox, pushed, got, late, dropped>>
      BY <2>1 DEF Fetch, histVars
    <3>5. x \in Handlers
      <4>1. ChatTypeInv'
        BY <1>4, FetchTyped
      <4>2. handler'[c] \in Handlers /\ handler'[c] = x
        BY <3>1, <4>1 DEF ChatTypeInv, ChatTypeOK
      <4> QED
        BY <4>2
    <3> HIDE DEF x
    <3> QED
      BY <3>1, <3>2, <3>3, <3>4, <3>5, AnswerFrame
  <2> QED
    BY <1>4, <2>1 DEF FetchAll, FetchFriend, FetchGroup
<1>5. ASSUME NEW c \in Channels, ReadGroups(c) PROVE MailInv'
  <2> DEFINE boxes == {<<UserOf[c], g>> : g \in {i \in Groups : UserOf[c] \in Members[i]}}
  <2>1. \/ handler' = [handler EXCEPT ![c] = NextBox(handler[c], boxes, FALSE)]
        \/ handler' = [handler EXCEPT ![c] = NextBox(handler[c], {}, FALSE)]
    BY <1>5 DEF ReadGroups
  <2>2. boxes \in SUBSET Keys /\ handler[c] \in Handlers
    BY PresenceAssumption DEF Keys, ChatTypeInv, ChatTypeOK
  <2>3. UNCHANGED <<mailbox, pushed, got, late, dropped>>
    BY <1>5 DEF ReadGroups, clientVars, histVars
  <2>4. ASSUME NEW ks \in SUBSET Keys,
               handler' = [handler EXCEPT ![c] = NextBox(handler[c], ks, FALSE)]
        PROVE  MailInv'
    BY <2>2, <2>3, <2>4, NextBoxTyped, AnswerFrame
  <2> HIDE DEF boxes
  <2>5. {} \in SUBSET Keys
    OBVIOUS
  <2> QED
    BY <2>1, <2>2, <2>4, <2>5
<1> QED
  BY <1>1, <1>2, <1>3, <1>4, <1>5, WorkerMail, ReadBoxMail, DelBoxMail, FetchReplyMail,
     CrashMail
  DEF Next, HandlerStep

(* However many devices fetch and however the worker pushes meanwhile: a    *)
(* pushed message is lost only in the ways `late', `dropped' and AtZero     *)
(* name.  (RedisMessageHelper.getFriendsOfflineMessage.)                    *)
THEOREM PushIsKept == Spec => []PushKept
<1>1. Init => ChatTypeInv /\ MailInv
  BY ChatInitial, MailInitial
<1>2. ChatTypeInv /\ MailInv /\ [Next]_vars => ChatTypeInv' /\ MailInv'
  BY ChatTyped, MailPreserved
<1>3. Spec => []MailInv
  BY <1>1, <1>2, PTL DEF Spec
<1> QED
  BY <1>3, PTL DEF MailInv
-----------------------------------------------------------------------------
(***************************************************************************)
(* ChatDelivery implements Timeline.  Most steps are stutters: the pending  *)
(* messages of a connection are those in its queue and the one its worker   *)
(* has taken and not written.                                               *)
(***************************************************************************)
LEMMA HeadAndTail ==
  ASSUME NEW S, NEW q \in Seq(S), q # <<>> PROVE <<Head(q)>> \o Tail(q) = q
OBVIOUS

LEMMA TailOfCons ==
  ASSUME NEW S, NEW q \in Seq(S), NEW e \in S
  PROVE  /\ Tail(<<e>> \o q) = q /\ Head(<<e>> \o q) = e /\ <<e>> \o q # <<>>
OBVIOUS

LEMMA AppendToCons ==
  ASSUME NEW S, NEW q \in Seq(S), NEW e \in S, NEW m \in S
  PROVE  <<e>> \o Append(q, m) = Append(<<e>> \o q, m)
OBVIOUS

LEMMA TimelineInitial == Init => TL!Init
<1> SUFFICES ASSUME Init PROVE TL!Init
  OBVIOUS
<1>1. Pending = [c \in Channels |-> <<>>]
  BY IdleTyped DEF Init, Pending
<1> QED
  BY <1>1 DEF Init, TL!Init

(* A step that leaves the queues alone and takes no worker into or out of   *)
(* the state before the write leaves the pending messages alone.            *)
LEMMA PendingFrame ==
  ASSUME queue' = queue,
         \A d \in Channels :
           \/ worker'[d] = worker[d]
           \/ worker'[d].pc # "store" /\ worker[d].pc # "store"
  PROVE  Pending' = Pending
BY DEF Pending

LEMMA WorkerTimeline ==
  ASSUME ChatTypeInv, NEW c \in Channels, WorkerStep(c)
  PROVE  [TL!Next]_(TL!vars)
<1> USE DEF ChatTypeInv, chatVars, clientVars, histVars
<1> DEFINE w == worker[c]
<1>0. worker \in [Channels -> Workers] /\ queue \in [Channels -> Seq(Msgs)] /\ w \in Workers
  BY DEF ChatTypeOK
<1>f. ASSUME NEW x, worker' = [worker EXCEPT ![c] = x]
      PROVE  worker'[c] = x /\ \A d \in Channels : d # c => worker'[d] = worker[d]
  BY <1>0, <1>f
<1>1. CASE Take(c)
  <2> DEFINE x == [w EXCEPT !.pc = "store", !.msg = Head(queue[c])]
  <2>1. worker' = [worker EXCEPT ![c] = x] /\ queue' = [queue EXCEPT ![c] = Tail(@)]
        /\ w.pc = "idle" /\ queue[c] # <<>> /\ UNCHANGED <<accepted, store>>
    BY <1>1 DEF Take
  <2>2. x.pc = "store" /\ x.msg = Head(queue[c])
    BY <1>0 DEF Workers
  <2>3. worker'[c] = x /\ \A d \in Channels : d # c => worker'[d] = worker[d]
    BY <1>f, <2>1
  <2> HIDE DEF x
  <2>4. <<Head(queue[c])>> \o Tail(queue[c]) = queue[c]
    BY <1>0, <2>1, HeadAndTail
  <2>5. Pending' = Pending
    <3> SUFFICES ASSUME NEW d \in Channels PROVE Pending'[d] = Pending[d]
      BY DEF Pending
    <3>1. CASE d = c
      BY <1>0, <2>1, <2>2, <2>3, <2>4, <3>1 DEF Pending
    <3>2. CASE d # c
      BY <1>0, <2>1, <2>3, <3>2 DEF Pending
    <3> QED
      BY <3>1, <3>2
  <2> QED
    BY <2>1, <2>5 DEF TL!vars
<1>2. CASE StoreMsg(c)
  <2>1. w.pc = "store" /\ w.msg \in Msgs /\ UNCHANGED <<queue, accepted>>
    BY <1>2 DEF StoreMsg, Shapes
  <2> DEFINE x == IF KindOf[w.msg] = "group" THEN [w EXCEPT !.pc = "members"]
                  ELSE [w EXCEPT !.pc = "check", !.todo = {DestOf[w.msg]}]
  <2>2. worker' = [worker EXCEPT ![c] = x] /\ x.pc # "store"
    BY <1>0, <1>2 DEF StoreMsg, Workers
  <2>3. worker'[c].pc # "store" /\ \A d \in Channels : d # c => worker'[d] = worker[d]
    BY <1>f, <2>2
  <2>4. Pending[c] = <<w.msg>> \o queue[c]
    BY <2>1 DEF Pending
  <2>5. Pending[c] # <<>> /\ Head(Pending[c]) = w.msg /\ Tail(Pending[c]) = queue[c]
    BY <1>0, <2>1, <2>4, TailOfCons
  <2>6. Pending' = [Pending EXCEPT ![c] = Tail(@)]
    BY <2>1, <2>3, <2>5 DEF Pending
  <2>7. store' \in {store, store \union {w.msg}}
    BY <1>2 DEF StoreMsg
  <2>8. TL!Settle(c)
    BY <2>1, <2>5, <2>6, <2>7 DEF TL!Settle
  <2> QED
    BY <2>8 DEF TL!Next
<1>3. CASE ReadMembers(c) \/ CheckRecipient(c) \/ Push(c)
  <2>1. UNCHANGED <<queue, accepted, store>> /\ w.pc # "store"
    BY <1>3 DEF ReadMembers, CheckRecipient, Push
  <2>2. ASSUME NEW x, worker' = [worker EXCEPT ![c] = x], x.pc # "store"
        PROVE  UNCHANGED TL!vars
    <3>0. worker'[c] = x /\ \A d \in Channels : d # c => worker'[d] = worker[d]
      BY <1>f, <2>2
    <3>1. ASSUME NEW d \in Channels
          PROVE  \/ worker'[d] = worker[d]
                 \/ worker'[d].pc # "store" /\ worker[d].pc # "store"
      BY <2>1, <2>2, <3>0
    <3>2. Pending' = Pending
      BY <2>1, <3>1, PendingFrame
    <3> QED
      BY <2>1, <3>2 DEF TL!vars
  <2>3. ASSUME NEW s PROVE WorkerWith(w, s).pc # "store"
    BY <1>0 DEF WorkerWith, Workers, IdleWorker
  <2>4. CASE ReadMembers(c)
    <3>1. \/ worker' = [worker EXCEPT ![c] = WorkerWith(w, Members[DestOf[w.msg]])]
          \/ worker' = [worker EXCEPT ![c] = IdleWorker]
      BY <2>4 DEF ReadMembers
    <3> QED
      BY <2>2, <2>3, <3>1, IdleTyped
  <2>5. CASE CheckRecipient(c)
    <3>1. PICK u \in w.todo :
            \/ worker' = [worker EXCEPT ![c] = WorkerWith(w, w.todo \ {u})]
            \/ worker' = [worker EXCEPT ![c] = [w EXCEPT !.pc = "push", !.to = u]]
      BY <2>5 DEF CheckRecipient
    <3> DEFINE x == [w EXCEPT !.pc = "push", !.to = u]
    <3>2. x.pc # "store"
      BY <1>0 DEF Workers
    <3>3. CASE worker' = [worker EXCEPT ![c] = x]
      <4> HIDE DEF x
      <4> QED
        BY <2>2, <3>2, <3>3
    <3>4. CASE worker' = [worker EXCEPT ![c] = WorkerWith(w, w.todo \ {u})]
      <4>1. WorkerWith(w, w.todo \ {u}).pc # "store"
        BY <2>3
      <4> QED
        BY <2>2, <3>4, <4>1
    <3> QED
      BY <3>1, <3>3, <3>4
  <2>6. CASE Push(c)
    <3>1. worker' = [worker EXCEPT ![c] = WorkerWith(w, w.todo \ {w.to})]
      BY <2>6 DEF Push
    <3>2. WorkerWith(w, w.todo \ {w.to}).pc # "store"
      BY <2>3
    <3> QED
      BY <2>2, <3>1, <3>2
  <2> QED
    BY <1>3, <2>4, <2>5, <2>6
<1> QED
  BY <1>1, <1>2, <1>3 DEF WorkerStep

(* A queued packet comes last among the pending ones. *)
LEMMA EnqueueTimeline ==
  ASSUME ChatTypeInv, NEW c \in Channels, NEW m \in Msgs, ChatEnqueue(c, m)
  PROVE  TL!Accept(c, m)
<1> USE DEF ChatTypeInv, chatVars, clientVars, histVars
<1>1. /\ m \notin accepted /\ accepted' = accepted \union {m}
      /\ queue' = [queue EXCEPT ![c] = Append(@, m)]
      /\ UNCHANGED <<worker, store>>
  BY DEF ChatEnqueue
<1>2. queue \in [Channels -> Seq(Msgs)] /\ (worker[c].pc = "store" => worker[c].msg \in Msgs)
  BY DEF ChatTypeOK, Shapes
<1>3. queue'[c] = Append(queue[c], m) /\ \A d \in Channels : d # c => queue'[d] = queue[d]
  BY <1>1, <1>2
<1>4. Pending'[c] = Append(Pending[c], m)
  <2>1. CASE worker[c].pc = "store"
    <3>1. <<worker[c].msg>> \o Append(queue[c], m) = Append(<<worker[c].msg>> \o queue[c], m)
      BY <1>2, <2>1, AppendToCons
    <3> QED
      BY <1>1, <1>3, <2>1, <3>1 DEF Pending
  <2>2. CASE worker[c].pc # "store"
    BY <1>1, <1>3, <2>2 DEF Pending
  <2> QED
    BY <2>1, <2>2
<1>5. Pending' = [Pending EXCEPT ![c] = Append(@, m)]
  <2>1. \A d \in Channels : d # c => Pending'[d] = Pending[d]
    BY <1>1, <1>3 DEF Pending
  <2>2. Pending = [d \in Channels |-> Pending[d]] /\ Pending' = [d \in Channels |-> Pending'[d]]
    BY DEF Pending
  <2> QED
    BY <1>4, <2>1, <2>2
<1> QED
  BY <1>1, <1>5 DEF TL!Accept

LEMMA ChatTimeline == ChatTypeInv /\ [Next]_vars => [TL!Next]_(TL!vars)
<1> SUFFICES ASSUME ChatTypeInv, [Next]_vars PROVE [TL!Next]_(TL!vars)
  OBVIOUS
<1>q. ASSUME UNCHANGED <<queue, worker, accepted, store>> PROVE UNCHANGED TL!vars
  BY <1>q DEF TL!vars, Pending
<1>1. CASE UNCHANGED vars
  BY <1>1, <1>q DEF vars, chatVars, histVars
<1>2. CASE ServerCrash
  <2>1. Pending' = [c \in Channels |-> <<>>]
    BY <1>2, IdleTyped DEF ServerCrash, Pending
  <2> QED
    BY <1>2, <2>1 DEF ServerCrash, TL!Crash, TL!Next
<1>3. ASSUME NEW c \in Channels, Move(c) \/ HandlerStep(c) PROVE UNCHANGED TL!vars
  BY <1>3, <1>q
  DEF Move, HandlerStep, ChatCheck, ChatSend, ReadBox, DelBox, ReadGroups, FetchReply, histVars
<1>4. ASSUME NEW c \in Channels,
             \/ FetchAll(c)
             \/ \E f \in Users : FetchFriend(c, f)
             \/ \E g \in Groups : FetchGroup(c, g)
      PROVE  UNCHANGED TL!vars
  <2>1. UNCHANGED <<queue, worker, accepted, store>>
    BY <1>4 DEF FetchAll, FetchFriend, FetchGroup, Fetch, histVars
  <2> QED
    BY <1>q, <2>1
<1>5. ASSUME NEW c \in Channels, NEW m \in Msgs, ChatEnqueue(c, m) PROVE TL!Next
  BY <1>5, EnqueueTimeline DEF TL!Next
<1> QED
  BY <1>1, <1>2, <1>3, <1>4, <1>5, WorkerTimeline DEF Next

(* The history is the per-connection FIFO of Timeline, for any number of    *)
(* connections and messages.  (MsgQueueRunnable.runTask with                *)
(* BaseAsyncChatMessageProcessor.handler.)                                  *)
THEOREM HistoryIsInOrder == Spec => HistoryInOrder
<1>1. Spec => []ChatTypeInv
  BY ChatInitial, ChatTyped, PTL DEF Spec
<1>2. Init => TL!Init
  BY TimelineInitial
<1>3. ChatTypeInv /\ [Next]_vars => [TL!Next]_(TL!vars)
  BY ChatTimeline
<1> QED
  BY <1>1, <1>2, <1>3, PTL DEF Spec, HistoryInOrder, TL!Spec
-----------------------------------------------------------------------------
(***************************************************************************)
(* OwnMail and MailIsHistory: whatever is in a mailbox, on its way out of   *)
(* one or with a client came through a worker that had written it to the    *)
(* history and had found its owner among the recipients.                    *)
(***************************************************************************)
Kept(m) == errs = 0 => m \in store

WorkerOwn ==
  \A c \in Channels :
    /\ worker[c].pc \in {"members", "check", "push"} => Kept(worker[c].msg)
    /\ worker[c].pc \in {"check", "push"} => worker[c].todo \subseteq Recipients(worker[c].msg)
    /\ worker[c].pc = "push" => worker[c].to \in Recipients(worker[c].msg)

Owned(p) == p[1][1] \in Recipients(p[2]) /\ Kept(p[2])

BoxOwn == \A k \in Keys : \A m \in mailbox[k] : Owned(<<k, m>>)

HandlerOwn ==
  \A c \in Channels :
    /\ \A p \in handler[c].buf : Owned(p) /\ (PrefixFree => p[1][1] = UserOf[c])
    /\ PrefixFree => \A k \in handler[c].keys : k[1] = UserOf[c]

GotOwn == \A r \in got : Owned(<<r[2], r[3]>>) /\ (PrefixFree => r[2][1] = r[1])

OwnInv == WorkerOwn /\ BoxOwn /\ HandlerOwn /\ GotOwn

LEMMA OwnInitial == Init => OwnInv
BY IdleTyped DEF Init, OwnInv, WorkerOwn, BoxOwn, HandlerOwn, GotOwn, IdleHandler

\* Failures are counted and the history only grows.
LEMMA KeptGrows ==
  ASSUME ChatTypeInv, [Next]_vars
  PROVE  store \subseteq store' /\ (errs' = 0 => errs = 0)
<1>1. errs \in Nat
  BY PresenceAssumption DEF ChatTypeInv, ChatTypeOK, PresenceTypeOK
<1>2. CASE UNCHANGED vars
  BY <1>2 DEF vars, chatVars, presenceVars
<1>3. CASE ServerCrash
  BY <1>3 DEF ServerCrash, Crash
<1>4. ASSUME NEW c \in Channels, Move(c) PROVE store \subseteq store' /\ (errs' = 0 => errs = 0)
  <2>1. errs' = errs \/ errs' = errs + 1
    BY <1>4 DEF Move, PresenceStep, Connect, LoginStart, LoginBind, LoginOnline, LoginDone,
       CloseBefore, CloseUnbind, PutTerminal, RedisWorks, RedisFails
  <2> QED
    BY <1>1, <1>4, <2>1 DEF Move
<1>5. ASSUME NEW c \in Channels, HandlerStep(c) PROVE store \subseteq store' /\ (errs' = 0 => errs = 0)
  <2>1. errs' = errs \/ errs' = errs + 1
    BY <1>5 DEF HandlerStep, ChatCheck, ChatSend, ReadBox, DelBox, ReadGroups, FetchReply, Verdict,
       RedisWorks, RedisFails, presenceVars
  <2>2. store' = store
    BY <1>5 DEF HandlerStep, ChatCheck, ChatSend, ReadBox, DelBox, ReadGroups, FetchReply
  <2> QED
    BY <1>1, <2>1, <2>2
<1>6. ASSUME NEW c \in Channels, WorkerStep(c) PROVE store \subseteq store' /\ (errs' = 0 => errs = 0)
  <2>1. errs' = errs \/ errs' = errs + 1
    BY <1>6 DEF WorkerStep, Take, StoreMsg, ReadMembers, CheckRecipient, Push, Verdict,
       RedisWorks, RedisFails, presenceVars
  <2>2. store \subseteq store'
    BY <1>6 DEF WorkerStep, Take, StoreMsg, ReadMembers, CheckRecipient, Push
  <2> QED
    BY <1>1, <2>1, <2>2
<1>7. ASSUME NEW c \in Channels,
             \/ FetchAll(c)
             \/ \E f \in Users : FetchFriend(c, f)
             \/ \E g \in Groups : FetchGroup(c, g)
      PROVE  store \subseteq store' /\ (errs' = 0 => errs = 0)
  <2>1. errs' = errs \/ errs' = errs + 1
    BY <1>7 DEF FetchAll, FetchFriend, FetchGroup, RedisWorks, RedisFails
  <2>2. store' = store
    BY <1>7 DEF FetchAll, FetchFriend, FetchGroup, Fetch
  <2> QED
    BY <1>1, <2>1, <2>2
<1>8. ASSUME NEW c \in Channels, NEW m \in Msgs, ChatEnqueue(c, m)
      PROVE  store \subseteq store' /\ (errs' = 0 => errs = 0)
  BY <1>8 DEF ChatEnqueue, presenceVars
<1> QED
  BY <1>2, <1>3, <1>4, <1>5, <1>6, <1>7, <1>8 DEF Next

\* Kept(m) after the step: m is bound before it.
KeptNow(m) == errs' = 0 => m \in store'

(* The worker looks at recipients of its own message only, and past the     *)
(* write its message is in the history unless a write failed.               *)
LEMMA WorkerOwnStep ==
  ASSUME ChatTypeInv, WorkerOwn, store \subseteq store', errs' = 0 => errs = 0,
         NEW c \in Channels, WorkerStep(c)
  PROVE  WorkerOwn'
<1> USE DEF ChatTypeInv
<1> DEFINE w == worker[c]
<1>w. w \in Workers
  BY DEF ChatTypeOK
<1>r. ASSUME NEW x, worker' = [worker EXCEPT ![c] = x],
             x.pc \in {"members", "check", "push"} => KeptNow(x.msg),
             x.pc \in {"check", "push"} => x.todo \subseteq Recipients(x.msg),
             x.pc = "push" => x.to \in Recipients(x.msg)
      PROVE  WorkerOwn'
  <2>1. worker'[c] = x /\ \A d \in Channels : d # c => worker'[d] = worker[d]
    BY <1>r DEF ChatTypeOK
  <2> SUFFICES ASSUME NEW d \in Channels
               PROVE  /\ worker'[d].pc \in {"members", "check", "push"} => KeptNow(worker'[d].msg)
                      /\ worker'[d].pc \in {"check", "push"} => worker'[d].todo \subseteq Recipients(worker'[d].msg)
                      /\ worker'[d].pc = "push" => worker'[d].to \in Recipients(worker'[d].msg)
    BY DEF WorkerOwn, Recipients, Kept, KeptNow
  <2>2. CASE d = c
    BY <1>r, <2>1, <2>2
  <2>3. CASE d # c
    BY <2>1, <2>3 DEF WorkerOwn, Kept, KeptNow
  <2> QED
    BY <2>2, <2>3
<1>s. ASSUME NEW S \in SUBSET Recipients(w.msg), Kept(w.msg),
             worker' = [worker EXCEPT ![c] = WorkerWith(w, S)]
      PROVE  WorkerOwn'
  <2> DEFINE x == WorkerWith(w, S)
  <2>1. \/ x.pc = "idle"
        \/ x.pc = "check" /\ x.msg = w.msg /\ x.todo = S
    BY <1>w DEF WorkerWith, Workers, IdleWorker
  <2>2. KeptNow(w.msg)
    BY <1>s DEF Kept, KeptNow
  <2>3. worker' = [worker EXCEPT ![c] = x]
    BY <1>s
  <2> HIDE DEF x
  <2> QED
    BY <1>r, <1>s, <2>1, <2>2, <2>3
<1>1. CASE Take(c)
  <2> DEFINE x == [w EXCEPT !.pc = "store", !.msg = Head(queue[c])]
  <2>1. worker' = [worker EXCEPT ![c] = x] /\ x.pc = "store"
    BY <1>1, <1>w DEF Take, Workers
  <2> HIDE DEF x
  <2> QED
    BY <1>r, <2>1
<1>2. CASE StoreMsg(c)
  <2> DEFINE x == IF KindOf[w.msg] = "group" THEN [w EXCEPT !.pc = "members"]
                  ELSE [w EXCEPT !.pc = "check", !.todo = {DestOf[w.msg]}]
  <2>1. worker' = [worker EXCEPT ![c] = x] /\ w.msg \in Msgs
    BY <1>2 DEF StoreMsg, Shapes
  <2>2. /\ x.msg = w.msg /\ x.pc \in {"members", "check"}
        /\ x.pc = "check" => KindOf[w.msg] # "group" /\ x.todo = {DestOf[w.msg]}
    BY <1>w DEF Workers
  <2>3. KeptNow(w.msg)
    <3>1. errs \in Nat
      BY PresenceAssumption DEF ChatTypeOK, PresenceTypeOK
    <3> QED
      BY <1>2, <3>1 DEF StoreMsg, KeptNow, RedisWorks, RedisFails
  <2> HIDE DEF x
  <2>4. x.pc = "check" => x.todo \subseteq Recipients(x.msg)
    BY <2>2 DEF Recipients
  <2> QED
    BY <1>r, <2>1, <2>2, <2>3, <2>4
<1>3. CASE ReadMembers(c)
  <2>1. Kept(w.msg) /\ KindOf[w.msg] = "group"
    BY <1>3 DEF ReadMembers, WorkerOwn, Shapes
  <2>2. Members[DestOf[w.msg]] \in SUBSET Recipients(w.msg)
    BY <2>1 DEF Recipients
  <2>3. \/ worker' = [worker EXCEPT ![c] = WorkerWith(w, Members[DestOf[w.msg]])]
        \/ worker' = [worker EXCEPT ![c] = IdleWorker]
    BY <1>3 DEF ReadMembers
  <2> QED
    BY <1>r, <1>s, <2>1, <2>2, <2>3, IdleTyped
<1>4. CASE CheckRecipient(c)
  <2>1. PICK u \in w.todo :
          \/ worker' = [worker EXCEPT ![c] = WorkerWith(w, w.todo \ {u})]
          \/ worker' = [worker EXCEPT ![c] = [w EXCEPT !.pc = "push", !.to = u]]
    BY <1>4 DEF CheckRecipient
  <2>2. Kept(w.msg) /\ w.todo \subseteq Recipients(w.msg)
    BY <1>4 DEF CheckRecipient, WorkerOwn
  <2> DEFINE x == [w EXCEPT !.pc = "push", !.to = u]
  <2>3. x.pc = "push" /\ x.to = u /\ x.todo = w.todo /\ x.msg = w.msg
    BY <1>w DEF Workers
  <2>4. KeptNow(w.msg)
    BY <2>2 DEF Kept, KeptNow
  <2>5. CASE worker' = [worker EXCEPT ![c] = x]
    <3> HIDE DEF x
    <3> QED
      BY <1>r, <2>1, <2>2, <2>3, <2>4, <2>5
  <2>6. CASE worker' = [worker EXCEPT ![c] = WorkerWith(w, w.todo \ {u})]
    <3>1. w.todo \ {u} \in SUBSET Recipients(w.msg)
      BY <2>2
    <3> QED
      BY <1>s, <2>2, <2>6, <3>1
  <2> QED
    BY <2>1, <2>5, <2>6
<1>5. CASE Push(c)
  <2>1. Kept(w.msg) /\ w.todo \ {w.to} \in SUBSET Recipients(w.msg)
    BY <1>5 DEF Push, WorkerOwn
  <2>2. worker' = [worker EXCEPT ![c] = WorkerWith(w, w.todo \ {w.to})]
    BY <1>5 DEF Push
  <2> QED
    BY <1>s, <2>1, <2>2
<1> QED
  BY <1>1, <1>2, <1>3, <1>4, <1>5 DEF WorkerStep

\* A mailbox is written by Push only, with what the worker knows.
LEMMA BoxOwnStep ==
  ASSUME ChatTypeInv, OwnInv, store \subseteq store', errs' = 0 => errs = 0,
         NEW c \in Channels, Push(c)
  PROVE  BoxOwn'
<1> USE DEF ChatTypeInv
<1> DEFINE w == worker[c]
           k == BoxOf(w.msg, w.to)
<1>1. w.msg \in Msgs /\ w.to \in Users /\ w.to \in Recipients(w.msg) /\ Kept(w.msg)
  BY DEF Push, Shapes, OwnInv, WorkerOwn
<1>2. k \in Keys /\ k[1] = w.to
  BY <1>1, BoxIsKey DEF BoxOf
<1>3. mailbox' = [mailbox EXCEPT ![k] = @ \union {w.msg}] \/ mailbox' = mailbox
  BY DEF Push
<1> HIDE DEF k
<1>4. \A j \in Keys : \A m \in mailbox'[j] : m \in mailbox[j] \/ (j = k /\ m = w.msg)
  BY <1>2, <1>3 DEF ChatTypeOK
<1>5. \A j \in Keys, m \in Msgs : Owned(<<j, m>>) => Owned(<<j, m>>)'
  BY DEF Owned, Kept, Recipients
<1>6. ASSUME NEW j \in Keys, NEW m \in mailbox'[j] PROVE Owned(<<j, m>>)'
  <2>1. CASE m \in mailbox[j]
    BY <1>5, <2>1 DEF ChatTypeOK, OwnInv, BoxOwn
  <2>2. CASE j = k /\ m = w.msg
    BY <1>1, <1>2, <1>5, <2>2 DEF Owned
  <2> QED
    BY <1>4, <1>6, <2>1, <2>2
<1> QED
  BY <1>6 DEF BoxOwn

\* What a handler reads out of a mailbox is its user's, if its keys are.
LEMMA HandlerOwnFrame ==
  ASSUME ChatTypeInv, OwnInv, store \subseteq store', errs' = 0 => errs = 0,
         NEW c \in Channels, NEW x, handler' = [handler EXCEPT ![c] = x],
         \A p \in x.buf : p \in handler[c].buf
            \/ (p[1] \in Keys /\ p[2] \in mailbox[p[1]] /\ p = <<p[1], p[2]>>
                /\ (PrefixFree => p[1][1] = UserOf[c])),
         PrefixFree => \A k \in x.keys : k[1] = UserOf[c]
  PROVE  HandlerOwn'
<1>1. handler'[c] = x /\ \A d \in Channels : d # c => handler'[d] = handler[d]
  BY DEF ChatTypeInv, ChatTypeOK
<1>2. HandlerOwn /\ BoxOwn
  BY DEF OwnInv
<1>3. ASSUME NEW p \in x.buf PROVE Owned(p) /\ (PrefixFree => p[1][1] = UserOf[c])
  BY <1>2, <1>3 DEF HandlerOwn, BoxOwn
<1>4. ASSUME NEW p, Owned(p) PROVE Owned(p)'
  BY <1>4 DEF Owned, Kept, Recipients
<1>5. ASSUME NEW d \in Channels
      PROVE  /\ \A p \in handler'[d].buf : Owned(p)' /\ (PrefixFree => p[1][1] = UserOf[d])
             /\ PrefixFree => \A k \in handler'[d].keys : k[1] = UserOf[d]
  <2>1. CASE d = c
    BY <1>1, <1>3, <1>4, <2>1
  <2>2. CASE d # c
    BY <1>1, <1>2, <1>4, <2>2 DEF HandlerOwn
  <2> QED
    BY <2>1, <2>2
<1> QED
  BY <1>5 DEF HandlerOwn, PrefixFree

(* The handler's steps: each leaves it with part of what it had read, with  *)
(* what it reads now, and with keys of its own user.                        *)
LEMMA HandlerOwnStep ==
  ASSUME ChatTypeInv, OwnInv, store \subseteq store', errs' = 0 => errs = 0, NEW c \in Channels,
         \/ HandlerStep(c)
         \/ \E m \in Msgs : ChatEnqueue(c, m)
         \/ FetchAll(c)
         \/ \E f \in Users : FetchFriend(c, f)
         \/ \E g \in Groups : FetchGroup(c, g)
  PROVE  HandlerOwn'
<1> DEFINE h == handler[c]
<1>h. h \in Handlers /\ HandlerOwn
  BY DEF ChatTypeInv, ChatTypeOK, OwnInv
<1>k. PrefixFree => \A k \in h.keys : k[1] = UserOf[c]
  BY <1>h DEF HandlerOwn
<1>e. ASSUME NEW x, handler' = [handler EXCEPT ![c] = x], x.buf = {}, x.keys = {}
      PROVE  HandlerOwn'
  BY <1>e, HandlerOwnFrame
<1>i. IdleHandler.buf = {} /\ IdleHandler.keys = {}
  BY DEF IdleHandler
<1>1. ASSUME NEW m \in Msgs, ChatEnqueue(c, m) PROVE HandlerOwn'
  <2> DEFINE y == CASE KindOf[m] = "private" -> [IdleHandler EXCEPT !.pc = "check", !.msg = m]
                    [] KindOf[m] = "group" -> [IdleHandler EXCEPT !.pc = "send", !.msg = m]
                    [] OTHER -> IdleHandler
  <2>1. handler' = [handler EXCEPT ![c] = y]
    BY <1>1 DEF ChatEnqueue
  <2>2. y.buf = {} /\ y.keys = {}
    BY DEF IdleHandler
  <2> HIDE DEF y
  <2> QED
    BY <1>e, <2>1, <2>2
<1>2. CASE ChatCheck(c)
  <2> DEFINE y == [h EXCEPT !.pc = "send"]
  <2>1. \/ handler' = [handler EXCEPT ![c] = y]
        \/ handler' = [handler EXCEPT ![c] = IdleHandler]
    BY <1>2 DEF ChatCheck
  <2>2. y.buf = h.buf /\ y.keys = h.keys
    BY <1>h DEF Handlers
  <2> HIDE DEF y
  <2>3. CASE handler' = [handler EXCEPT ![c] = y]
    BY <1>k, <2>2, <2>3, HandlerOwnFrame
  <2> QED
    BY <1>e, <1>i, <2>1, <2>3
<1>3. CASE ChatSend(c)
  BY <1>3, <1>e, <1>i DEF ChatSend
<1>4. ASSUME NEW mode, NEW keys, NEW pc, Fetch(c, mode, keys, pc),
             PrefixFree => \A k \in keys : k[1] = UserOf[c]
      PROVE  HandlerOwn'
  <2> DEFINE x == [IdleHandler EXCEPT !.pc = pc, !.mode = mode, !.keys = keys]
  <2>1. handler' = [handler EXCEPT ![c] = x]
    BY <1>4 DEF Fetch
  <2>2. x.buf = {} /\ x.keys = keys
    BY DEF IdleHandler
  <2> HIDE DEF x
  <2> QED
    BY <1>4, <2>1, <2>2, HandlerOwnFrame
<1>5. CASE FetchAll(c)
  <2>1. PrefixFree => \A k \in BoxesLike(UserOf[c]) : k[1] = UserOf[c]
    BY PresenceAssumption DEF PrefixFree, BoxesLike
  <2> QED
    BY <1>4, <1>5, <2>1 DEF FetchAll
<1>6. ASSUME NEW f, FetchFriend(c, f) \/ FetchGroup(c, f) PROVE HandlerOwn'
  <2>1. \A k \in {<<UserOf[c], f>>} : k[1] = UserOf[c]
    OBVIOUS
  <2> QED
    BY <1>4, <1>6, <2>1 DEF FetchFriend, FetchGroup
<1>n. ASSUME NEW ks, NEW friend, handler' = [handler EXCEPT ![c] = NextBox(h, ks, friend)],
             PrefixFree => \A k \in ks : k[1] = UserOf[c]
      PROVE  HandlerOwn'
  <2>1. NextBox(h, ks, friend).buf = h.buf /\ NextBox(h, ks, friend).keys = ks
    BY <1>h DEF NextBox, Handlers
  <2> QED
    BY <1>n, <2>1, HandlerOwnFrame
<1>7. CASE ReadBox(c)
  <2> DEFINE box(k) == {k} \X (mailbox[k] \ AtZero)
  <2>1. PICK k \in h.keys :
          \/ handler' = [handler EXCEPT ![c] = Removing(h, k, TRUE, box(k))]
          \/ handler' = [handler EXCEPT ![c] = Removing(h, k, FALSE, {})]
          \/ handler' = [handler EXCEPT ![c] = NextBox(h, h.keys \ {k}, FALSE)]
    BY <1>7 DEF ReadBox
  <2>2. k \in Keys /\ (PrefixFree => k[1] = UserOf[c])
    BY <1>h, <1>k, <2>1 DEF Handlers
  <2>3. CASE handler' = [handler EXCEPT ![c] = NextBox(h, h.keys \ {k}, FALSE)]
    BY <1>k, <1>n, <2>3
  <2>4. ASSUME NEW ok, NEW read, read \subseteq box(k),
               handler' = [handler EXCEPT ![c] = Removing(h, k, ok, read)]
        PROVE  HandlerOwn'
    <3> DEFINE x == Removing(h, k, ok, read)
    <3>1. x.buf = h.buf \union read /\ x.keys = h.keys
      BY <1>h DEF Removing, Handlers
    <3>2. handler' = [handler EXCEPT ![c] = x]
      BY <2>4
    <3>3. \A p \in read : p[1] = k /\ p[2] \in mailbox[k] /\ p = <<p[1], p[2]>>
      BY <2>4
    <3> HIDE DEF x
    <3>4. \A p \in x.buf : p \in h.buf
            \/ (p[1] \in Keys /\ p[2] \in mailbox[p[1]] /\ p = <<p[1], p[2]>>
                /\ (PrefixFree => p[1][1] = UserOf[c]))
      BY <2>2, <3>1, <3>3
    <3> QED
      BY <1>k, <3>1, <3>2, <3>4, HandlerOwnFrame
  <2> HIDE DEF box
  <2>5. CASE handler' = [handler EXCEPT ![c] = Removing(h, k, TRUE, box(k))]
    BY <2>4, <2>5
  <2>6. CASE handler' = [handler EXCEPT ![c] = Removing(h, k, FALSE, {})]
    <3> DEFINE none == {}
    <3>1. none \subseteq box(k) /\ handler' = [handler EXCEPT ![c] = Removing(h, k, FALSE, none)]
      BY <2>6
    <3> HIDE DEF none
    <3> QED
      BY <2>4, <3>1
  <2> QED
    BY <2>1, <2>3, <2>5, <2>6
<1>8. CASE DelBox(c)
  <2>1. PICK k \in h.cur :
          \/ handler' = [handler EXCEPT ![c] = NextBox(h, h.keys \ {k}, k[2] \in Users)]
          \/ handler' = [handler EXCEPT ![c] = IdleHandler]
    BY <1>8 DEF DelBox
  <2>2. PrefixFree => \A j \in h.keys \ {k} : j[1] = UserOf[c]
    BY <1>k
  <2>3. CASE handler' = [handler EXCEPT ![c] = NextBox(h, h.keys \ {k}, k[2] \in Users)]
    BY <1>n, <2>2, <2>3
  <2> QED
    BY <1>e, <1>i, <2>1, <2>3
<1>9. CASE ReadGroups(c)
  <2> DEFINE boxes == {<<UserOf[c], g>> : g \in {i \in Groups : UserOf[c] \in Members[i]}}
  <2>1. \/ handler' = [handler EXCEPT ![c] = NextBox(h, boxes, FALSE)]
        \/ handler' = [handler EXCEPT ![c] = NextBox(h, {}, FALSE)]
    BY <1>9 DEF ReadGroups
  <2>2. \A k \in boxes : k[1] = UserOf[c]
    OBVIOUS
  <2> HIDE DEF boxes
  <2>3. CASE handler' = [handler EXCEPT ![c] = NextBox(h, boxes, FALSE)]
    BY <1>n, <2>2, <2>3
  <2>4. CASE handler' = [handler EXCEPT ![c] = NextBox(h, {}, FALSE)]
    <3> DEFINE none == {}
    <3>1. handler' = [handler EXCEPT ![c] = NextBox(h, none, FALSE)] /\ \A k \in none : k[1] = UserOf[c]
      BY <2>4
    <3> HIDE DEF none
    <3> QED
      BY <1>n, <3>1
  <2> QED
    BY <2>1, <2>3, <2>4
<1>10. CASE FetchReply(c)
  BY <1>10, <1>e, <1>i DEF FetchReply
<1> QED
  BY <1>1, <1>2, <1>3, <1>5, <1>6, <1>7, <1>8, <1>9, <1>10 DEF HandlerStep

\* Only an answer that is sent adds to what clients hold.
LEMMA GotOwnStep ==
  ASSUME ChatTypeInv, OwnInv, store \subseteq store', errs' = 0 => errs = 0,
         NEW c \in Channels, FetchReply(c)
  PROVE  GotOwn'
<1> DEFINE new == {<<UserOf[c], p[1], p[2]>> : p \in handler[c].buf}
<1>1. got' = got \union new \/ got' = got
  BY DEF FetchReply
<1>2. ASSUME NEW p, Owned(p) PROVE Owned(p)'
  BY <1>2 DEF Owned, Kept, Recipients
<1>3. handler[c].buf \subseteq Keys \X Msgs
  BY DEF ChatTypeInv, ChatTypeOK, Handlers
<1>4. ASSUME NEW r \in new PROVE Owned(<<r[2], r[3]>>) /\ (PrefixFree => r[2][1] = r[1])
  <2>1. PICK p \in handler[c].buf : r = <<UserOf[c], p[1], p[2]>>
    BY <1>4
  <2>2. p = <<r[2], r[3]>> /\ p[1] = r[2] /\ UserOf[c] = r[1]
    BY <1>3, <2>1
  <2> QED
    BY <2>2 DEF OwnInv, HandlerOwn
<1> HIDE DEF new
<1>5. ASSUME NEW r \in got' PROVE Owned(<<r[2], r[3]>>)' /\ (PrefixFree => r[2][1] = r[1])
  BY <1>1, <1>2, <1>4, <1>5 DEF OwnInv, GotOwn
<1> QED
  BY <1>5 DEF GotOwn, PrefixFree

LEMMA OwnPreserved == ChatTypeInv /\ OwnInv /\ [Next]_vars => OwnInv'
<1> SUFFICES ASSUME ChatTypeInv, OwnInv, [Next]_vars PROVE OwnInv'
  OBVIOUS
<1>0. store \subseteq store' /\ (errs' = 0 => errs = 0)
  BY KeptGrows
<1>1. WorkerOwn /\ BoxOwn /\ HandlerOwn /\ GotOwn
  BY DEF OwnInv
<1>2. \A p : Owned(p) => Owned(p)'
  BY <1>0 DEF Owned, Kept, Recipients
<1>w. ASSUME worker' = worker PROVE WorkerOwn'
  BY <1>0, <1>1, <1>w DEF WorkerOwn, Kept, Recipients
<1>b. ASSUME \A k \in Keys : mailbox'[k] \subseteq mailbox[k] PROVE BoxOwn'
  BY <1>1, <1>2, <1>b DEF BoxOwn
<1>h. ASSUME handler' = handler PROVE HandlerOwn'
  BY <1>1, <1>2, <1>h DEF HandlerOwn, PrefixFree
<1>g. ASSUME got' = got PROVE GotOwn'
  BY <1>1, <1>2, <1>g DEF GotOwn, PrefixFree
<1>3. ASSUME UNCHANGED <<worker, mailbox, handler, got>> PROVE OwnInv'
  BY <1>3, <1>w, <1>b, <1>h, <1>g DEF OwnInv
<1>4. CASE UNCHANGED vars
  BY <1>3, <1>4 DEF vars, chatVars, clientVars
<1>5. ASSUME NEW c \in Channels, Move(c) PROVE OwnInv'
  BY <1>3, <1>5 DEF Move, clientVars
<1>6. CASE ServerCrash
  <2>1. /\ worker' = [c \in Channels |-> IdleWorker] /\ handler' = [c \in Channels |-> IdleHandler]
        /\ mailbox' = mailbox /\ got' = got
    BY <1>6 DEF ServerCrash, clientVars
  <2>2. WorkerOwn' /\ HandlerOwn'
    BY <2>1, IdleTyped DEF WorkerOwn, HandlerOwn, IdleHandler
  <2> QED
    BY <1>b, <1>g, <2>1, <2>2 DEF OwnInv
<1>7. ASSUME NEW c \in Channels, WorkerStep(c) PROVE OwnInv'
  <2>1. WorkerOwn'
    BY <1>0, <1>1, <1>7, WorkerOwnStep
  <2>2. handler' = handler /\ got' = got
    BY <1>7 DEF WorkerStep, Take, StoreMsg, ReadMembers, CheckRecipient, Push, clientVars
  <2>3. Push(c) \/ mailbox' = mailbox
    BY <1>7 DEF WorkerStep, Take, StoreMsg, ReadMembers, CheckRecipient
  <2>4. BoxOwn'
    BY <1>0, <1>b, <2>3, BoxOwnStep
  <2> QED
    BY <1>h, <1>g, <2>1, <2>2, <2>4 DEF OwnInv
<1>8. ASSUME NEW c \in Channels,
             \/ HandlerStep(c)
             \/ \E m \in Msgs : ChatEnqueue(c, m)
             \/ FetchAll(c)
             \/ \E f \in Users : FetchFriend(c, f)
             \/ \E g \in Groups : FetchGroup(c, g)
      PROVE  OwnInv'
  <2>1. HandlerOwn'
    BY <1>0, <1>8, HandlerOwnStep
  <2>2. worker' = worker
    BY <1>8 DEF HandlerStep, ChatCheck, ChatSend, ReadBox, DelBox, ReadGroups, FetchReply,
       ChatEnqueue, FetchAll, FetchFriend, FetchGroup, Fetch
  <2>3. DelBox(c) \/ mailbox' = mailbox
    BY <1>8 DEF HandlerStep, ChatCheck, ChatSend, ReadBox, ReadGroups, FetchReply,
       ChatEnqueue, FetchAll, FetchFriend, FetchGroup, Fetch
  <2>4. DelBox(c) => \A k \in Keys : mailbox'[k] \subseteq mailbox[k]
    BY DEF DelBox, ChatTypeInv, ChatTypeOK
  <2>5. BoxOwn'
    BY <1>b, <2>3, <2>4
  <2>6. FetchReply(c) \/ got' = got
    BY <1>8 DEF HandlerStep, ChatCheck, ChatSend, ReadBox, DelBox, ReadGroups,
       ChatEnqueue, FetchAll, FetchFriend, FetchGroup, Fetch, clientVars
  <2>7. GotOwn'
    BY <1>0, <1>g, <2>6, GotOwnStep
  <2> QED
    BY <1>w, <2>1, <2>2, <2>5, <2>7 DEF OwnInv
<1> QED
  BY <1>4, <1>5, <1>6, <1>7, <1>8 DEF Next

LEMMA OwnHeld == Spec => []OwnInv
<1>1. Init => ChatTypeInv /\ OwnInv
  BY ChatInitial, OwnInitial
<1>2. ChatTypeInv /\ OwnInv /\ [Next]_vars => ChatTypeInv' /\ OwnInv'
  BY ChatTyped, OwnPreserved
<1> QED
  BY <1>1, <1>2, PTL DEF Spec

(* However requests, logins, pushes, failures and crashes interleave, with  *)
(* no user id a prefix of another a client holds only messages out of its   *)
(* user's own mailboxes, and only ones that are addressed to that user.     *)
(* (RedisMessageHelper.getFriendsOfflineMessage, writeMessage.)             *)
THEOREM MailIsOwn == Spec => []OwnMail
<1>1. OwnInv => OwnMail
  BY DEF OwnInv, GotOwn, Owned, OwnMail, OwnMailOnly
<1> QED
  BY <1>1, OwnHeld, PTL

(* Until a call fails, all that clients hold or are about to be sent is in  *)
(* the history.  (BaseAsyncChatMessageProcessor.handler stores first.)      *)
THEOREM MailWasStored == Spec => []MailIsHistory
<1>1. OwnInv => MailIsHistory
  BY DEF OwnInv, GotOwn, HandlerOwn, Owned, Kept, MailIsHistory
<1> QED
  BY <1>1, OwnHeld, PTL
-----------------------------------------------------------------------------
(***************************************************************************)
(* SettledExactlyOnce and HandedOnce.  Both need that a message is queued,  *)
(* taken and pushed once.                                                   *)
(***************************************************************************)
Queued(m) == \E i \in DOMAIN queue[SrcOf[m]] : queue[SrcOf[m]][i] = m

\* The worker has not yet decided about u.
Pends(m, u) ==
  \/ Queued(m)
  \/ worker[SrcOf[m]].msg = m /\ worker[SrcOf[m]].pc \in {"store", "members"}
  \/ worker[SrcOf[m]].msg = m /\ u \in worker[SrcOf[m]].todo

QueueOnce ==
  \A c \in Channels :
    /\ \A i \in DOMAIN queue[c] :
         queue[c][i] \in accepted /\ SrcOf[queue[c][i]] = c /\ queue[c][i] # worker[c].msg
    /\ \A i, j \in DOMAIN queue[c] : queue[c][i] = queue[c][j] => i = j
    /\ worker[c].pc = "idle" => worker[c].msg = None
    /\ worker[c].pc # "idle" => worker[c].msg \in accepted /\ SrcOf[worker[c].msg] = c
    /\ worker[c].pc = "push" => worker[c].to \in worker[c].todo
    /\ handler[c].pc \in {"check", "send"} => handler[c].msg \in accepted /\ SrcOf[handler[c].msg] = c
    /\ handler[c].pc \notin {"check", "send"} => handler[c].msg = None
    /\ handler[c].pc = "check" => KindOf[handler[c].msg] = "private"

PushedOnce ==
  /\ \A p \in pushed : p[2] \in accepted
  /\ \A m \in Msgs, u \in Users : Pends(m, u) => <<BoxOf(m, u), m>> \notin pushed

OnceInv == QueueOnce /\ PushedOnce

\* What is in a mailbox or came out of one was pushed.
CameByPush ==
  /\ \A k \in Keys : \A m \in mailbox[k] : <<k, m>> \in pushed
  /\ \A c \in Channels : handler[c].buf \subseteq pushed
  /\ \A r \in got : <<r[2], r[3]>> \in pushed

OneAtATime == \A c \in Channels : \A j, k \in handler[c].cur : j = k

\* One hand at a time, but for what `shared' names.
HeldOnce(p) ==
  /\ p[2] \in mailbox[p[1]] =>
       /\ \A u \in Users : <<u, p[1], p[2]>> \notin got
       /\ \A c \in Channels : p \in handler[c].buf => handler[c].pc = "del" /\ p[1] \in handler[c].cur
  /\ \A c \in Channels : p \in handler[c].buf =>
       /\ \A u \in Users : <<u, p[1], p[2]>> \notin got
       /\ \A d \in Channels : p \in handler[d].buf => d = c
  /\ \A u \in Users : <<u, p[1], p[2]>> \notin twice

HandedInv == CameByPush /\ OneAtATime /\ (errs = 0 => \A p \in (Keys \X Msgs) \ shared : HeldOnce(p))

\* An open connection past bindUser is in t-io's index; logged in, in the groups'.
Indexed ==
  \A c \in Channels : conn[c] = "open" =>
    /\ login[c] \in {"bound", "online", "done"} => c \in bound
    /\ login[c] = "done" => c \in grouped

HasLive(m, u) == \E c \in Channels : UserOf[c] = u /\ <<m, c>> \in live

\* v: whether u was online, all the time, while m was under way.
Fate(m, u, v) ==
  /\ ~Done(m) => Settled(u) /\ (IsOnline(u) <=> v)
  /\ handler[SrcOf[m]].msg = m => ~HasLive(m, u)
  /\ handler[SrcOf[m]].msg # m => (HasLive(m, u) <=> v)
  /\ ~Pends(m, u) => (<<BoxOf(m, u), m>> \in pushed <=> ~v)
  /\ worker[SrcOf[m]].msg = m /\ worker[SrcOf[m]].pc = "push" /\ worker[SrcOf[m]].to = u => ~v

Fates ==
  errs = 0 =>
    \A m \in accepted : \A u \in Recipients(m) :
      KindOf[m] # "unknown" /\ <<u, m>> \notin moved => \E v \in BOOLEAN : Fate(m, u, v)

LiveIsAccepted == \A p \in live : p[1] \in accepted

SettledInv == Indexed /\ LiveIsAccepted /\ Fates

LEMMA AppendAt ==
  ASSUME NEW S, NEW q \in Seq(S), NEW e \in S
  PROVE  /\ DOMAIN Append(q, e) = 1 .. (Len(q) + 1) /\ DOMAIN q = 1 .. Len(q) /\ Len(q) \in Nat
         /\ \A i \in DOMAIN q : Append(q, e)[i] = q[i]
         /\ Append(q, e)[Len(q) + 1] = e
OBVIOUS

LEMMA TailAt ==
  ASSUME NEW S, NEW q \in Seq(S), q # <<>>
  PROVE  /\ DOMAIN q = 1 .. Len(q) /\ Len(q) \in Nat /\ Len(q) > 0
         /\ DOMAIN Tail(q) = 1 .. (Len(q) - 1)
         /\ \A i \in 1 .. (Len(q) - 1) : Tail(q)[i] = q[i + 1]
         /\ Head(q) = q[1]
OBVIOUS

LEMMA OnceInitial == Init => OnceInv
<1> SUFFICES ASSUME Init PROVE OnceInv
  OBVIOUS
<1>1. /\ queue = [c \in Channels |-> <<>>] /\ worker = [c \in Channels |-> IdleWorker]
      /\ handler = [c \in Channels |-> IdleHandler] /\ pushed = {}
  BY DEF Init
<1>2. QueueOnce
  BY <1>1 DEF QueueOnce, IdleWorker, IdleHandler
<1> QED
  BY <1>1, <1>2 DEF OnceInv, PushedOnce

(* A worker between two packets, or at another place in the same one. *)
LEMMA WorkerMoves ==
  ASSUME ChatTypeInv, QueueOnce, NEW c \in Channels, NEW x,
         worker' = [worker EXCEPT ![c] = x], UNCHANGED <<queue, handler, accepted>>,
         worker[c].pc # "idle",
         \/ x.pc = "idle" /\ x.msg = None
         \/ x.pc # "idle" /\ x.msg = worker[c].msg /\ (x.pc = "push" => x.to \in x.todo)
  PROVE  QueueOnce'
<1>1. worker'[c] = x /\ \A d \in Channels : d # c => worker'[d] = worker[d]
  BY DEF ChatTypeInv, ChatTypeOK
<1>2. None \notin Msgs /\ \A i \in DOMAIN queue[c] : queue[c][i] \in Msgs
  BY ChatAssumption DEF ChatTypeInv, ChatTypeOK
<1>3. ASSUME NEW d \in Channels
      PROVE  /\ \A i \in DOMAIN queue[d] :
                  queue[d][i] \in accepted /\ SrcOf[queue[d][i]] = d /\ queue[d][i] # worker'[d].msg
             /\ worker'[d].pc = "idle" => worker'[d].msg = None
             /\ worker'[d].pc # "idle" => worker'[d].msg \in accepted /\ SrcOf[worker'[d].msg] = d
             /\ worker'[d].pc = "push" => worker'[d].to \in worker'[d].todo
  BY <1>1, <1>2 DEF QueueOnce
<1> QED
  BY <1>3 DEF QueueOnce

(* Taking a packet: it leaves the queue, and is nowhere else in it. *)
LEMMA TakeOnce ==
  ASSUME ChatTypeInv, QueueOnce, NEW c \in Channels, Take(c)
  PROVE  QueueOnce' /\ \A m \in Msgs, u \in Users : Pends(m, u)' <=> Pends(m, u)
<1> DEFINE w == worker[c]
           q == queue[c]
           x == [w EXCEPT !.pc = "store", !.msg = Head(q)]
<1>0. /\ worker \in [Channels -> Workers] /\ queue \in [Channels -> Seq(Msgs)] /\ w \in Workers
      /\ q \in Seq(Msgs) /\ q # <<>> /\ w.pc = "idle" /\ w.msg = None
      /\ UNCHANGED <<handler, accepted>>
  BY DEF ChatTypeInv, ChatTypeOK, Take, QueueOnce, histVars
<1>1. /\ DOMAIN q = 1 .. Len(q) /\ Len(q) \in Nat /\ Len(q) > 0
      /\ DOMAIN Tail(q) = 1 .. (Len(q) - 1)
      /\ \A i \in 1 .. (Len(q) - 1) : Tail(q)[i] = q[i + 1]
      /\ Head(q) = q[1]
  BY <1>0, TailAt
<1>2. x.pc = "store" /\ x.msg = q[1]
  BY <1>0, <1>1 DEF Workers
<1>3. worker' = [worker EXCEPT ![c] = x] /\ queue' = [queue EXCEPT ![c] = Tail(q)]
  BY DEF Take
<1> HIDE DEF x
<1>4. /\ worker'[c] = x /\ queue'[c] = Tail(q)
      /\ \A d \in Channels : d # c => worker'[d] = worker[d] /\ queue'[d] = queue[d]
  BY <1>0, <1>3
<1>5. 1 \in DOMAIN q /\ q[1] \in accepted /\ SrcOf[q[1]] = c
      /\ \A i, j \in DOMAIN q : q[i] = q[j] => i = j
  BY <1>1 DEF QueueOnce
<1>6. ASSUME NEW i \in DOMAIN Tail(q)
      PROVE  Tail(q)[i] \in accepted /\ SrcOf[Tail(q)[i]] = c /\ Tail(q)[i] # q[1]
  <2>1. i + 1 \in DOMAIN q /\ i + 1 # 1 /\ Tail(q)[i] = q[i + 1]
    BY <1>1, <1>6
  <2> QED
    BY <1>5, <2>1 DEF QueueOnce
<1>7. ASSUME NEW i \in DOMAIN Tail(q), NEW j \in DOMAIN Tail(q), Tail(q)[i] = Tail(q)[j]
      PROVE  i = j
  <2>1. i + 1 \in DOMAIN q /\ j + 1 \in DOMAIN q /\ q[i + 1] = q[j + 1] /\ i \in Nat /\ j \in Nat
    BY <1>1, <1>7
  <2>2. i + 1 = j + 1
    BY <1>5, <2>1
  <2> QED
    BY <2>1, <2>2
<1>8. QueueOnce'
  <2> SUFFICES ASSUME NEW d \in Channels
      PROVE  /\ \A i \in DOMAIN queue'[d] :
                  queue'[d][i] \in accepted /\ SrcOf[queue'[d][i]] = d /\ queue'[d][i] # worker'[d].msg
             /\ \A i, j \in DOMAIN queue'[d] : queue'[d][i] = queue'[d][j] => i = j
             /\ worker'[d].pc = "idle" => worker'[d].msg = None
             /\ worker'[d].pc # "idle" => worker'[d].msg \in accepted /\ SrcOf[worker'[d].msg] = d
             /\ worker'[d].pc = "push" => worker'[d].to \in worker'[d].todo
    BY <1>0 DEF QueueOnce
  <2>1. CASE d = c
    <3>1. worker'[d] = x /\ queue'[d] = Tail(q)
      BY <1>4, <2>1
    <3> QED
      BY <1>2, <1>5, <1>6, <1>7, <2>1, <3>1
  <2>2. CASE d # c
    BY <1>4, <2>2 DEF QueueOnce
  <2> QED
    BY <2>1, <2>2
<1>9. ASSUME NEW m \in Msgs, NEW u \in Users PROVE Pends(m, u)' <=> Pends(m, u)
  <2>1. CASE SrcOf[m] # c
    <3>1. SrcOf[m] \in Channels
      BY ChatAssumption
    <3> QED
      BY <1>4, <2>1, <3>1 DEF Pends, Queued
  <2>2. CASE SrcOf[m] = c
    <3>1. Pends(m, u) <=> \E i \in DOMAIN q : q[i] = m
      BY <1>0, <2>2, ChatAssumption DEF Pends, Queued
    <3>2. Pends(m, u)' <=> m = q[1] \/ \E i \in DOMAIN Tail(q) : Tail(q)[i] = m
      BY <1>2, <1>4, <2>2, <1>5, <1>6 DEF Pends, Queued
    <3>3. (\E i \in DOMAIN Tail(q) : Tail(q)[i] = m) => \E i \in DOMAIN q : q[i] = m
      <4> SUFFICES ASSUME NEW i \in DOMAIN Tail(q), Tail(q)[i] = m PROVE \E j \in DOMAIN q : q[j] = m
        OBVIOUS
      <4>1. i + 1 \in DOMAIN q /\ q[i + 1] = m
        BY <1>1
      <4> QED
        BY <4>1
    <3>4. ASSUME NEW i \in DOMAIN q, q[i] = m, i # 1 PROVE \E j \in DOMAIN Tail(q) : Tail(q)[j] = m
      <4>1. i - 1 \in DOMAIN Tail(q) /\ Tail(q)[i - 1] = m
        <5>1. i - 1 \in 1 .. (Len(q) - 1) /\ (i - 1) + 1 = i
          BY <1>1, <3>4
        <5>2. Tail(q)[i - 1] = q[(i - 1) + 1]
          BY <1>1, <5>1
        <5> QED
          BY <1>1, <3>4, <5>1, <5>2
      <4> QED
        BY <4>1
    <3> QED
      BY <1>5, <3>1, <3>2, <3>3, <3>4
  <2> QED
    BY <2>1, <2>2
<1> QED
  BY <1>8, <1>9

(* A worker's move within one packet concerns that packet only. *)
LEMMA WorkerPends ==
  ASSUME ChatTypeInv, QueueOnce, NEW c \in Channels, NEW x,
         worker' = [worker EXCEPT ![c] = x], queue' = queue, worker[c].pc # "idle",
         x.msg \in {worker[c].msg, None}, NEW m \in Msgs, NEW u \in Users
  PROVE  /\ m # worker[c].msg => (Pends(m, u)' <=> Pends(m, u))
         /\ m = worker[c].msg =>
              (Pends(m, u)' <=> x.msg = m /\ (x.pc \in {"store", "members"} \/ u \in x.todo))
<1>1. worker'[c] = x /\ \A d \in Channels : d # c => worker'[d] = worker[d]
  BY DEF ChatTypeInv, ChatTypeOK
<1>2. SrcOf[m] \in Channels /\ m # None
  BY ChatAssumption
<1>3. m = worker[c].msg => SrcOf[m] = c /\ ~Queued(m)
  BY DEF QueueOnce, Queued
<1>4. Queued(m)' <=> Queued(m)
  BY DEF Queued
<1>5. CASE SrcOf[m] # c
  BY <1>1, <1>2, <1>3, <1>4, <1>5 DEF Pends
<1>6. CASE SrcOf[m] = c
  BY <1>1, <1>2, <1>3, <1>4, <1>6 DEF Pends
<1> QED
  BY <1>5, <1>6

\* The worker with the recipients S left: it is done with the others.
LEMMA WithOnce ==
  ASSUME ChatTypeInv, QueueOnce, NEW c \in Channels, NEW S \in SUBSET Users,
         worker' = [worker EXCEPT ![c] = WorkerWith(worker[c], S)],
         UNCHANGED <<queue, handler, accepted>>, worker[c].pc # "idle"
  PROVE  /\ QueueOnce'
         /\ \A m \in Msgs, u \in Users :
              Pends(m, u)' <=> IF m = worker[c].msg THEN u \in S ELSE Pends(m, u)
<1> DEFINE w == worker[c]
           x == WorkerWith(w, S)
<1>1. \/ S = {} /\ x.pc = "idle" /\ x.msg = None
      \/ x.pc = "check" /\ x.msg = w.msg /\ x.todo = S
  BY DEF WorkerWith, IdleWorker, Workers, ChatTypeInv, ChatTypeOK
<1>2. worker' = [worker EXCEPT ![c] = x]
  OBVIOUS
<1> HIDE DEF x
<1>3. QueueOnce'
  BY <1>1, <1>2, WorkerMoves
<1>4. ASSUME NEW m \in Msgs, NEW u \in Users
      PROVE  Pends(m, u)' <=> IF m = w.msg THEN u \in S ELSE Pends(m, u)
  <2>1. m # None
    BY ChatAssumption
  <2> QED
    BY <1>1, <1>2, <2>1, WorkerPends
<1> QED
  BY <1>3, <1>4

\* Writing the history and reading the members: the recipients are all to come.
LEMMA StoreOnce ==
  ASSUME ChatTypeInv, QueueOnce, NEW c \in Channels, StoreMsg(c)
  PROVE  /\ QueueOnce'
         /\ \A m \in Msgs, u \in Users : Pends(m, u)' => Pends(m, u)
         /\ \A m \in Msgs : \A u \in Recipients(m) : Pends(m, u)' <=> Pends(m, u)
<1> DEFINE w == worker[c]
           x == IF KindOf[w.msg] = "group" THEN [w EXCEPT !.pc = "members"]
                ELSE [w EXCEPT !.pc = "check", !.todo = {DestOf[w.msg]}]
<1>1. /\ worker' = [worker EXCEPT ![c] = x] /\ UNCHANGED <<queue, handler, accepted>>
      /\ w.pc = "store" /\ w \in Workers
  BY DEF StoreMsg, histVars, ChatTypeInv, ChatTypeOK
<1>2. /\ x.msg = w.msg
      /\ \/ x.pc = "members"
         \/ x.pc = "check" /\ x.todo = Recipients(w.msg)
  BY <1>1 DEF Workers, Recipients
<1> HIDE DEF x
<1>3. QueueOnce'
  BY <1>1, <1>2, WorkerMoves
<1>4. ASSUME NEW m \in Msgs, NEW u \in Users
      PROVE  /\ Pends(m, u)' => Pends(m, u)
             /\ u \in Recipients(m) => (Pends(m, u)' <=> Pends(m, u))
  <2>1. CASE m # w.msg
    BY <1>1, <1>2, <2>1, WorkerPends
  <2>2. CASE m = w.msg
    <3>1. Pends(m, u)
      BY <1>1, <2>2 DEF Pends, QueueOnce
    <3>2. Pends(m, u)' <=> x.msg = m /\ (x.pc \in {"store", "members"} \/ u \in x.todo)
      BY <1>1, <1>2, <2>2, WorkerPends
    <3>3. u \in Recipients(m) => Pends(m, u)'
      BY <1>2, <2>2, <3>2
    <3> QED
      BY <3>1, <3>3
  <2> QED
    BY <2>1, <2>2
<1> QED
  BY <1>3, <1>4, RecipientsAreUsers

LEMMA MembersOnce ==
  ASSUME ChatTypeInv, QueueOnce, NEW c \in Channels, ReadMembers(c)
  PROVE  /\ QueueOnce'
         /\ \A m \in Msgs, u \in Users : Pends(m, u)' => Pends(m, u)
         /\ RedisWorks => \A m \in Msgs : \A u \in Recipients(m) : Pends(m, u)' <=> Pends(m, u)
<1> DEFINE w == worker[c]
<1>1. /\ UNCHANGED <<queue, handler, accepted>> /\ w.pc = "members" /\ w.msg \in Msgs
      /\ KindOf[w.msg] = "group"
  BY DEF ReadMembers, histVars, ChatTypeInv, Shapes
<1>2. \A u \in Users : Pends(w.msg, u)
  BY <1>1 DEF Pends, QueueOnce
<1>3. CASE RedisWorks /\ worker' = [worker EXCEPT ![c] = WorkerWith(w, Members[DestOf[w.msg]])]
  <2>1. Recipients(w.msg) = Members[DestOf[w.msg]] /\ Recipients(w.msg) \in SUBSET Users
    BY <1>1, RecipientsAreUsers DEF Recipients
  <2>2. worker' = [worker EXCEPT ![c] = WorkerWith(w, Recipients(w.msg))]
    BY <1>3, <2>1
  <2>3. /\ QueueOnce'
        /\ \A m \in Msgs, u \in Users :
             Pends(m, u)' <=> IF m = w.msg THEN u \in Recipients(w.msg) ELSE Pends(m, u)
    BY <1>1, <2>1, <2>2, WithOnce
  <2> QED
    BY <1>2, <2>3, RecipientsAreUsers
<1>4. CASE RedisFails /\ worker' = [worker EXCEPT ![c] = IdleWorker]
  <2>1. IdleWorker.pc = "idle" /\ IdleWorker.msg = None /\ IdleWorker.todo = {}
    BY DEF IdleWorker
  <2>2. QueueOnce'
    BY <1>1, <1>4, <2>1, WorkerMoves
  <2>3. \A m \in Msgs, u \in Users : Pends(m, u)' => Pends(m, u)
    BY <1>1, <1>2, <1>4, <2>1, WorkerPends
  <2>4. ~RedisWorks
    BY <1>4, PresenceAssumption
    DEF RedisWorks, RedisFails, ChatTypeInv, ChatTypeOK, PresenceTypeOK
  <2> QED
    BY <2>2, <2>3, <2>4
<1> QED
  BY <1>3, <1>4 DEF ReadMembers

\* The look at the recipient u: online, it is settled; offline, it is to be pushed.
LEMMA CheckOnce ==
  ASSUME ChatTypeInv, QueueOnce, NEW c \in Channels, CheckRecipient(c)
  PROVE  /\ QueueOnce'
         /\ \E u \in worker[c].todo, v \in BOOLEAN :
              /\ Verdict(u, v)
              /\ v => worker'[c].pc # "push"
              /\ ~v => worker'[c].to = u
              /\ \A m \in Msgs, t \in Users :
                   Pends(m, t)' <=> Pends(m, t) /\ ~(v /\ m = worker[c].msg /\ t = u)
<1> DEFINE w == worker[c]
<1>1. PICK u \in w.todo, v \in BOOLEAN :
        /\ Verdict(u, v)
        /\ worker' = [worker EXCEPT ![c] =
             IF v THEN WorkerWith(w, w.todo \ {u}) ELSE [w EXCEPT !.pc = "push", !.to = u]]
  BY DEF CheckRecipient
<1>2. /\ UNCHANGED <<queue, handler, accepted>> /\ w.pc = "check" /\ w \in Workers
      /\ worker \in [Channels -> Workers] /\ w.msg \in accepted /\ SrcOf[w.msg] = c
  BY DEF CheckRecipient, histVars, ChatTypeInv, ChatTypeOK, QueueOnce
<1>3. w.todo \in SUBSET Users /\ w.todo \ {u} \in SUBSET Users
  BY <1>2 DEF Workers
<1>4. \A t \in Users : Pends(w.msg, t) <=> t \in w.todo
  BY <1>2 DEF Pends, Queued, QueueOnce
<1>5. CASE v
  <2>1. worker' = [worker EXCEPT ![c] = WorkerWith(w, w.todo \ {u})]
    BY <1>1, <1>5
  <2>2. worker'[c].pc # "push"
    BY <1>2, <2>1 DEF WorkerWith, IdleWorker, Workers
  <2>3. /\ QueueOnce'
        /\ \A m \in Msgs, t \in Users :
             Pends(m, t)' <=> IF m = w.msg THEN t \in w.todo \ {u} ELSE Pends(m, t)
    BY <1>2, <1>3, <2>1, WithOnce
  <2>4. \A m \in Msgs, t \in Users :
          Pends(m, t)' <=> Pends(m, t) /\ ~(v /\ m = w.msg /\ t = u)
    BY <1>4, <1>5, <2>3
  <2> QED
    BY <1>1, <1>5, <2>2, <2>3, <2>4
<1>6. CASE ~v
  <2> DEFINE x == [w EXCEPT !.pc = "push", !.to = u]
  <2>1. worker' = [worker EXCEPT ![c] = x]
    BY <1>1, <1>6
  <2>2. x.pc = "push" /\ x.to = u /\ x.msg = w.msg /\ x.todo = w.todo
    BY <1>2 DEF Workers
  <2> HIDE DEF x
  <2>3. QueueOnce' /\ worker'[c].to = u
    BY <1>2, <2>1, <2>2, WorkerMoves
  <2>4. \A m \in Msgs, t \in Users : Pends(m, t)' <=> Pends(m, t)
    BY <1>2, <1>4, <2>1, <2>2, WorkerPends
  <2> QED
    BY <1>1, <1>6, <2>3, <2>4
<1> QED
  BY <1>5, <1>6

LEMMA PushOnce ==
  ASSUME ChatTypeInv, QueueOnce, NEW c \in Channels, Push(c)
  PROVE  /\ QueueOnce'
         /\ Pends(worker[c].msg, worker[c].to)
         /\ \A m \in Msgs, t \in Users :
              Pends(m, t)' <=> Pends(m, t) /\ ~(m = worker[c].msg /\ t = worker[c].to)
<1> DEFINE w == worker[c]
<1>1. /\ UNCHANGED <<queue, handler, accepted>> /\ w.pc = "push" /\ w \in Workers
      /\ w.msg \in accepted /\ SrcOf[w.msg] = c /\ w.to \in w.todo
      /\ worker' = [worker EXCEPT ![c] = WorkerWith(w, w.todo \ {w.to})]
  BY DEF Push, ChatTypeInv, ChatTypeOK, QueueOnce
<1>2. w.todo \ {w.to} \in SUBSET Users
  BY <1>1 DEF Workers
<1>3. \A t \in Users : Pends(w.msg, t) <=> t \in w.todo
  BY <1>1 DEF Pends, Queued, QueueOnce
<1>4. /\ QueueOnce'
      /\ \A m \in Msgs, t \in Users :
           Pends(m, t)' <=> IF m = w.msg THEN t \in w.todo \ {w.to} ELSE Pends(m, t)
  BY <1>1, <1>2, WithOnce
<1>5. w.to \in Users
  BY <1>1 DEF Workers
<1> QED
  BY <1>1, <1>3, <1>4, <1>5

LEMMA BoxIsOnes ==
  ASSUME NEW m \in Msgs, NEW u \in Users, NEW n \in Msgs, NEW t \in Users
  PROVE  <<BoxOf(m, u), m>> = <<BoxOf(n, t), n>> => m = n /\ u = t
BY DEF BoxOf

LEMMA WorkerOnce ==
  ASSUME ChatTypeInv, OnceInv, NEW c \in Channels, WorkerStep(c)
  PROVE  OnceInv'
<1>0. QueueOnce /\ PushedOnce
  BY DEF OnceInv
<1>1. ASSUME QueueOnce', \A m \in Msgs, u \in Users : Pends(m, u)' => Pends(m, u),
             UNCHANGED <<pushed, accepted>>
      PROVE  OnceInv'
  BY <1>0, <1>1 DEF OnceInv, PushedOnce, BoxOf
<1>2. CASE Take(c)
  BY <1>0, <1>1, <1>2, TakeOnce DEF Take, histVars
<1>3. CASE StoreMsg(c)
  BY <1>0, <1>1, <1>3, StoreOnce DEF StoreMsg, histVars
<1>4. CASE ReadMembers(c)
  BY <1>0, <1>1, <1>4, MembersOnce DEF ReadMembers, histVars
<1>5. CASE CheckRecipient(c)
  <2>1. \A m \in Msgs, u \in Users : Pends(m, u)' => Pends(m, u)
    BY <1>0, <1>5, CheckOnce
  <2> QED
    BY <1>0, <1>1, <1>5, <2>1, CheckOnce DEF CheckRecipient, histVars
<1>6. CASE Push(c)
  <2> DEFINE w == worker[c]
             p == <<BoxOf(w.msg, w.to), w.msg>>
  <2>1. /\ UNCHANGED accepted /\ w.msg \in accepted /\ w.msg \in Msgs /\ w.to \in Users
        /\ pushed' = pushed \union {p} \/ pushed' = pushed
    BY <1>0, <1>6 DEF Push, QueueOnce, ChatTypeInv, Shapes
  <2>2. /\ QueueOnce'
        /\ \A m \in Msgs, u \in Users :
             Pends(m, u)' <=> Pends(m, u) /\ ~(m = w.msg /\ u = w.to)
    BY <1>0, <1>6, PushOnce
  <2>3. ASSUME NEW m \in Msgs, NEW u \in Users, Pends(m, u)'
        PROVE  <<BoxOf(m, u), m>>' \notin pushed'
    <3>1. <<BoxOf(m, u), m>> # p
      BY <2>1, <2>2, <2>3, BoxIsOnes
    <3>2. <<BoxOf(m, u), m>> \notin pushed /\ BoxOf(m, u)' = BoxOf(m, u)
      BY <1>0, <2>2, <2>3 DEF PushedOnce, BoxOf
    <3> HIDE DEF p
    <3> QED
      BY <2>1, <3>1, <3>2
  <2>4. \A q \in pushed' : q[2] \in accepted'
    BY <1>0, <2>1 DEF PushedOnce
  <2> QED
    BY <2>2, <2>3, <2>4 DEF OnceInv, PushedOnce
<1> QED
  BY <1>2, <1>3, <1>4, <1>5, <1>6 DEF WorkerStep

(* A packet that is queued is new, and the handler goes on with it. *)
LEMMA EnqueueOnce ==
  ASSUME ChatTypeInv, OnceInv, NEW c \in Channels, NEW m \in Msgs, ChatEnqueue(c, m)
  PROVE  /\ OnceInv'
         /\ handler'[c].msg = IF KindOf[m] = "unknown" THEN None ELSE m
         /\ \A d \in Channels : d # c => handler'[d] = handler[d]
         /\ \A n \in Msgs, u \in Users : Pends(n, u)' <=> Pends(n, u) \/ n = m
         /\ \A n \in Msgs : Queued(n)' <=> Queued(n) \/ n = m
<1> DEFINE q == queue[c]
           y == CASE KindOf[m] = "private" -> [IdleHandler EXCEPT !.pc = "check", !.msg = m]
                  [] KindOf[m] = "group" -> [IdleHandler EXCEPT !.pc = "send", !.msg = m]
                  [] OTHER -> IdleHandler
<1>0. QueueOnce /\ PushedOnce
  BY DEF OnceInv
<1>1. /\ queue \in [Channels -> Seq(Msgs)] /\ q \in Seq(Msgs)
      /\ handler \in [Channels -> Handlers]
      /\ SrcOf[m] = c /\ m \notin accepted /\ handler[c].pc = "idle"
      /\ queue' = [queue EXCEPT ![c] = Append(q, m)] /\ accepted' = accepted \union {m}
      /\ handler' = [handler EXCEPT ![c] = y] /\ UNCHANGED <<worker, pushed>>
  BY DEF ChatTypeInv, ChatTypeOK, ChatEnqueue
<1>2. /\ y.pc \in {"check", "send"} => y.msg = m
      /\ y.pc \notin {"check", "send"} => y.msg = None
      /\ y.pc = "check" => KindOf[m] = "private"
      /\ y.msg = IF KindOf[m] = "unknown" THEN None ELSE m
  <2>1. KindOf[m] \in {"private", "group", "unknown"}
    BY ChatAssumption
  <2> QED
    BY <2>1 DEF IdleHandler
<1> HIDE DEF y
<1>3. handler'[c] = y /\ \A d \in Channels : d # c => handler'[d] = handler[d]
  BY <1>1
<1>4. queue'[c] = Append(q, m) /\ \A d \in Channels : d # c => queue'[d] = queue[d]
  BY <1>1
<1>5. /\ DOMAIN Append(q, m) = 1 .. (Len(q) + 1) /\ DOMAIN q = 1 .. Len(q) /\ Len(q) \in Nat
      /\ \A i \in DOMAIN q : Append(q, m)[i] = q[i]
      /\ Append(q, m)[Len(q) + 1] = m
  BY <1>1, AppendAt
<1>6. \A i \in DOMAIN Append(q, m) : i \in DOMAIN q \/ i = Len(q) + 1
  BY <1>5
<1>7. \A i \in DOMAIN q : q[i] # m /\ q[i] \in accepted /\ SrcOf[q[i]] = c /\ q[i] # worker[c].msg
  BY <1>0, <1>1 DEF QueueOnce
<1>8. worker[c].msg # m
  <2>1. worker[c].msg \in accepted \/ worker[c].msg = None
    BY <1>0 DEF QueueOnce
  <2> QED
    BY <1>1, <2>1, ChatAssumption
<1>9. \A i, j \in DOMAIN Append(q, m) : Append(q, m)[i] = Append(q, m)[j] => i = j
  <2>1. \A i, j \in DOMAIN q : q[i] = q[j] => i = j
    BY <1>0 DEF QueueOnce
  <2> QED
    BY <1>5, <1>6, <1>7, <2>1
<1>10. \A i \in DOMAIN Append(q, m) :
         /\ Append(q, m)[i] \in accepted' /\ SrcOf[Append(q, m)[i]] = c
         /\ Append(q, m)[i] # worker'[c].msg
  BY <1>1, <1>5, <1>6, <1>7, <1>8
<1>11. QueueOnce'
  <2> SUFFICES ASSUME NEW d \in Channels
      PROVE  /\ \A i \in DOMAIN queue'[d] :
                  queue'[d][i] \in accepted' /\ SrcOf[queue'[d][i]] = d /\ queue'[d][i] # worker'[d].msg
             /\ \A i, j \in DOMAIN queue'[d] : queue'[d][i] = queue'[d][j] => i = j
             /\ worker'[d].pc = "idle" => worker'[d].msg = None
             /\ worker'[d].pc # "idle" => worker'[d].msg \in accepted' /\ SrcOf[worker'[d].msg] = d
             /\ worker'[d].pc = "push" => worker'[d].to \in worker'[d].todo
             /\ handler'[d].pc \in {"check", "send"} =>
                  handler'[d].msg \in accepted' /\ SrcOf[handler'[d].msg] = d
             /\ handler'[d].pc \notin {"check", "send"} => handler'[d].msg = None
             /\ handler'[d].pc = "check" => KindOf[handler'[d].msg] = "private"
    BY DEF QueueOnce
  <2>1. /\ worker'[d].pc = "idle" => worker'[d].msg = None
        /\ worker'[d].pc # "idle" => worker'[d].msg \in accepted' /\ SrcOf[worker'[d].msg] = d
        /\ worker'[d].pc = "push" => worker'[d].to \in worker'[d].todo
    BY <1>0, <1>1 DEF QueueOnce
  <2>2. CASE d = c
    <3>1. handler'[d] = y /\ queue'[d] = Append(q, m)
      BY <1>3, <1>4, <2>2
    <3> QED
      BY <1>1, <1>2, <1>9, <1>10, <2>1, <2>2, <3>1
  <2>3. CASE d # c
    <3>1. handler'[d] = handler[d] /\ queue'[d] = queue[d] /\ worker'[d] = worker[d]
      BY <1>1, <1>3, <1>4, <2>3
    <3> QED
      BY <1>0, <1>1, <2>1, <3>1 DEF QueueOnce
  <2> QED
    BY <2>2, <2>3
<1>12. ASSUME NEW n \in Msgs PROVE Queued(n)' <=> Queued(n) \/ n = m
  <2>1. SrcOf[n] \in Channels
    BY ChatAssumption
  <2>2. CASE SrcOf[n] # c
    BY <1>1, <1>4, <2>1, <2>2 DEF Queued
  <2>3. CASE SrcOf[n] = c
    <3>1. Queued(n) <=> \E i \in DOMAIN q : q[i] = n
      BY <2>3 DEF Queued
    <3>2. Queued(n)' <=> \E i \in DOMAIN Append(q, m) : Append(q, m)[i] = n
      BY <1>4, <2>3 DEF Queued
    <3>3. Len(q) + 1 \in DOMAIN Append(q, m) /\ \A i \in DOMAIN q : i \in DOMAIN Append(q, m)
      BY <1>5
    <3> QED
      BY <1>5, <1>6, <3>1, <3>2, <3>3
  <2> QED
    BY <2>2, <2>3
<1>13. \A n \in Msgs, u \in Users : Pends(n, u)' <=> Pends(n, u) \/ n = m
  BY <1>1, <1>12 DEF Pends
<1>14. PushedOnce'
  BY <1>0, <1>1, <1>13 DEF PushedOnce, BoxOf
<1> QED
  BY <1>2, <1>3, <1>11, <1>12, <1>13, <1>14 DEF OnceInv

\* Any other step of a handler keeps its packet or is done with it.
LEMMA HandlerOnce ==
  ASSUME ChatTypeInv, OnceInv, NEW c \in Channels, NEW x, handler' = [handler EXCEPT ![c] = x],
         UNCHANGED <<queue, worker, accepted, pushed>>,
         \/ x.pc \notin {"check", "send"} /\ x.msg = None
         \/ handler[c].pc \in {"check", "send"} /\ x.pc = "send" /\ x.msg = handler[c].msg
  PROVE  OnceInv'
<1>0. QueueOnce /\ PushedOnce
  BY DEF OnceInv
<1>1. handler'[c] = x /\ \A d \in Channels : d # c => handler'[d] = handler[d]
  BY DEF ChatTypeInv, ChatTypeOK
<1>2. ASSUME NEW d \in Channels
      PROVE  /\ handler'[d].pc \in {"check", "send"} =>
                  handler'[d].msg \in accepted /\ SrcOf[handler'[d].msg] = d
             /\ handler'[d].pc \notin {"check", "send"} => handler'[d].msg = None
             /\ handler'[d].pc = "check" => KindOf[handler'[d].msg] = "private"
  <2>1. CASE d = c
    BY <1>0, <1>1, <2>1 DEF QueueOnce
  <2>2. CASE d # c
    BY <1>0, <1>1, <2>2 DEF QueueOnce
  <2> QED
    BY <2>1, <2>2
<1>3. QueueOnce'
  BY <1>0, <1>2 DEF QueueOnce
<1>4. PushedOnce'
  BY <1>0 DEF PushedOnce, Pends, Queued, BoxOf
<1> QED
  BY <1>3, <1>4 DEF OnceInv

MailStep(c) ==
  \/ ReadBox(c) \/ DelBox(c) \/ ReadGroups(c) \/ FetchReply(c) \/ FetchAll(c)
  \/ \E f \in Users : FetchFriend(c, f)
  \/ \E g \in Groups : FetchGroup(c, g)

\* A request for mail has no chat packet in hand, before its steps or after.
LEMMA MailOnce ==
  ASSUME ChatTypeInv, OnceInv, NEW c \in Channels, MailStep(c)
  PROVE  /\ OnceInv'
         /\ \A d \in Channels : handler'[d].msg = handler[d].msg
         /\ UNCHANGED <<netVars, queue, worker, accepted, pushed, live, moved>>
<1> DEFINE h == handler[c]
<1>0. h \in Handlers /\ handler \in [Channels -> Handlers]
  BY DEF ChatTypeInv, ChatTypeOK
<1>1. UNCHANGED <<netVars, queue, worker, accepted, pushed, live, moved>>
  BY DEF MailStep, ReadBox, DelBox, ReadGroups, FetchReply, FetchAll, FetchFriend, FetchGroup,
     Fetch, presenceVars, clientVars, histVars
<1>2. h.pc \notin {"check", "send"}
  BY DEF MailStep, ReadBox, DelBox, ReadGroups, FetchReply, FetchAll, FetchFriend, FetchGroup,
     Fetch
<1>3. h.msg = None
  BY <1>2 DEF OnceInv, QueueOnce
<1>4. ASSUME NEW x, handler' = [handler EXCEPT ![c] = x], x.msg = None,
             x.pc \notin {"check", "send"}
      PROVE  OnceInv' /\ \A d \in Channels : handler'[d].msg = handler[d].msg
  <2>1. OnceInv'
    BY <1>1, <1>4, HandlerOnce
  <2>2. \A d \in Channels : handler'[d].msg = handler[d].msg
    BY <1>0, <1>3, <1>4
  <2> QED
    BY <2>1, <2>2
<1>5. ASSUME NEW ks, NEW friend, handler' = [handler EXCEPT ![c] = NextBox(h, ks, friend)]
      PROVE  OnceInv' /\ \A d \in Channels : handler'[d].msg = handler[d].msg
  <2> DEFINE x == NextBox(h, ks, friend)
  <2>1. x.msg = None /\ x.pc \notin {"check", "send"} /\ handler' = [handler EXCEPT ![c] = x]
    BY <1>0, <1>3, <1>5 DEF NextBox, Handlers
  <2> HIDE DEF x
  <2> QED
    BY <1>4, <2>1
<1>6. ASSUME NEW k, NEW ok, NEW p, handler' = [handler EXCEPT ![c] = Removing(h, k, ok, p)]
      PROVE  OnceInv' /\ \A d \in Channels : handler'[d].msg = handler[d].msg
  <2> DEFINE x == Removing(h, k, ok, p)
  <2>1. x.msg = None /\ x.pc \notin {"check", "send"} /\ handler' = [handler EXCEPT ![c] = x]
    BY <1>0, <1>3, <1>6 DEF Removing, Handlers
  <2> HIDE DEF x
  <2> QED
    BY <1>4, <2>1
<1>7. ASSUME handler' = [handler EXCEPT ![c] = IdleHandler]
      PROVE  OnceInv' /\ \A d \in Channels : handler'[d].msg = handler[d].msg
  <2>1. IdleHandler.msg = None /\ IdleHandler.pc = "idle"
    BY DEF IdleHandler
  <2> QED
    BY <1>4, <1>7, <2>1
<1>8. ASSUME NEW mode, NEW keys, NEW pc \in {"idle", "read", "groups"}, Fetch(c, mode, keys, pc)
      PROVE  OnceInv' /\ \A d \in Channels : handler'[d].msg = handler[d].msg
  <2> DEFINE x == [IdleHandler EXCEPT !.pc = pc, !.mode = mode, !.keys = keys]
  <2>1. x.msg = None /\ x.pc \notin {"check", "send"} /\ handler' = [handler EXCEPT ![c] = x]
    BY <1>8 DEF Fetch, IdleHandler
  <2> HIDE DEF x
  <2> QED
    BY <1>4, <2>1
<1>9. OnceInv' /\ \A d \in Channels : handler'[d].msg = handler[d].msg
  <2>1. CASE ReadBox(c)
    <3>1. PICK k \in h.keys :
            \/ handler' = [handler EXCEPT ![c] = Removing(h, k, TRUE, {k} \X (mailbox[k] \ AtZero))]
            \/ handler' = [handler EXCEPT ![c] = Removing(h, k, FALSE, {})]
            \/ handler' = [handler EXCEPT ![c] = NextBox(h, h.keys \ {k}, FALSE)]
      BY <2>1 DEF ReadBox
    <3> DEFINE none == {}
               box == {k} \X (mailbox[k] \ AtZero)
               left == h.keys \ {k}
    <3>2. CASE handler' = [handler EXCEPT ![c] = Removing(h, k, TRUE, box)]
      <4> HIDE DEF box
      <4> QED
        BY <1>6, <3>2
    <3>3. CASE handler' = [handler EXCEPT ![c] = Removing(h, k, FALSE, none)]
      <4> HIDE DEF none
      <4> QED
        BY <1>6, <3>3
    <3>4. CASE handler' = [handler EXCEPT ![c] = NextBox(h, left, FALSE)]
      <4> HIDE DEF left
      <4> QED
        BY <1>5, <3>4
    <3> QED
      BY <3>1, <3>2, <3>3, <3>4
  <2>2. CASE DelBox(c)
    <3>1. PICK k \in h.cur :
            \/ handler' = [handler EXCEPT ![c] = NextBox(h, h.keys \ {k}, k[2] \in Users)]
            \/ handler' = [handler EXCEPT ![c] = IdleHandler]
      BY <2>2 DEF DelBox
    <3> QED
      BY <1>5, <1>7, <3>1
  <2>3. CASE ReadGroups(c)
    <3> DEFINE boxes == {<<UserOf[c], g>> : g \in {i \in Groups : UserOf[c] \in Members[i]}}
               none == {}
    <3>1. \/ handler' = [handler EXCEPT ![c] = NextBox(h, boxes, FALSE)]
          \/ handler' = [handler EXCEPT ![c] = NextBox(h, none, FALSE)]
      BY <2>3 DEF ReadGroups
    <3> HIDE DEF boxes, none
    <3> QED
      BY <1>5, <3>1
  <2>4. CASE FetchReply(c)
    BY <1>7, <2>4 DEF FetchReply
  <2>5. CASE FetchAll(c)
    <3> DEFINE none == {}
               boxes == BoxesLike(UserOf[c])
    <3>1. \/ Fetch(c, "all", boxes, "groups")
          \/ Fetch(c, "all", boxes, "read")
          \/ Fetch(c, "none", none, "idle")
      BY <2>5 DEF FetchAll
    <3> HIDE DEF boxes, none
    <3> QED
      BY <1>8, <3>1
  <2>6. CASE \E f \in Users : FetchFriend(c, f)
    BY <1>8, <2>6 DEF FetchFriend
  <2>7. CASE \E g \in Groups : FetchGroup(c, g)
    BY <1>8, <2>7 DEF FetchGroup
  <2> QED
    BY <2>1, <2>2, <2>3, <2>4, <2>5, <2>6, <2>7 DEF MailStep
<1> QED
  BY <1>1, <1>9

\* The two steps of ChatReqHandler after the packet is queued.
LEMMA AnswerOnce ==
  ASSUME ChatTypeInv, OnceInv, NEW c \in Channels, ChatCheck(c) \/ ChatSend(c)
  PROVE  /\ OnceInv'
         /\ \A d \in Channels : d # c => handler'[d] = handler[d]
         /\ ChatSend(c) => handler'[c].msg = None
         /\ handler[c].msg \in accepted /\ SrcOf[handler[c].msg] = c
<1> DEFINE h == handler[c]
<1>0. /\ UNCHANGED <<queue, worker, accepted, pushed>> /\ h.pc \in {"check", "send"}
      /\ h \in Handlers /\ handler \in [Channels -> Handlers]
  BY DEF ChatCheck, ChatSend, histVars, ChatTypeInv, ChatTypeOK
<1>1. h.msg \in accepted /\ SrcOf[h.msg] = c
  BY <1>0 DEF OnceInv, QueueOnce
<1>2. CASE handler' = [handler EXCEPT ![c] = IdleHandler]
  <2>1. IdleHandler.msg = None /\ IdleHandler.pc = "idle"
    BY DEF IdleHandler
  <2>2. OnceInv'
    BY <1>0, <1>2, <2>1, HandlerOnce
  <2> QED
    BY <1>0, <1>1, <1>2, <2>1, <2>2
<1>3. CASE ChatCheck(c) /\ handler' = [handler EXCEPT ![c] = [h EXCEPT !.pc = "send"]]
  <2> DEFINE x == [h EXCEPT !.pc = "send"]
  <2>1. x.msg = h.msg /\ x.pc = "send" /\ handler' = [handler EXCEPT ![c] = x]
    BY <1>0, <1>3 DEF Handlers
  <2> HIDE DEF x
  <2>2. OnceInv' /\ \A d \in Channels : d # c => handler'[d] = handler[d]
    BY <1>0, <2>1, HandlerOnce
  <2>3. ~ChatSend(c)
    BY <1>3 DEF ChatCheck, ChatSend
  <2> QED
    BY <1>1, <2>2, <2>3
<1>4. ChatCheck(c) => \/ handler' = [handler EXCEPT ![c] = IdleHandler]
                      \/ handler' = [handler EXCEPT ![c] = [h EXCEPT !.pc = "send"]]
  BY DEF ChatCheck
<1> QED
  BY <1>2, <1>3, <1>4 DEF ChatSend

LEMMA OncePreserved == ChatTypeInv /\ OnceInv /\ [Next]_vars => OnceInv'
<1> SUFFICES ASSUME ChatTypeInv, OnceInv, [Next]_vars PROVE OnceInv'
  OBVIOUS
<1>1. ASSUME UNCHANGED <<queue, worker, handler, accepted, pushed>> PROVE OnceInv'
  BY <1>1 DEF OnceInv, QueueOnce, PushedOnce, Pends, Queued, BoxOf
<1>2. CASE UNCHANGED vars
  BY <1>1, <1>2 DEF vars, chatVars, histVars
<1>3. ASSUME NEW c \in Channels, Move(c) PROVE OnceInv'
  BY <1>1, <1>3 DEF Move
<1>4. CASE ServerCrash
  <2>1. /\ queue' = [c \in Channels |-> <<>>] /\ worker' = [c \in Channels |-> IdleWorker]
        /\ handler' = [c \in Channels |-> IdleHandler] /\ UNCHANGED <<accepted, pushed>>
    BY <1>4 DEF ServerCrash
  <2>2. QueueOnce'
    BY <2>1 DEF QueueOnce, IdleWorker, IdleHandler
  <2>3. \A m \in Msgs, u \in Users : ~Pends(m, u)'
    BY <2>1, ChatAssumption DEF Pends, Queued, IdleWorker
  <2> QED
    BY <2>1, <2>2, <2>3 DEF OnceInv, PushedOnce
<1>5. ASSUME NEW c \in Channels,
             \/ HandlerStep(c) \/ WorkerStep(c) \/ FetchAll(c)
             \/ \E m \in Msgs : ChatEnqueue(c, m)
             \/ \E f \in Users : FetchFriend(c, f)
             \/ \E g \in Groups : FetchGroup(c, g)
      PROVE  OnceInv'
  <2>1. \/ ChatCheck(c) \/ ChatSend(c)
        \/ WorkerStep(c)
        \/ MailStep(c)
        \/ \E m \in Msgs : ChatEnqueue(c, m)
    BY <1>5 DEF HandlerStep, MailStep
  <2>2. CASE ChatCheck(c) \/ ChatSend(c)
    BY <2>2, AnswerOnce
  <2>3. CASE WorkerStep(c)
    BY <2>3, WorkerOnce
  <2>4. CASE MailStep(c)
    BY <2>4, MailOnce
  <2>5. CASE \E m \in Msgs : ChatEnqueue(c, m)
    BY <2>5, EnqueueOnce
  <2> QED
    BY <2>1, <2>2, <2>3, <2>4, <2>5
<1> QED
  BY <1>2, <1>3, <1>4, <1>5 DEF Next
-----------------------------------------------------------------------------
LEMMA HandedInitial == Init => HandedInv
BY DEF Init, HandedInv, CameByPush, OneAtATime, HeldOnce, IdleHandler

\* A handler that reads nothing new, and holds nothing that is still in its mailbox.
LEMMA HandedFrame ==
  ASSUME ChatTypeInv, HandedInv, NEW c \in Channels, NEW x, handler' = [handler EXCEPT ![c] = x],
         x.buf \subseteq handler[c].buf, \A j, k \in x.cur : j = k,
         \A k \in Keys : mailbox'[k] \subseteq mailbox[k],
         UNCHANGED <<pushed, got, twice, shared>>, errs' = 0 => errs = 0,
         errs' = 0 => \A p \in x.buf : p \in shared \/ p[2] \notin mailbox'[p[1]]
  PROVE  HandedInv'
<1>1. handler'[c] = x /\ \A d \in Channels : d # c => handler'[d] = handler[d]
  BY DEF ChatTypeInv, ChatTypeOK
<1>2. \A d \in Channels : handler'[d].buf \subseteq handler[d].buf
  BY <1>1
<1>3. CameByPush'
  BY <1>2 DEF HandedInv, CameByPush
<1>4. OneAtATime'
  BY <1>1 DEF HandedInv, OneAtATime
<1>5. ASSUME errs' = 0, NEW p \in (Keys \X Msgs) \ shared PROVE HeldOnce(p)'
  <2>1. HeldOnce(p) /\ p[1] \in Keys
    BY <1>5 DEF HandedInv
  <2>2. p[2] \in mailbox'[p[1]] => p[2] \in mailbox[p[1]]
    BY <2>1
  <2>3. ASSUME p[2] \in mailbox'[p[1]], NEW d \in Channels, p \in handler'[d].buf
        PROVE  handler'[d].pc = "del" /\ p[1] \in handler'[d].cur
    <3>1. d # c
      BY <1>1, <1>5, <2>3
    <3> QED
      BY <1>1, <2>1, <2>2, <2>3, <3>1 DEF HeldOnce
  <2> QED
    BY <1>2, <2>1, <2>2, <2>3 DEF HeldOnce
<1> QED
  BY <1>3, <1>4, <1>5 DEF HandedInv

\* Away from a removal a handler holds nothing that is still in its mailbox.
LEMMA HeldElsewhere ==
  ASSUME ChatTypeInv, HandedInv, errs = 0, NEW c \in Channels, handler[c].pc # "del",
         NEW p \in handler[c].buf
  PROVE  p \in shared \/ p[2] \notin mailbox[p[1]]
<1>1. p \in Keys \X Msgs
  BY DEF ChatTypeInv, ChatTypeOK, Handlers
<1> QED
  BY <1>1 DEF HandedInv, HeldOnce

\* What is pushed was not pushed before: nobody holds it.
LEMMA PushHanded ==
  ASSUME ChatTypeInv, OnceInv, HandedInv, errs' = 0 => errs = 0, NEW c \in Channels, Push(c)
  PROVE  HandedInv'
<1> DEFINE w == worker[c]
           k == BoxOf(w.msg, w.to)
<1>1. w.msg \in Msgs /\ w.to \in Users /\ UNCHANGED <<handler, got, twice, shared>>
  BY DEF Push, ChatTypeInv, Shapes, clientVars
<1>2. k \in Keys /\ <<k, w.msg>> \notin pushed
  BY <1>1, BoxIsKey, PushOnce DEF OnceInv, PushedOnce
<1>3. \/ /\ mailbox' = [mailbox EXCEPT ![k] = @ \union {w.msg}]
         /\ pushed' = pushed \union {<<k, w.msg>>}
      \/ UNCHANGED <<mailbox, pushed>>
  BY DEF Push
<1> HIDE DEF k
<1>4. \A j \in Keys : \A m \in mailbox'[j] :
        m \in mailbox[j] \/ (j = k /\ m = w.msg /\ <<j, m>> \in pushed')
  BY <1>2, <1>3 DEF ChatTypeInv, ChatTypeOK
<1>5. CameByPush /\ OneAtATime /\ pushed \subseteq pushed'
  BY <1>3 DEF HandedInv
<1>6. CameByPush'
  BY <1>1, <1>4, <1>5 DEF CameByPush
<1>7. OneAtATime'
  BY <1>1, <1>5 DEF OneAtATime
<1>8. ASSUME errs' = 0, NEW p \in (Keys \X Msgs) \ shared PROVE HeldOnce(p)'
  <2>1. HeldOnce(p) /\ p[1] \in Keys /\ p = <<p[1], p[2]>>
    BY <1>8 DEF HandedInv
  <2>2. CASE p[2] \in mailbox'[p[1]] => p[2] \in mailbox[p[1]]
    BY <1>1, <2>1, <2>2 DEF HeldOnce
  <2>3. CASE p = <<k, w.msg>>
    <3>1. /\ \A u \in Users : <<u, p[1], p[2]>> \notin got
          /\ \A d \in Channels : p \notin handler[d].buf
      BY <1>2, <1>5, <2>3 DEF CameByPush
    <3> QED
      BY <1>1, <2>1, <3>1 DEF HeldOnce
  <2> QED
    BY <1>4, <2>1, <2>2, <2>3
<1> QED
  BY <1>1, <1>6, <1>7, <1>8 DEF HandedInv

\* What is read is still in the mailbox, and if another had read it it is `shared'.
LEMMA ReadHanded ==
  ASSUME ChatTypeInv, HandedInv, errs' = 0 => errs = 0, NEW c \in Channels, ReadBox(c)
  PROVE  HandedInv'
<1> DEFINE h == handler[c]
           box(k) == {k} \X (mailbox[k] \ AtZero)
<1>1. PICK k \in h.keys :
        \/ /\ handler' = [handler EXCEPT ![c] = Removing(h, k, TRUE, box(k))]
           /\ shared' = shared \union {p \in box(k) : \E d \in Channels : p \in handler[d].buf}
        \/ handler' = [handler EXCEPT ![c] = Removing(h, k, FALSE, {})] /\ UNCHANGED shared
           /\ RedisFails
        \/ handler' = [handler EXCEPT ![c] = NextBox(h, h.keys \ {k}, FALSE)] /\ UNCHANGED shared
  BY DEF ReadBox
<1>2. UNCHANGED <<mailbox, pushed, got, twice>> /\ h.pc = "read"
  BY DEF ReadBox, clientVars
<1>3. h \in Handlers /\ k \in Keys /\ errs \in Nat
  BY <1>1, PresenceAssumption DEF ChatTypeInv, ChatTypeOK, PresenceTypeOK, Handlers
<1>4. CASE handler' = [handler EXCEPT ![c] = NextBox(h, h.keys \ {k}, FALSE)] /\ UNCHANGED shared
  <2> DEFINE x == NextBox(h, h.keys \ {k}, FALSE)
  <2>1. x.buf = h.buf /\ x.cur = {} /\ handler' = [handler EXCEPT ![c] = x] /\ UNCHANGED shared
    BY <1>3, <1>4 DEF NextBox, Handlers
  <2> HIDE DEF x
  <2>2. errs' = 0 => \A p \in x.buf : p \in shared \/ p[2] \notin mailbox'[p[1]]
    BY <1>2, <2>1, HeldElsewhere
  <2> QED
    BY <1>2, <2>1, <2>2, HandedFrame
<1>5. CASE /\ handler' = [handler EXCEPT ![c] = Removing(h, k, FALSE, {})]
           /\ UNCHANGED shared /\ RedisFails
  <2> DEFINE x == Removing(h, k, FALSE, {})
  <2>1. x.buf = h.buf /\ x.cur = {k} /\ handler' = [handler EXCEPT ![c] = x] /\ UNCHANGED shared
    BY <1>3, <1>5 DEF Removing, Handlers
  <2> HIDE DEF x
  <2>2. errs' # 0
    BY <1>3, <1>5 DEF RedisFails
  <2> QED
    BY <1>2, <2>1, <2>2, HandedFrame
<1>6. CASE /\ handler' = [handler EXCEPT ![c] = Removing(h, k, TRUE, box(k))]
           /\ shared' = shared \union {p \in box(k) : \E d \in Channels : p \in handler[d].buf}
  <2> DEFINE x == Removing(h, k, TRUE, box(k))
  <2>1. /\ x.pc = "del" /\ x.buf = h.buf \union box(k) /\ x.cur = {k}
        /\ handler' = [handler EXCEPT ![c] = x]
    BY <1>3, <1>6 DEF Removing, Handlers
  <2> HIDE DEF x
  <2>2. handler'[c] = x /\ \A d \in Channels : d # c => handler'[d] = handler[d]
    BY <2>1 DEF ChatTypeInv, ChatTypeOK
  <2>3. \A p \in box(k) : p[1] = k /\ p[2] \in mailbox[k] /\ p \in pushed
    BY <1>3 DEF HandedInv, CameByPush
  <2>4. CameByPush'
    <3>1. \A d \in Channels : handler'[d].buf \subseteq pushed
      BY <2>1, <2>2, <2>3 DEF HandedInv, CameByPush
    <3> QED
      BY <1>2, <3>1 DEF HandedInv, CameByPush
  <2>5. OneAtATime'
    BY <2>1, <2>2 DEF HandedInv, OneAtATime
  <2>6. ASSUME errs' = 0, NEW p \in (Keys \X Msgs) \ shared' PROVE HeldOnce(p)'
    <3>1. p \notin shared /\ (p \in box(k) => \A d \in Channels : p \notin handler[d].buf)
      BY <1>6, <2>6
    <3>2. HeldOnce(p)
      BY <2>6, <3>1 DEF HandedInv
    <3>3. CASE p \in box(k)
      <4>1. p[1] = k /\ p[2] \in mailbox[p[1]]
        BY <2>3, <3>3
      <4>2. \A d \in Channels : p \in handler'[d].buf => d = c
        BY <2>2, <3>1, <3>3
      <4>3. handler'[c].pc = "del" /\ p[1] \in handler'[c].cur
        BY <2>1, <2>2, <4>1
      <4> QED
        BY <1>2, <3>2, <4>1, <4>2, <4>3 DEF HeldOnce
    <3>4. CASE p \notin box(k)
      <4>1. \A d \in Channels : p \in handler'[d].buf <=> p \in handler[d].buf
        BY <2>1, <2>2, <3>4
      <4>2. p[2] \in mailbox[p[1]] => p \notin handler[c].buf
        BY <1>2, <3>2 DEF HeldOnce
      <4> QED
        BY <1>2, <2>2, <3>2, <4>1, <4>2 DEF HeldOnce
    <3> QED
      BY <3>3, <3>4
  <2> QED
    BY <2>4, <2>5, <2>6 DEF HandedInv
<1> QED
  BY <1>1, <1>4, <1>5, <1>6

\* Removing a mailbox ends the claim of whoever read it.
LEMMA DelHanded ==
  ASSUME ChatTypeInv, HandedInv, errs' = 0 => errs = 0, NEW c \in Channels, DelBox(c)
  PROVE  HandedInv'
<1> DEFINE h == handler[c]
<1>1. PICK k \in h.cur :
        /\ \/ mailbox' = [mailbox EXCEPT ![k] = {}]
           \/ RedisFails /\ UNCHANGED mailbox
        /\ \/ handler' = [handler EXCEPT ![c] = NextBox(h, h.keys \ {k}, k[2] \in Users)]
           \/ handler' = [handler EXCEPT ![c] = IdleHandler]
  BY DEF DelBox
<1>2. UNCHANGED <<pushed, got, twice, shared>>
  BY DEF DelBox, clientVars
<1>3. h \in Handlers /\ k \in Keys /\ errs \in Nat /\ mailbox \in [Keys -> SUBSET Msgs]
  BY <1>1, PresenceAssumption DEF ChatTypeInv, ChatTypeOK, PresenceTypeOK, Handlers
<1>4. PICK x : handler' = [handler EXCEPT ![c] = x] /\ x.buf \subseteq h.buf /\ x.cur = {}
  <2> DEFINE y == NextBox(h, h.keys \ {k}, k[2] \in Users)
  <2>1. y.buf = h.buf /\ y.cur = {}
    BY <1>3 DEF NextBox, Handlers
  <2>2. IdleHandler.buf = {} /\ IdleHandler.cur = {}
    BY DEF IdleHandler
  <2>3. handler' = [handler EXCEPT ![c] = y] \/ handler' = [handler EXCEPT ![c] = IdleHandler]
    BY <1>1
  <2> HIDE DEF y
  <2>4. CASE handler' = [handler EXCEPT ![c] = y]
    <3> WITNESS y
    <3> QED
      BY <2>1, <2>4
  <2>5. CASE handler' = [handler EXCEPT ![c] = IdleHandler]
    <3> WITNESS IdleHandler
    <3> QED
      BY <2>2, <2>5
  <2> QED
    BY <2>3, <2>4, <2>5
<1>5. \A j \in Keys : mailbox'[j] \subseteq mailbox[j]
  BY <1>1, <1>3
<1>6. ASSUME errs' = 0, NEW p \in x.buf, p \notin shared PROVE p[2] \notin mailbox'[p[1]]
  <2>1. p \in Keys \X Msgs /\ p \in h.buf /\ p[1] \in Keys
    BY <1>3, <1>4, <1>6 DEF Handlers
  <2>2. mailbox'[k] = {}
    BY <1>1, <1>3, <1>6 DEF RedisFails
  <2>3. p[2] \in mailbox[p[1]] => p[1] \in h.cur
    BY <1>6, <2>1 DEF HandedInv, HeldOnce
  <2>4. p[2] \in mailbox[p[1]] => p[1] = k
    BY <1>1, <2>3 DEF HandedInv, OneAtATime
  <2> QED
    BY <1>5, <2>1, <2>2, <2>4
<1> QED
  BY <1>2, <1>4, <1>5, <1>6, HandedFrame

\* The one who has a message hands it out, once.
LEMMA ReplyHanded ==
  ASSUME ChatTypeInv, HandedInv, errs' = 0 => errs = 0, NEW c \in Channels, FetchReply(c)
  PROVE  HandedInv'
<1> DEFINE h == handler[c]
           new == {<<UserOf[c], p[1], p[2]>> : p \in h.buf}
<1>1. /\ UNCHANGED <<mailbox, pushed, shared>> /\ handler' = [handler EXCEPT ![c] = IdleHandler]
      /\ h.pc = "reply"
      /\ \/ got' = got \union new /\ twice' = twice \union (got \intersect new)
         \/ UNCHANGED <<got, twice>>
  BY DEF FetchReply
<1>2. /\ handler'[c].buf = {} /\ handler'[c].cur = {}
      /\ \A d \in Channels : d # c => handler'[d] = handler[d]
  BY <1>1 DEF ChatTypeInv, ChatTypeOK, IdleHandler
<1>3. h.buf \subseteq Keys \X Msgs
  BY DEF ChatTypeInv, ChatTypeOK, Handlers
<1>4. \A r \in new : <<r[2], r[3]>> \in h.buf
  <2> SUFFICES ASSUME NEW p \in h.buf PROVE <<p[1], p[2]>> \in h.buf
    OBVIOUS
  <2> QED
    BY <1>3
<1>5. \A u, p : <<u, p[1], p[2]>> \in new /\ p \in Keys \X Msgs => p \in h.buf
  BY <1>3
<1> HIDE DEF new
<1>6. CameByPush'
  <2>1. \A d \in Channels : handler'[d].buf \subseteq handler[d].buf
    BY <1>2
  <2> QED
    BY <1>1, <1>4, <2>1 DEF HandedInv, CameByPush
<1>7. OneAtATime'
  BY <1>2 DEF HandedInv, OneAtATime
<1>8. ASSUME errs' = 0, NEW p \in (Keys \X Msgs) \ shared PROVE HeldOnce(p)'
  <2>1. HeldOnce(p)
    BY <1>8 DEF HandedInv
  <2>2. CASE p \in h.buf
    <3>1. p[2] \notin mailbox[p[1]] /\ \A d \in Channels : p \notin handler'[d].buf
      BY <1>1, <1>2, <2>1, <2>2 DEF HeldOnce
    <3>2. \A u \in Users : <<u, p[1], p[2]>> \notin got /\ <<u, p[1], p[2]>> \notin twice
      BY <2>1, <2>2 DEF HeldOnce
    <3> QED
      BY <1>1, <3>1, <3>2 DEF HeldOnce
  <2>3. CASE p \notin h.buf
    <3>1. \A u \in Users : /\ <<u, p[1], p[2]>> \in got' <=> <<u, p[1], p[2]>> \in got
                           /\ <<u, p[1], p[2]>> \in twice' <=> <<u, p[1], p[2]>> \in twice
      BY <1>1, <1>5, <1>8, <2>3
    <3> QED
      BY <1>1, <1>2, <2>1, <2>3, <3>1 DEF HeldOnce
  <2> QED
    BY <2>2, <2>3
<1> QED
  BY <1>1, <1>6, <1>7, <1>8 DEF HandedInv

LEMMA HandedPreserved == ChatTypeInv /\ OnceInv /\ HandedInv /\ [Next]_vars => HandedInv'
<1> SUFFICES ASSUME ChatTypeInv, OnceInv, HandedInv, [Next]_vars PROVE HandedInv'
  OBVIOUS
<1>0. errs' = 0 => errs = 0
  BY KeptGrows
<1>1. ASSUME UNCHANGED <<mailbox, handler, pushed, got, twice, shared>> PROVE HandedInv'
  BY <1>0, <1>1 DEF HandedInv, CameByPush, OneAtATime, HeldOnce
<1>2. CASE UNCHANGED vars
  BY <1>1, <1>2 DEF vars, chatVars, clientVars, histVars
<1>3. ASSUME NEW c \in Channels, Move(c) PROVE HandedInv'
  BY <1>1, <1>3 DEF Move, clientVars
<1>4. CASE ServerCrash
  <2>1. /\ handler' = [c \in Channels |-> IdleHandler]
        /\ UNCHANGED <<mailbox, pushed, got, twice, shared>>
    BY <1>4 DEF ServerCrash, clientVars
  <2>2. \A c \in Channels : handler'[c].buf = {} /\ handler'[c].cur = {}
    BY <2>1 DEF IdleHandler
  <2>3. CameByPush' /\ OneAtATime'
    BY <2>1, <2>2 DEF HandedInv, CameByPush, OneAtATime
  <2>4. ASSUME NEW p, HeldOnce(p) PROVE HeldOnce(p)'
    BY <2>1, <2>2, <2>4 DEF HeldOnce
  <2> QED
    BY <1>0, <2>1, <2>3, <2>4 DEF HandedInv
<1>5. ASSUME NEW c \in Channels, WorkerStep(c) PROVE HandedInv'
  <2>1. CASE Push(c)
    BY <1>0, <2>1, PushHanded
  <2>2. CASE ~Push(c)
    BY <1>1, <1>5, <2>2
    DEF WorkerStep, Take, StoreMsg, ReadMembers, CheckRecipient, clientVars, histVars
  <2> QED
    BY <2>1, <2>2
<1>6. ASSUME NEW c \in Channels, NEW x, handler' = [handler EXCEPT ![c] = x],
             x.buf \subseteq handler[c].buf, x.cur = {}, handler[c].pc # "del",
             UNCHANGED <<mailbox, pushed, got, twice, shared>>
      PROVE  HandedInv'
  <2>1. errs' = 0 => \A p \in x.buf : p \in shared \/ p[2] \notin mailbox'[p[1]]
    BY <1>0, <1>6, HeldElsewhere
  <2> QED
    BY <1>0, <1>6, <2>1, HandedFrame
<1>7. ASSUME NEW c \in Channels,
             \/ \E m \in Msgs : ChatEnqueue(c, m)
             \/ ChatCheck(c) \/ ChatSend(c)
             \/ FetchAll(c)
             \/ \E f \in Users : FetchFriend(c, f)
             \/ \E g \in Groups : FetchGroup(c, g)
      PROVE  HandedInv'
  <2>1. UNCHANGED <<mailbox, pushed, got, twice, shared>> /\ handler[c].pc # "del"
    BY <1>7 DEF ChatEnqueue, ChatCheck, ChatSend, FetchAll, FetchFriend, FetchGroup, Fetch,
       clientVars, histVars
  <2>2. handler \in [Channels -> Handlers]
    BY DEF ChatTypeInv, ChatTypeOK
  <2>3. ASSUME NEW y, handler' = [handler EXCEPT ![c] = y], y.buf \subseteq handler[c].buf, y.cur = {}
        PROVE  HandedInv'
    BY <1>6, <2>1, <2>3
  <2>4. ASSUME NEW m \in Msgs, ChatEnqueue(c, m) PROVE HandedInv'
    <3> DEFINE y == CASE KindOf[m] = "private" -> [IdleHandler EXCEPT !.pc = "check", !.msg = m]
                      [] KindOf[m] = "group" -> [IdleHandler EXCEPT !.pc = "send", !.msg = m]
                      [] OTHER -> IdleHandler
    <3>1. handler' = [handler EXCEPT ![c] = y]
      BY <2>4 DEF ChatEnqueue
    <3>2. y.buf = {} /\ y.cur = {}
      BY DEF IdleHandler
    <3> HIDE DEF y
    <3> QED
      BY <2>3, <3>1, <3>2
  <2>5. CASE handler' = [handler EXCEPT ![c] = IdleHandler]
    <3>1. IdleHandler.buf = {} /\ IdleHandler.cur = {}
      BY DEF IdleHandler
    <3> QED
      BY <2>3, <2>5, <3>1
  <2>6. CASE ChatCheck(c)
    <3> DEFINE y == [handler[c] EXCEPT !.pc = "send"]
    <3>1. handler' = [handler EXCEPT ![c] = y] \/ handler' = [handler EXCEPT ![c] = IdleHandler]
      BY <2>6 DEF ChatCheck
    <3>2. y.buf = handler[c].buf /\ y.cur = handler[c].cur
      BY <2>2 DEF Handlers
    <3> HIDE DEF y
    <3>3. CASE handler' = [handler EXCEPT ![c] = y]
      <4>1. \A j, k \in y.cur : j = k
        BY <3>2 DEF HandedInv, OneAtATime
      <4>2. errs' = 0 => \A p \in y.buf : p \in shared \/ p[2] \notin mailbox'[p[1]]
        BY <1>0, <2>1, <3>2, HeldElsewhere
      <4> QED
        BY <1>0, <2>1, <3>2, <3>3, <4>1, <4>2, HandedFrame
    <3> QED
      BY <2>5, <3>1, <3>3
  <2>7. CASE ChatSend(c)
    BY <2>5, <2>7 DEF ChatSend
  <2>8. ASSUME NEW mode, NEW keys, NEW pc, Fetch(c, mode, keys, pc) PROVE HandedInv'
    <3> DEFINE y == [IdleHandler EXCEPT !.pc = pc, !.mode = mode, !.keys = keys]
    <3>1. handler' = [handler EXCEPT ![c] = y] /\ y.buf = {} /\ y.cur = {}
      BY <2>8 DEF Fetch, IdleHandler
    <3> HIDE DEF y
    <3> QED
      BY <2>3, <3>1
  <2>9. CASE FetchAll(c)
    <3> DEFINE none == {}
               boxes == BoxesLike(UserOf[c])
    <3>1. \/ Fetch(c, "all", boxes, "groups")
          \/ Fetch(c, "all", boxes, "read")
          \/ Fetch(c, "none", none, "idle")
      BY <2>9 DEF FetchAll
    <3> HIDE DEF boxes, none
    <3> QED
      BY <2>8, <3>1
  <2>10. ASSUME NEW f, FetchFriend(c, f) \/ FetchGroup(c, f) PROVE HandedInv'
    BY <2>8, <2>10 DEF FetchFriend, FetchGroup
  <2> QED
    BY <1>7, <2>4, <2>6, <2>7, <2>9, <2>10
<1>8. ASSUME NEW c \in Channels, ReadGroups(c) PROVE HandedInv'
  <2> DEFINE h == handler[c]
             boxes == {<<UserOf[c], g>> : g \in {i \in Groups : UserOf[c] \in Members[i]}}
             none == {}
  <2>1. /\ h \in Handlers /\ h.pc # "del" /\ UNCHANGED <<mailbox, pushed, got, twice, shared>>
        /\ \/ handler' = [handler EXCEPT ![c] = NextBox(h, boxes, FALSE)]
           \/ handler' = [handler EXCEPT ![c] = NextBox(h, none, FALSE)]
    BY <1>8 DEF ReadGroups, clientVars, histVars, ChatTypeInv, ChatTypeOK
  <2>2. ASSUME NEW ks, handler' = [handler EXCEPT ![c] = NextBox(h, ks, FALSE)] PROVE HandedInv'
    <3> DEFINE y == NextBox(h, ks, FALSE)
    <3>1. y.buf = h.buf /\ y.cur = {} /\ handler' = [handler EXCEPT ![c] = y]
      BY <2>1, <2>2 DEF NextBox, Handlers
    <3> HIDE DEF y
    <3> QED
      BY <1>6, <2>1, <3>1
  <2> HIDE DEF boxes, none
  <2> QED
    BY <2>1, <2>2
<1>9. ASSUME NEW c \in Channels, ReadBox(c) \/ DelBox(c) \/ FetchReply(c) PROVE HandedInv'
  BY <1>0, <1>9, ReadHanded, DelHanded, ReplyHanded
<1> QED
  BY <1>2, <1>3, <1>4, <1>5, <1>7, <1>8, <1>9 DEF Next, HandlerStep

(* Whatever devices ask at once, and whatever the ids: until a call fails,  *)
(* only a message that two of them had read is handed out twice.            *)
(* (RedisMessageHelper.getFriendsOfflineMessage reads, then removes.)       *)
THEOREM MailIsHandedOnce == Spec => []HandedOnce
<1>1. Init => ChatTypeInv /\ OnceInv /\ HandedInv
  BY ChatInitial, OnceInitial, HandedInitial
<1>2. ChatTypeInv /\ OnceInv /\ HandedInv /\ [Next]_vars => ChatTypeInv' /\ OnceInv' /\ HandedInv'
  BY ChatTyped, OncePreserved, HandedPreserved
<1>3. ChatTypeInv /\ HandedInv => HandedOnce
  <2> SUFFICES ASSUME ChatTypeInv, HandedInv, errs = 0, NEW r \in twice
               PROVE  <<r[2], r[3]>> \in shared
    BY DEF HandedOnce
  <2>1. r \in Users \X Keys \X Msgs
    BY DEF ChatTypeInv, ChatTypeOK
  <2>2. r = <<r[1], r[2], r[3]>> /\ r[1] \in Users /\ <<r[2], r[3]>> \in Keys \X Msgs
    BY <2>1
  <2> QED
    BY <2>2 DEF HandedInv, HeldOnce
<1> QED
  BY <1>1, <1>2, <1>3, PTL DEF Spec
-----------------------------------------------------------------------------
LEMMA SettledInitial == Init => SettledInv
BY DEF Init, PresenceInit, SettledInv, Indexed, LiveIsAccepted, Fates

\* A step moves the presence of the connection's own user only.
LEMMA StepIsLocal ==
  ASSUME PresenceTypeOK, NEW c \in Channels, PresenceStep(c)
  PROVE  /\ \A d \in Channels : d # c =>
              /\ conn'[d] = conn[d] /\ login'[d] = login[d]
              /\ (d \in bound') = (d \in bound) /\ (d \in grouped') = (d \in grouped)
         /\ \A u \in Users : u # UserOf[c] => status'[u] = status[u]
<1> USE DEF PresenceTypeOK
<1>1. /\ \A d \in Channels : d # c => conn'[d] = conn[d] /\ login'[d] = login[d]
      /\ bound' \in {bound, bound \union {c}, bound \ {c}}
      /\ grouped' \in {grouped, grouped \union {c}, grouped \ {c}}
  BY DEF PresenceStep, Connect, LoginStart, LoginBind, LoginOnline, LoginDone, CloseBefore,
     CloseUnbind
<1>2. ASSUME NEW s, PutTerminal(c, s), NEW u \in Users, u # UserOf[c]
      PROVE  status'[u] = status[u]
  BY <1>2, PresenceAssumption DEF PutTerminal
<1>3. status' = status \/ \E s \in {"online", "offline"} : PutTerminal(c, s)
  BY DEF PresenceStep, Connect, LoginStart, LoginBind, LoginOnline, LoginDone, CloseBefore,
     CloseUnbind
<1>4. \A u \in Users : u # UserOf[c] => status'[u] = status[u]
  BY <1>2, <1>3
<1>5. \A d \in Channels : d # c =>
        (d \in bound') = (d \in bound) /\ (d \in grouped') = (d \in grouped)
  BY <1>1
<1> QED
  BY <1>1, <1>4, <1>5

LEMMA IndexedStep ==
  ASSUME PresenceTypeOK, Indexed, NEW c \in Channels, PresenceStep(c)
  PROVE  Indexed'
<1> SUFFICES ASSUME NEW d \in Channels, conn'[d] = "open"
    PROVE  /\ login'[d] \in {"bound", "online", "done"} => d \in bound'
           /\ login'[d] = "done" => d \in grouped'
  BY DEF Indexed
<1>1. CASE d # c
  BY <1>1, StepIsLocal DEF Indexed
<1>2. CASE d = c
  <2>1. /\ conn[c] = "open" /\ login[c] \in {"bound", "online", "done"} => c \in bound
        /\ conn[c] = "open" /\ login[c] = "done" => c \in grouped
    BY DEF Indexed
  <2> QED
    BY <1>2, <2>1
    DEF PresenceTypeOK, PresenceStep, Connect, LoginStart, LoginBind, LoginOnline, LoginDone,
        CloseBefore, CloseUnbind
<1> QED
  BY <1>1, <1>2

LEMMA IndexedStays ==
  ASSUME Indexed, UNCHANGED netVars PROVE Indexed'
BY DEF Indexed, netVars

\* What the fate of a message at a user says of presence, for others' steps.
LEMMA SettledElsewhere ==
  ASSUME PresenceTypeOK, NEW c \in Channels, PresenceStep(c), NEW u \in Users, u # UserOf[c]
  PROVE  (Settled(u)' <=> Settled(u)) /\ (IsOnline(u)' <=> IsOnline(u))
<1>1. \A d \in Channels : UserOf[d] = u => d # c
  OBVIOUS
<1>2. \A d \in Channels : UserOf[d] = u =>
        /\ conn'[d] = conn[d] /\ login'[d] = login[d] /\ (d \in bound') = (d \in bound)
  BY <1>1, StepIsLocal
<1>3. IsOnline(u)' <=> IsOnline(u)
  BY StepIsLocal DEF IsOnline
<1>4. LiveChannels(u)' = {} <=> LiveChannels(u) = {}
  <2>1. bound \subseteq Channels /\ bound' \subseteq Channels
    BY PresenceTyped DEF PresenceTypeOK, PresenceNext
  <2> QED
    BY <1>2, <2>1 DEF LiveChannels
<1>5. \A d \in Channels : UserOf[d] = u =>
        ((\/ conn'[d] = "open" /\ login'[d] = "done"
          \/ conn'[d] = "new" /\ ~LoggingIn(d)') <=>
         (\/ conn[d] = "open" /\ login[d] = "done"
          \/ conn[d] = "new" /\ ~LoggingIn(d)))
  BY <1>2 DEF LoggingIn
<1> QED
  BY <1>3, <1>4, <1>5 DEF Settled

LEMMA SettledStays ==
  ASSUME UNCHANGED netVars, NEW u \in Users
  PROVE  (Settled(u)' <=> Settled(u)) /\ (IsOnline(u)' <=> IsOnline(u))
BY DEF Settled, IsOnline, LiveChannels, LoggingIn, netVars

\* Who keeps the fate of each accepted message keeps them all.
LEMMA FatesKept ==
  ASSUME ChatTypeInv, Fates, errs' = 0 => errs = 0, moved \subseteq moved', accepted' = accepted,
         \A m \in accepted : \A u \in Recipients(m) : \A v \in BOOLEAN :
           errs' = 0 /\ KindOf[m] # "unknown" /\ <<u, m>> \notin moved' /\ Fate(m, u, v)
             => Fate(m, u, v)'
  PROVE  Fates'
<1> SUFFICES ASSUME errs' = 0, NEW m \in accepted, NEW u \in Recipients(m),
                    KindOf[m] # "unknown", <<u, m>> \notin moved'
             PROVE  \E v \in BOOLEAN : Fate(m, u, v)'
  BY DEF Fates, Recipients
<1>1. PICK v \in BOOLEAN : Fate(m, u, v)
  BY DEF Fates
<1>2. Fate(m, u, v)'
  BY <1>1
<1> QED
  BY <1>2

\* A step that leaves the message where it is, for this user.
LEMMA FateFrame ==
  ASSUME NEW m, NEW u, NEW v, Fate(m, u, v),
         Settled(u)' <=> Settled(u), IsOnline(u)' <=> IsOnline(u), ~Done(m)' => ~Done(m),
         handler'[SrcOf[m]].msg = m <=> handler[SrcOf[m]].msg = m, live' = live,
         <<BoxOf(m, u), m>> \in pushed' <=> <<BoxOf(m, u), m>> \in pushed,
         Pends(m, u)' <=> Pends(m, u),
         worker'[SrcOf[m]].msg = m /\ worker'[SrcOf[m]].pc = "push" /\ worker'[SrcOf[m]].to = u
           => worker[SrcOf[m]].msg = m /\ worker[SrcOf[m]].pc = "push" /\ worker[SrcOf[m]].to = u
  PROVE  Fate(m, u, v)'
<1>1. HasLive(m, u)' <=> HasLive(m, u)
  BY DEF HasLive
<1>2. BoxOf(m, u)' = BoxOf(m, u)
  BY DEF BoxOf
<1> QED
  BY <1>1, <1>2 DEF Fate

\* Past the queue a worker has its packet until it is idle.
LEMMA WorkerKeeps ==
  ASSUME ChatTypeInv, NEW c \in Channels,
         StoreMsg(c) \/ ReadMembers(c) \/ CheckRecipient(c) \/ Push(c)
  PROVE  /\ \A d \in Channels : d # c => worker'[d] = worker[d]
         /\ worker'[c].msg \in {worker[c].msg, None}
         /\ worker'[c].pc = "push" => CheckRecipient(c)
<1> DEFINE w == worker[c]
<1>0. worker \in [Channels -> Workers] /\ w \in Workers
  BY DEF ChatTypeInv, ChatTypeOK
<1>1. ASSUME NEW x, worker' = [worker EXCEPT ![c] = x], x.msg \in {w.msg, None},
             x.pc = "push" => CheckRecipient(c)
      PROVE  /\ \A d \in Channels : d # c => worker'[d] = worker[d]
             /\ worker'[c].msg \in {w.msg, None}
             /\ worker'[c].pc = "push" => CheckRecipient(c)
  BY <1>0, <1>1
<1>2. ASSUME NEW S, worker' = [worker EXCEPT ![c] = WorkerWith(w, S)]
      PROVE  /\ \A d \in Channels : d # c => worker'[d] = worker[d]
             /\ worker'[c].msg \in {w.msg, None}
             /\ worker'[c].pc = "push" => CheckRecipient(c)
  <2> DEFINE x == WorkerWith(w, S)
  <2>1. worker' = [worker EXCEPT ![c] = x] /\ x.msg \in {w.msg, None} /\ x.pc # "push"
    BY <1>0, <1>2 DEF WorkerWith, IdleWorker, Workers
  <2> HIDE DEF x
  <2> QED
    BY <1>1, <2>1
<1>3. CASE StoreMsg(c)
  <2> DEFINE x == IF KindOf[w.msg] = "group" THEN [w EXCEPT !.pc = "members"]
                  ELSE [w EXCEPT !.pc = "check", !.todo = {DestOf[w.msg]}]
  <2>1. worker' = [worker EXCEPT ![c] = x] /\ x.msg = w.msg /\ x.pc # "push"
    BY <1>0, <1>3 DEF StoreMsg, Workers
  <2> HIDE DEF x
  <2> QED
    BY <1>1, <2>1
<1>4. CASE ReadMembers(c)
  <2>1. CASE worker' = [worker EXCEPT ![c] = IdleWorker]
    <3>1. IdleWorker.msg = None /\ IdleWorker.pc = "idle"
      BY DEF IdleWorker
    <3> QED
      BY <1>1, <2>1, <3>1
  <2> QED
    BY <1>2, <1>4, <2>1 DEF ReadMembers
<1>5. CASE CheckRecipient(c)
  <2>1. PICK u \in w.todo, v \in BOOLEAN :
          worker' = [worker EXCEPT ![c] =
            IF v THEN WorkerWith(w, w.todo \ {u}) ELSE [w EXCEPT !.pc = "push", !.to = u]]
    BY <1>5 DEF CheckRecipient
  <2> DEFINE x == [w EXCEPT !.pc = "push", !.to = u]
  <2>2. x.msg = w.msg
    BY <1>0 DEF Workers
  <2>3. \/ worker' = [worker EXCEPT ![c] = x]
        \/ worker' = [worker EXCEPT ![c] = WorkerWith(w, w.todo \ {u})]
    BY <2>1
  <2> HIDE DEF x
  <2> QED
    BY <1>1, <1>2, <1>5, <2>2, <2>3
<1>6. CASE Push(c)
  BY <1>2, <1>6 DEF Push
<1> QED
  BY <1>3, <1>4, <1>5, <1>6

\* A packet the worker is done with stays done with.
LEMMA WorkerDone ==
  ASSUME ChatTypeInv, OnceInv, NEW c \in Channels, WorkerStep(c), NEW m \in Msgs, ~Done(m)'
  PROVE  ~Done(m)
<1>1. SrcOf[m] \in Channels /\ m # None
  BY ChatAssumption
<1>2. UNCHANGED <<handler, accepted>>
  BY DEF WorkerStep, Take, StoreMsg, ReadMembers, CheckRecipient, Push, histVars
<1>3. CASE Take(c)
  <2>1. \A u \in Users : Pends(m, u)' <=> Pends(m, u)
    BY <1>3, TakeOnce DEF OnceInv
  <2>2. \A d \in Channels : worker'[d].msg = worker[d].msg \/ (d = c /\ worker'[d].pc = "store")
    BY <1>3 DEF Take, ChatTypeInv, ChatTypeOK, Workers
  <2>3. UserOf[SrcOf[m]] \in Users
    BY <1>1, PresenceAssumption
  <2>4. Queued(m)' \/ (worker'[SrcOf[m]].msg = m /\ worker'[SrcOf[m]].pc = "store")
          => Pends(m, UserOf[SrcOf[m]])'
    BY DEF Pends
  <2>5. Pends(m, UserOf[SrcOf[m]]) => Queued(m) \/ worker[SrcOf[m]].msg = m
    BY DEF Pends
  <2> QED
    BY <1>1, <1>2, <2>1, <2>2, <2>3, <2>4, <2>5 DEF Done, Queued
<1>4. CASE StoreMsg(c) \/ ReadMembers(c) \/ CheckRecipient(c) \/ Push(c)
  <2>1. queue' = queue
    BY <1>4 DEF StoreMsg, ReadMembers, CheckRecipient, Push
  <2>2. \A d \in Channels : worker'[d].msg \in {worker[d].msg, None}
    BY <1>4, WorkerKeeps
  <2> QED
    BY <1>1, <1>2, <2>1, <2>2 DEF Done
<1> QED
  BY <1>3, <1>4 DEF WorkerStep

(* The worker decides as the presence says, and pushes as it decided. *)
LEMMA WorkerFates ==
  ASSUME ChatTypeInv, OnceInv, SettledInv, errs' = 0 => errs = 0, NEW c \in Channels, WorkerStep(c)
  PROVE  Fates'
<1> DEFINE w == worker[c]
<1>1. UNCHANGED <<netVars, handler, live, moved, accepted>>
  BY DEF WorkerStep, Take, StoreMsg, ReadMembers, CheckRecipient, Push, presenceVars, clientVars,
     histVars
<1>2. QueueOnce /\ PushedOnce /\ accepted \subseteq Msgs /\ errs \in Nat
  BY PresenceAssumption DEF OnceInv, ChatTypeInv, ChatTypeOK, PresenceTypeOK
<1> SUFFICES ASSUME NEW m \in accepted, NEW u \in Recipients(m), NEW v \in BOOLEAN,
                    errs' = 0, KindOf[m] # "unknown", <<u, m>> \notin moved, Fate(m, u, v)
             PROVE  Fate(m, u, v)'
  BY <1>1, FatesKept DEF SettledInv
<1>3. m \in Msgs /\ u \in Users /\ SrcOf[m] \in Channels
  BY <1>2, RecipientsAreUsers, ChatAssumption
<1>4. /\ Settled(u)' <=> Settled(u)
      /\ IsOnline(u)' <=> IsOnline(u)
      /\ ~Done(m)' => ~Done(m)
  BY <1>1, <1>3, SettledStays, WorkerDone
<1>5. ASSUME pushed' = pushed, Pends(m, u)' <=> Pends(m, u), worker'[c].pc # "push",
             \A d \in Channels : d # c => worker'[d] = worker[d]
      PROVE  Fate(m, u, v)'
  <2>1. worker'[SrcOf[m]].pc = "push" => worker'[SrcOf[m]] = worker[SrcOf[m]]
    BY <1>3, <1>5
  <2> QED
    BY <1>1, <1>4, <1>5, <2>1, FateFrame
<1>6. CASE Take(c)
  <2>1. worker'[c].pc # "push" /\ \A d \in Channels : d # c => worker'[d] = worker[d]
    BY <1>6 DEF Take, ChatTypeInv, ChatTypeOK, Workers
  <2>2. Pends(m, u)' <=> Pends(m, u)
    BY <1>2, <1>3, <1>6, TakeOnce
  <2> QED
    BY <1>5, <1>6, <2>1, <2>2 DEF Take, histVars
<1>7. CASE StoreMsg(c)
  <2>1. worker'[c].pc # "push" /\ \A d \in Channels : d # c => worker'[d] = worker[d]
    BY <1>7, WorkerKeeps DEF StoreMsg, CheckRecipient
  <2>2. Pends(m, u)' <=> Pends(m, u)
    BY <1>2, <1>3, <1>7, StoreOnce
  <2> QED
    BY <1>5, <1>7, <2>1, <2>2 DEF StoreMsg, histVars
<1>8. CASE ReadMembers(c)
  <2>1. worker'[c].pc # "push" /\ \A d \in Channels : d # c => worker'[d] = worker[d]
    BY <1>8, WorkerKeeps DEF ReadMembers, CheckRecipient
  <2>2. RedisWorks
    BY <1>2, <1>8 DEF ReadMembers, RedisFails
  <2>3. Pends(m, u)' <=> Pends(m, u)
    BY <1>2, <1>3, <1>8, <2>2, MembersOnce
  <2> QED
    BY <1>5, <1>8, <2>1, <2>3 DEF ReadMembers, histVars
<1>9. CASE CheckRecipient(c)
  <2>1. PICK t \in w.todo, b \in BOOLEAN :
          /\ Verdict(t, b)
          /\ b => worker'[c].pc # "push"
          /\ ~b => worker'[c].to = t
          /\ \A n \in Msgs, s \in Users :
               Pends(n, s)' <=> Pends(n, s) /\ ~(b /\ n = w.msg /\ s = t)
    BY <1>2, <1>9, CheckOnce
  <2>2. b <=> IsOnline(t)
    BY <1>2, <2>1 DEF Verdict, RedisFails
  <2>3. /\ \A d \in Channels : d # c => worker'[d] = worker[d]
        /\ worker'[c].msg \in {w.msg, None} /\ UNCHANGED <<pushed, queue>>
    BY <1>9, WorkerKeeps DEF CheckRecipient, histVars
  <2>4. w.pc = "check" /\ m # None
    BY <1>3, <1>9, ChatAssumption DEF CheckRecipient
  <2>5. CASE m = w.msg /\ u = t
    <3>1. SrcOf[m] = c /\ ~Done(m) /\ Pends(m, u)
      BY <1>2, <2>1, <2>4, <2>5 DEF QueueOnce, Done, Pends
    <3>2. b <=> v
      BY <2>2, <2>5, <3>1 DEF Fate
    <3>3. <<BoxOf(m, u), m>> \notin pushed
      BY <1>2, <1>3, <3>1 DEF PushedOnce
    <3>4. /\ ~Pends(m, u)' => b
          /\ b => worker'[c].pc # "push"
      BY <1>3, <2>1, <2>5, <3>1
    <3>5. HasLive(m, u)' <=> HasLive(m, u)
      BY <1>1 DEF HasLive
    <3>6. BoxOf(m, u)' = BoxOf(m, u)
      BY DEF BoxOf
    <3> QED
      BY <1>1, <1>4, <2>3, <3>1, <3>2, <3>3, <3>4, <3>5, <3>6 DEF Fate
  <2>6. CASE ~(m = w.msg /\ u = t)
    <3>1. Pends(m, u)' <=> Pends(m, u)
      BY <1>3, <2>1, <2>6
    <3>2. ASSUME worker'[SrcOf[m]].msg = m, worker'[SrcOf[m]].pc = "push",
                 worker'[SrcOf[m]].to = u
          PROVE  worker'[SrcOf[m]] = worker[SrcOf[m]]
      BY <1>3, <2>1, <2>3, <2>4, <2>6, <3>2
    <3> QED
      BY <1>1, <1>4, <2>3, <3>1, <3>2, FateFrame
  <2> QED
    BY <2>5, <2>6
<1>10. CASE Push(c)
  <2> DEFINE p == <<BoxOf(w.msg, w.to), w.msg>>
  <2>1. /\ pushed' = pushed \union {p}
        /\ w.pc = "push" /\ w.msg \in accepted /\ SrcOf[w.msg] = c /\ w.msg \in Msgs /\ w.to \in Users
    BY <1>2, <1>10 DEF Push, RedisFails, QueueOnce, ChatTypeInv, Shapes
  <2>2. Pends(m, u)' <=> Pends(m, u) /\ ~(m = w.msg /\ u = w.to)
    BY <1>2, <1>3, <1>10, PushOnce
  <2>3. /\ \A d \in Channels : d # c => worker'[d] = worker[d]
        /\ worker'[c].pc # "push"
    BY <1>10, <2>1, WorkerKeeps DEF CheckRecipient
  <2>4. worker'[SrcOf[m]].pc = "push" => worker'[SrcOf[m]] = worker[SrcOf[m]]
    BY <1>3, <2>3
  <2>5. BoxOf(m, u)' = BoxOf(m, u)
    BY DEF BoxOf
  <2>6. CASE m = w.msg /\ u = w.to
    <3>1. ~v /\ <<BoxOf(m, u), m>> \in pushed'
      BY <2>1, <2>6 DEF Fate
    <3>2. HasLive(m, u)' <=> HasLive(m, u)
      BY <1>1 DEF HasLive
    <3> QED
      BY <1>1, <1>4, <2>4, <2>5, <3>1, <3>2 DEF Fate
  <2>7. CASE ~(m = w.msg /\ u = w.to)
    <3>1. <<BoxOf(m, u), m>> # p
      BY <1>3, <2>1, <2>7, BoxIsOnes
    <3> HIDE DEF p
    <3>2. <<BoxOf(m, u), m>> \in pushed' <=> <<BoxOf(m, u), m>> \in pushed
      BY <2>1, <3>1
    <3> QED
      BY <1>1, <1>4, <2>2, <2>4, <2>7, <3>2, FateFrame
  <2> QED
    BY <2>6, <2>7
<1> QED
  BY <1>6, <1>7, <1>8, <1>9, <1>10 DEF WorkerStep

\* A message comes in with the presence of each settled recipient for its fate.
LEMMA EnqueueFates ==
  ASSUME ChatTypeInv, OnceInv, SettledInv, errs' = 0 => errs = 0, NEW c \in Channels,
         NEW n \in Msgs, ChatEnqueue(c, n)
  PROVE  Fates'
<1>1. /\ UNCHANGED <<netVars, worker, live, pushed>> /\ accepted' = accepted \union {n}
      /\ SrcOf[n] = c /\ n \notin accepted
      /\ moved' = moved \union {<<s, n>> : s \in {t \in Recipients(n) : ~Settled(t)}}
  BY DEF ChatEnqueue, presenceVars, clientVars
<1>2. /\ handler'[c].msg = IF KindOf[n] = "unknown" THEN None ELSE n
      /\ \A d \in Channels : d # c => handler'[d] = handler[d]
      /\ \A k \in Msgs, s \in Users : Pends(k, s)' <=> Pends(k, s) \/ k = n
      /\ \A k \in Msgs : Queued(k)' <=> Queued(k) \/ k = n
  BY EnqueueOnce
<1>3. /\ QueueOnce /\ PushedOnce /\ LiveIsAccepted /\ Fates /\ accepted \subseteq Msgs
      /\ None \notin Msgs
  BY ChatAssumption DEF OnceInv, SettledInv, ChatTypeInv, ChatTypeOK
<1>4. handler[c].msg = None
  BY <1>3 DEF ChatEnqueue, QueueOnce
<1> SUFFICES ASSUME errs' = 0, NEW m \in accepted', NEW u \in Recipients(m),
                    KindOf[m] # "unknown", <<u, m>> \notin moved'
             PROVE  \E v \in BOOLEAN : Fate(m, u, v)'
  BY DEF Fates, Recipients
<1>5. m \in Msgs /\ u \in Users /\ SrcOf[m] \in Channels
  BY <1>1, <1>3, RecipientsAreUsers, ChatAssumption
<1>6. (Settled(u)' <=> Settled(u)) /\ (IsOnline(u)' <=> IsOnline(u))
  BY <1>1, <1>5, SettledStays
<1>7. CASE m = n
  <2>1. Settled(u)
    BY <1>1, <1>7
  <2>2. PICK v \in BOOLEAN : v <=> IsOnline(u)
    OBVIOUS
  <2>3. ~HasLive(m, u)'
    BY <1>1, <1>3, <1>7 DEF HasLive, LiveIsAccepted
  <2>4. handler'[SrcOf[m]].msg = m /\ Pends(m, u)'
    BY <1>1, <1>2, <1>5, <1>7
  <2>5. worker'[SrcOf[m]].msg # m
    BY <1>1, <1>3, <1>5, <1>7 DEF QueueOnce
  <2> QED
    BY <1>6, <2>1, <2>2, <2>3, <2>4, <2>5 DEF Fate
<1>8. CASE m # n
  <2>1. m \in accepted /\ <<u, m>> \notin moved
    BY <1>1, <1>8
  <2>2. PICK v \in BOOLEAN : Fate(m, u, v)
    BY <1>3, <2>1 DEF Fates
  <2>3. Pends(m, u)' <=> Pends(m, u)
    BY <1>2, <1>5, <1>8
  <2>4. handler'[SrcOf[m]].msg = m <=> handler[SrcOf[m]].msg = m
    BY <1>2, <1>3, <1>4, <1>5, <1>8
  <2>5. ~Done(m)' => ~Done(m)
    BY <1>1, <1>2, <1>5, <1>8, <2>1, <2>4 DEF Done, Queued
  <2> QED
    BY <1>1, <1>6, <2>2, <2>3, <2>4, <2>5, FateFrame
<1> QED
  BY <1>7, <1>8

\* Where a message of c's handler is sent: to all of a settled recipient's presence.
LEMMA TargetsArePresence ==
  ASSUME ChatTypeInv, Indexed, NEW m \in Msgs, KindOf[m] # "unknown", NEW u \in Recipients(m),
         Settled(u)
  PROVE  (\E d \in Channels : UserOf[d] = u /\ d \in Targets(m)) <=> IsOnline(u)
<1>1. /\ IsOnline(u) <=> LiveChannels(u) # {}
      /\ \A d \in Channels : UserOf[d] = u /\ conn[d] = "open" => login[d] = "done"
  BY DEF Settled
<1>2. bound \subseteq Channels /\ grouped \subseteq Channels
  BY DEF ChatTypeInv, ChatTypeOK, PresenceTypeOK
<1>3. \A d \in Channels : UserOf[d] = u /\ conn[d] = "open" => d \in bound /\ d \in grouped
  BY <1>1 DEF Indexed
<1>4. CASE KindOf[m] = "group"
  <2>1. u \in Members[DestOf[m]]
    BY <1>4 DEF Recipients
  <2>2. \A d \in Channels : UserOf[d] = u => (d \in Targets(m) <=> conn[d] = "open")
    BY <1>3, <1>4, <2>1 DEF Targets
  <2>3. LiveChannels(u) # {} <=> \E d \in Channels : UserOf[d] = u /\ conn[d] = "open"
    BY <1>2, <1>3 DEF LiveChannels
  <2> QED
    BY <1>1, <2>2, <2>3
<1>5. CASE KindOf[m] # "group"
  <2>1. u = DestOf[m] /\ Targets(m) = LiveChannels(u)
    BY <1>5 DEF Recipients, Targets
  <2> QED
    BY <1>1, <1>2, <2>1 DEF LiveChannels
<1> QED
  BY <1>4, <1>5

(* The handler answers and sends as the presence says. *)
LEMMA AnswerFates ==
  ASSUME ChatTypeInv, OnceInv, SettledInv, errs' = 0 => errs = 0, NEW c \in Channels,
         ChatCheck(c) \/ ChatSend(c)
  PROVE  Fates'
<1> DEFINE n == handler[c].msg
<1>1. UNCHANGED <<netVars, queue, worker, moved, accepted, pushed>>
  BY DEF ChatCheck, ChatSend, presenceVars, histVars
<1>2. /\ \A d \in Channels : d # c => handler'[d] = handler[d]
      /\ n \in accepted /\ SrcOf[n] = c
  BY AnswerOnce
<1>3. /\ QueueOnce /\ Indexed /\ Fates /\ accepted \subseteq Msgs /\ errs \in Nat
      /\ handler \in [Channels -> Handlers]
  BY PresenceAssumption DEF OnceInv, SettledInv, ChatTypeInv, ChatTypeOK, PresenceTypeOK
<1> SUFFICES ASSUME NEW m \in accepted, NEW u \in Recipients(m), NEW v \in BOOLEAN,
                    errs' = 0, KindOf[m] # "unknown", <<u, m>> \notin moved, Fate(m, u, v)
             PROVE  Fate(m, u, v)'
  BY <1>1, <1>3, FatesKept
<1>4. m \in Msgs /\ u \in Users /\ SrcOf[m] \in Channels /\ m # None
  BY <1>3, RecipientsAreUsers, ChatAssumption
<1>5. (Settled(u)' <=> Settled(u)) /\ (IsOnline(u)' <=> IsOnline(u))
  BY <1>1, <1>4, SettledStays
<1>6. Pends(m, u)' <=> Pends(m, u)
  BY <1>1 DEF Pends, Queued
<1>7. handler'[c].msg \in {n, None}
  <2>1. CASE ChatCheck(c)
    BY <1>3, <2>1 DEF ChatCheck, IdleHandler, Handlers
  <2>2. CASE ChatSend(c)
    BY <2>2, AnswerOnce
  <2> QED
    BY <2>1, <2>2
<1>8. ~Done(m)' => ~Done(m)
  BY <1>1, <1>2, <1>4, <1>7 DEF Done
<1>9. BoxOf(m, u)' = BoxOf(m, u)
  BY DEF BoxOf
<1>10. CASE m # n
  <2>1. handler'[SrcOf[m]].msg = m <=> handler[SrcOf[m]].msg = m
    BY <1>2, <1>4, <1>7, <1>10
  <2>2. HasLive(m, u)' <=> HasLive(m, u)
    <3>1. \A d : <<m, d>> \in live' <=> <<m, d>> \in live
      BY <1>10 DEF ChatCheck, ChatSend
    <3> QED
      BY <3>1 DEF HasLive
  <2> QED
    BY <1>1, <1>5, <1>6, <1>8, <1>9, <2>1, <2>2 DEF Fate
<1>11. CASE m = n
  <2>1. ~Done(m) /\ ~HasLive(m, u) /\ Settled(u) /\ (IsOnline(u) <=> v)
    BY <1>2, <1>11 DEF Fate, Done
  <2>2. CASE ChatCheck(c)
    <3>1. PICK b \in BOOLEAN :
            /\ Verdict(DestOf[m], b)
            /\ handler' = [handler EXCEPT ![c] =
                 IF b THEN [handler[c] EXCEPT !.pc = "send"] ELSE IdleHandler]
      BY <1>11, <2>2 DEF ChatCheck
    <3>2. KindOf[m] = "private" /\ u = DestOf[m]
      BY <1>3, <1>11, <2>2 DEF ChatCheck, QueueOnce, Recipients
    <3>3. b <=> v
      BY <1>3, <2>1, <3>1, <3>2 DEF Verdict, RedisFails
    <3>4. HasLive(m, u)' <=> HasLive(m, u)
      BY <2>2 DEF ChatCheck, HasLive
    <3>5. handler'[c].msg # m => ~b
      BY <1>3, <1>11, <3>1 DEF Handlers
    <3> QED
      BY <1>1, <1>2, <1>5, <1>6, <1>8, <1>9, <1>11, <2>1, <3>3, <3>4, <3>5 DEF Fate
  <2>3. CASE ChatSend(c)
    <3>1. handler'[SrcOf[m]].msg # m
      BY <1>2, <1>4, <1>11, <2>3, AnswerOnce
    <3>2. live' = live \union ({m} \X Targets(m))
      BY <1>11, <2>3 DEF ChatSend
    <3>3. HasLive(m, u)' <=> \E d \in Channels : UserOf[d] = u /\ d \in Targets(m)
      <4>1. \A d : <<m, d>> \in live' <=> <<m, d>> \in live \/ d \in Targets(m)
        BY <3>2
      <4> QED
        BY <2>1, <4>1 DEF HasLive
    <3>4. HasLive(m, u)' <=> v
      BY <1>3, <1>4, <2>1, <3>3, TargetsArePresence
    <3> QED
      BY <1>1, <1>5, <1>6, <1>8, <1>9, <3>1, <3>4 DEF Fate
  <2> QED
    BY <2>2, <2>3
<1> QED
  BY <1>10, <1>11

LEMMA MailFates ==
  ASSUME ChatTypeInv, OnceInv, SettledInv, errs' = 0 => errs = 0, NEW c \in Channels, MailStep(c)
  PROVE  Fates'
<1>1. /\ \A d \in Channels : handler'[d].msg = handler[d].msg
      /\ UNCHANGED <<netVars, queue, worker, accepted, pushed, live, moved>>
  BY MailOnce
<1> SUFFICES ASSUME NEW m \in accepted, NEW u \in Recipients(m), NEW v \in BOOLEAN, Fate(m, u, v)
             PROVE  Fate(m, u, v)'
  BY <1>1, FatesKept DEF SettledInv
<1>2. m \in Msgs /\ u \in Users /\ SrcOf[m] \in Channels
  BY RecipientsAreUsers, ChatAssumption DEF ChatTypeInv, ChatTypeOK
<1>3. (Settled(u)' <=> Settled(u)) /\ (IsOnline(u)' <=> IsOnline(u))
  BY <1>1, <1>2, SettledStays
<1>4. (Pends(m, u)' <=> Pends(m, u)) /\ (~Done(m)' => ~Done(m))
  BY <1>1, <1>2 DEF Pends, Queued, Done
<1> QED
  BY <1>1, <1>2, <1>3, <1>4, FateFrame

\* Whose presence moves while a message is under way is `moved'.
LEMMA MoveFates ==
  ASSUME ChatTypeInv, SettledInv, errs' = 0 => errs = 0, NEW c \in Channels, Move(c)
  PROVE  Fates'
<1>1. /\ PresenceStep(c) /\ moved' = moved \union ({UserOf[c]} \X UnderWay)
      /\ UNCHANGED <<queue, worker, handler, accepted, pushed, live>>
  BY DEF Move, clientVars
<1> SUFFICES ASSUME NEW m \in accepted, NEW u \in Recipients(m), NEW v \in BOOLEAN,
                    <<u, m>> \notin moved', Fate(m, u, v)
             PROVE  Fate(m, u, v)'
  BY <1>1, FatesKept DEF SettledInv
<1>2. m \in Msgs /\ u \in Users /\ PresenceTypeOK
  BY RecipientsAreUsers DEF ChatTypeInv, ChatTypeOK
<1>3. (Pends(m, u)' <=> Pends(m, u)) /\ (Done(m)' <=> Done(m))
  BY <1>1 DEF Pends, Queued, Done
<1>4. u # UserOf[c] \/ Done(m)
  BY <1>1 DEF UnderWay
<1>5. u # UserOf[c] => (Settled(u)' <=> Settled(u)) /\ (IsOnline(u)' <=> IsOnline(u))
  BY <1>1, <1>2, SettledElsewhere
<1>6. (HasLive(m, u)' <=> HasLive(m, u)) /\ BoxOf(m, u)' = BoxOf(m, u)
  BY <1>1 DEF HasLive, BoxOf
<1> QED
  BY <1>1, <1>3, <1>4, <1>5, <1>6 DEF Fate

LEMMA CrashFates ==
  ASSUME ChatTypeInv, SettledInv, errs' = 0 => errs = 0, ServerCrash
  PROVE  Fates'
<1>1. /\ queue' = [c \in Channels |-> <<>>] /\ worker' = [c \in Channels |-> IdleWorker]
      /\ handler' = [c \in Channels |-> IdleHandler]
      /\ moved' = moved \union (Users \X UnderWay) /\ UNCHANGED <<accepted, pushed, live>>
  BY DEF ServerCrash, clientVars
<1> SUFFICES ASSUME NEW m \in accepted, NEW u \in Recipients(m), NEW v \in BOOLEAN,
                    <<u, m>> \notin moved', Fate(m, u, v)
             PROVE  Fate(m, u, v)'
  BY <1>1, FatesKept DEF SettledInv
<1>2. m \in Msgs /\ u \in Users /\ SrcOf[m] \in Channels /\ m # None
  BY RecipientsAreUsers, ChatAssumption DEF ChatTypeInv, ChatTypeOK
<1>3. Done(m)
  BY <1>1, <1>2 DEF UnderWay
<1>5. ~Pends(m, u) /\ handler[SrcOf[m]].msg # m
  BY <1>3 DEF Done, Pends, Queued
<1>6. /\ handler'[SrcOf[m]].msg # m /\ worker'[SrcOf[m]].msg # m
      /\ queue'[SrcOf[m]] = <<>>
  BY <1>1, <1>2 DEF IdleHandler, IdleWorker
<1>7. Done(m)'
  BY <1>1, <1>6 DEF Done
<1>8. (HasLive(m, u)' <=> HasLive(m, u)) /\ BoxOf(m, u)' = BoxOf(m, u)
  BY <1>1 DEF HasLive, BoxOf
<1> QED
  BY <1>1, <1>5, <1>6, <1>7, <1>8 DEF Fate

LEMMA SettledPreserved == ChatTypeInv /\ OnceInv /\ SettledInv /\ [Next]_vars => SettledInv'
<1> SUFFICES ASSUME ChatTypeInv, OnceInv, SettledInv, [Next]_vars PROVE SettledInv'
  OBVIOUS
<1>0. /\ errs' = 0 => errs = 0
      /\ Indexed /\ LiveIsAccepted /\ PresenceTypeOK
  BY KeptGrows DEF SettledInv, ChatTypeInv, ChatTypeOK
<1>1. CASE UNCHANGED vars
  <2>1. UNCHANGED <<netVars, errs, queue, worker, handler, accepted, pushed, live, moved>>
    BY <1>1 DEF vars, presenceVars, chatVars, clientVars, histVars
  <2>2. Indexed' /\ LiveIsAccepted'
    BY <1>0, <2>1, IndexedStays DEF LiveIsAccepted
  <2>3. ASSUME NEW m \in accepted, NEW u \in Recipients(m), NEW v \in BOOLEAN, Fate(m, u, v)
        PROVE  Fate(m, u, v)'
    <3>1. u \in Users
      BY RecipientsAreUsers DEF ChatTypeInv, ChatTypeOK
    <3>2. (Settled(u)' <=> Settled(u)) /\ (IsOnline(u)' <=> IsOnline(u))
      BY <2>1, <3>1, SettledStays
    <3>3. (Pends(m, u)' <=> Pends(m, u)) /\ (~Done(m)' => ~Done(m))
      BY <2>1 DEF Pends, Queued, Done
    <3> QED
      BY <2>1, <2>3, <3>2, <3>3, FateFrame
  <2>4. Fates'
    BY <1>0, <2>1, <2>3, FatesKept DEF SettledInv
  <2> QED
    BY <2>2, <2>4 DEF SettledInv
<1>2. ASSUME NEW c \in Channels, Move(c) PROVE SettledInv'
  <2>1. Indexed'
    BY <1>0, <1>2, IndexedStep DEF Move
  <2>2. LiveIsAccepted'
    BY <1>0, <1>2 DEF Move, clientVars, LiveIsAccepted
  <2> QED
    BY <1>0, <1>2, <2>1, <2>2, MoveFates DEF SettledInv
<1>3. CASE ServerCrash
  <2>1. Indexed'
    BY <1>3 DEF ServerCrash, Crash, Indexed
  <2>2. LiveIsAccepted'
    BY <1>0, <1>3 DEF ServerCrash, clientVars, LiveIsAccepted
  <2> QED
    BY <1>0, <1>3, <2>1, <2>2, CrashFates DEF SettledInv
<1>4. ASSUME NEW c \in Channels,
             \/ ChatCheck(c) \/ ChatSend(c)
             \/ WorkerStep(c)
             \/ MailStep(c)
             \/ \E m \in Msgs : ChatEnqueue(c, m)
      PROVE  SettledInv'
  <2>1. UNCHANGED netVars
    BY <1>4, MailOnce
    DEF ChatCheck, ChatSend, ChatEnqueue, WorkerStep, Take, StoreMsg, ReadMembers,
        CheckRecipient, Push, presenceVars
  <2>2. Indexed'
    BY <1>0, <2>1, IndexedStays
  <2>3. accepted \subseteq accepted'
    BY <1>4, MailOnce
    DEF ChatCheck, ChatSend, ChatEnqueue, WorkerStep, Take, StoreMsg, ReadMembers,
        CheckRecipient, Push, histVars
  <2>4. \/ live' = live
        \/ ChatSend(c) /\ live' = live \union ({handler[c].msg} \X Targets(handler[c].msg))
    <3>1. ChatSend(c) => live' = live \union ({handler[c].msg} \X Targets(handler[c].msg))
      BY DEF ChatSend
    <3>2. MailStep(c) => live' = live
      BY MailOnce
    <3>3. ~ChatSend(c) /\ ~MailStep(c) => live' = live
      BY <1>4 DEF ChatCheck, ChatEnqueue, WorkerStep, Take, StoreMsg, ReadMembers,
         CheckRecipient, Push, clientVars
    <3> QED
      BY <3>1, <3>2, <3>3
  <2>5. LiveIsAccepted'
    <3>1. ChatSend(c) => handler[c].msg \in accepted
      BY AnswerOnce
    <3>2. \A p \in live' : p \in live \/ (ChatSend(c) /\ p[1] = handler[c].msg)
      BY <2>4
    <3> QED
      BY <1>0, <2>3, <3>1, <3>2 DEF LiveIsAccepted
  <2>6. Fates'
    BY <1>0, <1>4, AnswerFates, WorkerFates, MailFates, EnqueueFates
  <2> QED
    BY <2>2, <2>5, <2>6 DEF SettledInv
<1>5. Next => \/ ServerCrash
              \/ \E c \in Channels :
                   \/ Move(c)
                   \/ ChatCheck(c) \/ ChatSend(c)
                   \/ WorkerStep(c)
                   \/ MailStep(c)
                   \/ \E m \in Msgs : ChatEnqueue(c, m)
  BY DEF Next, HandlerStep, MailStep
<1> QED
  BY <1>1, <1>2, <1>3, <1>4, <1>5

(* Two checks of the same presence at two times, by two threads: for a      *)
(* recipient who stays as he is they agree, and the message reaches him on  *)
(* a connection or in the mailbox, and not in both.                         *)
(* (ChatReqHandler.handler, BaseAsyncChatMessageProcessor.handler.)         *)
THEOREM SettledGetItOnce == Spec => []SettledExactlyOnce
<1>1. Init => ChatTypeInv /\ OnceInv /\ SettledInv
  BY ChatInitial, OnceInitial, SettledInitial
<1>2. ChatTypeInv /\ OnceInv /\ SettledInv /\ [Next]_vars
        => ChatTypeInv' /\ OnceInv' /\ SettledInv'
  BY ChatTyped, OncePreserved, SettledPreserved
<1>3. ChatTypeInv /\ SettledInv => SettledExactlyOnce
  <2> SUFFICES ASSUME ChatTypeInv, SettledInv, errs = 0, NEW m \in Msgs, NEW u \in Recipients(m),
                      Done(m), KindOf[m] # "unknown", <<u, m>> \notin moved
               PROVE  HasLive(m, u) <=> <<BoxOf(m, u), m>> \notin pushed
    BY DEF SettledExactlyOnce, HasLive
  <2>1. m \in accepted /\ handler[SrcOf[m]].msg # m /\ ~Pends(m, u)
    BY DEF Done, Pends, Queued
  <2>2. PICK v \in BOOLEAN : Fate(m, u, v)
    BY <2>1 DEF SettledInv, Fates
  <2> QED
    BY <2>1, <2>2 DEF Fate
<1> QED
  BY <1>1, <1>2, <1>3, PTL DEF Spec
=============================================================================
