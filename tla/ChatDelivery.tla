---------------------------- MODULE ChatDelivery ----------------------------
(***************************************************************************)
(* A chat message from the packet handler to its recipients.                *)
(*                                                                          *)
(* ChatReqHandler runs in the sender's connection: it queues the packet for *)
(* the connection's MsgQueueRunnable, then looks whether the recipient is   *)
(* online, sends to the recipient's connections and answers the sender.     *)
(* The runnable works behind it in the t-io executor: it takes one packet   *)
(* after another, writes it to the history (STORE) and, for every recipient *)
(* it finds offline, to the recipient's mailbox (PUSH).  MessageReqHandler  *)
(* empties mailboxes for a client that asks for its offline messages.       *)
(*                                                                          *)
(* The two online checks, the write and the read-then-remove of a mailbox   *)
(* are separate steps of threads that share nothing but Redis.  isStore is  *)
(* "on" and the cluster off; isOnline is read in one step here.             *)
(***************************************************************************)
EXTENDS Presence, Sequences

CONSTANTS
  Msgs,      \* chat messages, each with an id and a time of its own
  SrcOf,     \* SrcOf[m]: the connection m comes in on
  KindOf,    \* KindOf[m]: "private", "group" or "unknown" (chatType 2, 1, 0)
  DestOf,    \* DestOf[m]: its `to', or its group_id
  AtZero,    \* the messages whose sender gave them a createTime of 0 or less
  Groups,    \* group ids
  Members,   \* Members[g]: Redis group:<g>:user, which stays as it is here
  KeysLike,  \* <<u, v>>: the text of id u is a prefix of that of id v
  None,      \* stands for null
  MaxFetch   \* bound on the requests for offline messages

\* A mailbox: push:user:<u>:<from> or push:group:<g>:<u>.
Keys == Users \X (Users \union Groups)

ASSUME ChatAssumption ==
  /\ SrcOf \in [Msgs -> Channels]
  /\ KindOf \in [Msgs -> {"private", "group", "unknown"}]
  /\ DestOf \in [Msgs -> Users \union Groups]
  /\ \A m \in Msgs : DestOf[m] \in (IF KindOf[m] = "group" THEN Groups ELSE Users)
  /\ AtZero \in SUBSET Msgs
  /\ Members \in [Groups -> SUBSET Users]
  /\ Users \intersect Groups = {}
  /\ \A u \in Users : <<u, u>> \in KeysLike
  /\ None \notin Msgs
  /\ MaxFetch \in Nat

VARIABLES
  queue,     \* queue[c]: msgQueue of c's MsgQueueRunnable
  worker,    \* worker[c]: where runTask is, see Workers
  handler,   \* handler[c]: where c's packet handler is, see Handlers
  store,     \* messages in the history
  mailbox,   \* mailbox[k]: messages in the mailbox k
  ack,       \* ack[m]: the sender's answer, "none", "success" or "offline"
  live,      \* <<m, c>>: m was sent to the connection c
  got,       \* <<u, k, m>>: a client of u was handed m out of the mailbox k
  fetches,   \* requests for offline messages so far
  \* histories
  accepted,  \* messages queued
  pushed,    \* <<k, m>>: m was written to the mailbox k
  late,      \* <<k, m>>: written while a request was between its read of k
             \*   and its removal of k
  dropped,   \* <<k, m>>: removed from k and not handed out: the connection
             \*   was closed, a read failed or the process died
  shared,    \* <<k, m>>: read while another request had read it and not yet
             \*   removed k
  twice,     \* <<u, k, m>>: handed out more than once
  moved      \* <<u, m>>: u's presence was unsettled while m was under way

clientVars == <<ack, live, got, fetches>>
histVars == <<accepted, pushed, late, dropped, shared, twice, moved>>
chatVars == <<queue, worker, handler, store, mailbox, clientVars, histVars>>
vars == <<presenceVars, chatVars>>

Workers == [pc: {"idle", "store", "members", "check", "push"},
            msg: Msgs \union {None},
            todo: SUBSET Users,             \* recipients still to look at
            to: Users \union {None}]        \* the one found offline

Handlers == [pc: {"idle", "check", "send", "read", "del", "groups", "reply"},
             msg: Msgs \union {None},
             mode: {"none", "friend", "group", "all"},
             keys: SUBSET Keys,             \* mailboxes still to read
             cur: SUBSET Keys,              \* the one read and not yet removed
             buf: SUBSET (Keys \X Msgs),    \* messages for the answer
             ok: BOOLEAN]                   \* FALSE: the read threw or was null

IdleWorker == [pc |-> "idle", msg |-> None, todo |-> {}, to |-> None]
IdleHandler == [pc |-> "idle", msg |-> None, mode |-> "none", keys |-> {},
                cur |-> {}, buf |-> {}, ok |-> TRUE]

ChatTypeOK ==
  /\ PresenceTypeOK
  /\ queue \in [Channels -> Seq(Msgs)]
  /\ worker \in [Channels -> Workers]
  /\ handler \in [Channels -> Handlers]
  /\ store \in SUBSET Msgs
  /\ mailbox \in [Keys -> SUBSET Msgs]
  /\ ack \in [Msgs -> {"none", "success", "offline"}]
  /\ live \in SUBSET (Msgs \X Channels)
  /\ got \in SUBSET (Users \X Keys \X Msgs)
  /\ fetches \in 0 .. MaxFetch
  /\ accepted \in SUBSET Msgs
  /\ pushed \in SUBSET (Keys \X Msgs)
  /\ late \in SUBSET (Keys \X Msgs)
  /\ dropped \in SUBSET (Keys \X Msgs)
  /\ shared \in SUBSET (Keys \X Msgs)
  /\ twice \in SUBSET (Users \X Keys \X Msgs)
  /\ moved \in SUBSET (Users \X Msgs)

Init ==
  /\ PresenceInit
  /\ queue = [c \in Channels |-> <<>>]
  /\ worker = [c \in Channels |-> IdleWorker]
  /\ handler = [c \in Channels |-> IdleHandler]
  /\ store = {}
  /\ mailbox = [k \in Keys |-> {}]
  /\ ack = [m \in Msgs |-> "none"]
  /\ live = {}
  /\ got = {}
  /\ fetches = 0
  /\ accepted = {}
  /\ pushed = {}
  /\ late = {}
  /\ dropped = {}
  /\ shared = {}
  /\ twice = {}
  /\ moved = {}
-----------------------------------------------------------------------------
Recipients(m) == IF KindOf[m] = "group" THEN Members[DestOf[m]] ELSE {DestOf[m]}

\* The mailbox of u that m is pushed to; `from' is the sender's id.
\* (Mutants: filed under the sender's connection; in the sender's own mailbox.)
BoxOf_Connection(m, u) == <<u, SrcOf[m]>>
BoxOf_Sender(m, u) == <<UserOf[SrcOf[m]], DestOf[m]>>

BoxOf(m, u) == <<u, IF KindOf[m] = "group" THEN DestOf[m] ELSE UserOf[SrcOf[m]]>>

\* The connections a live copy of m is sent to.
Targets(m) ==
  IF KindOf[m] = "group"
    THEN {c \in grouped : conn[c] = "open" /\ UserOf[c] \in Members[DestOf[m]]}
    ELSE LiveChannels(DestOf[m])

\* isOnline(u) answers v; it answers FALSE when Redis fails.
Verdict(u, v) ==
  \/ RedisWorks /\ v = IsOnline(u)
  \/ RedisFails /\ v = FALSE

\* u is online with a connection, or offline without one, and no login or
\* close of u is under way.
Settled(u) ==
  /\ IsOnline(u) <=> LiveChannels(u) # {}
  /\ \A c \in Channels :
       UserOf[c] = u => \/ conn[c] = "open" /\ login[c] = "done"
                        \/ conn[c] = "new" /\ ~LoggingIn(c)

Done(m) ==
  LET c == SrcOf[m] IN
  /\ m \in accepted
  /\ handler[c].msg # m
  /\ worker[c].msg # m
  /\ \A i \in DOMAIN queue[c] : queue[c][i] # m

UnderWay == {m \in accepted : ~Done(m)}

\* The entries of a handler's buffer that only the buffer holds.
OnlyIn(buf) == {p \in buf : p[2] \notin mailbox[p[1]]}
-----------------------------------------------------------------------------
(* ChatReqHandler.handler.                                                  *)

\* addMsg and execute; "unknown" is queued and then answered with nothing.
ChatEnqueue(c, m) ==
  /\ conn[c] = "open" /\ handler[c].pc = "idle"
  /\ SrcOf[m] = c /\ m \notin accepted
  /\ queue' = [queue EXCEPT ![c] = Append(@, m)]
  /\ accepted' = accepted \union {m}
  /\ handler' = [handler EXCEPT ![c] =
       CASE KindOf[m] = "private" -> [IdleHandler EXCEPT !.pc = "check", !.msg = m]
         [] KindOf[m] = "group" -> [IdleHandler EXCEPT !.pc = "send", !.msg = m]
         [] OTHER -> IdleHandler]
  /\ moved' = moved \union {<<u, m>> : u \in {v \in Recipients(m) : ~Settled(v)}}
  /\ UNCHANGED <<presenceVars, worker, store, mailbox, clientVars, pushed, late,
                 dropped, shared, twice>>

\* A private message: ChatKit.isOnline(to) decides between the two answers.
ChatCheck(c) ==
  LET m == handler[c].msg IN
  /\ handler[c].pc = "check"
  /\ \E v \in BOOLEAN :
       /\ Verdict(DestOf[m], v)
       /\ handler' = [handler EXCEPT ![c] = IF v THEN [@ EXCEPT !.pc = "send"] ELSE IdleHandler]
       /\ ack' = IF v THEN ack ELSE [ack EXCEPT ![m] = "offline"]
  /\ UNCHANGED <<netVars, queue, worker, store, mailbox, live, got, fetches,
                 histVars>>

\* ImAio.sendToUser or sendToGroup, and the answer "success".
ChatSend(c) ==
  LET m == handler[c].msg IN
  /\ handler[c].pc = "send"
  /\ live' = live \union ({m} \X Targets(m))
  /\ ack' = [ack EXCEPT ![m] = "success"]
  /\ handler' = [handler EXCEPT ![c] = IdleHandler]
  /\ UNCHANGED <<presenceVars, queue, worker, store, mailbox, got, fetches,
                 histVars>>
-----------------------------------------------------------------------------
(* MsgQueueRunnable.runTask with BaseAsyncChatMessageProcessor.handler.     *)
(* The executor runs one runTask of a connection at a time.                 *)

\* (Mutants: the newest packet first; only while the connection is open.)
Take_Newest(c) ==
  /\ worker[c].pc = "idle" /\ queue[c] # <<>>
  /\ worker' = [worker EXCEPT ![c].pc = "store", ![c].msg = queue[c][Len(queue[c])]]
  /\ queue' = [queue EXCEPT ![c] = SubSeq(@, 1, Len(@) - 1)]
  /\ UNCHANGED <<presenceVars, handler, store, mailbox, clientVars, histVars>>
Take_WhileOpen(c) ==
  /\ conn[c] = "open" /\ worker[c].pc = "idle" /\ queue[c] # <<>>
  /\ worker' = [worker EXCEPT ![c].pc = "store", ![c].msg = Head(queue[c])]
  /\ queue' = [queue EXCEPT ![c] = Tail(@)]
  /\ UNCHANGED <<presenceVars, handler, store, mailbox, clientVars, histVars>>

Take(c) ==
  /\ worker[c].pc = "idle" /\ queue[c] # <<>>
  /\ worker' = [worker EXCEPT ![c] = [@ EXCEPT !.pc = "store", !.msg = Head(queue[c])]]
  /\ queue' = [queue EXCEPT ![c] = Tail(@)]
  /\ UNCHANGED <<presenceVars, handler, store, mailbox, clientVars, histVars>>

\* writeMessage(STORE, ...): by now the packet is out of the queue for good.
\* (Mutant: only group messages get a history.)
StoreMsg_GroupOnly(c) ==
  LET m == worker[c].msg
      group == KindOf[m] = "group" IN
  /\ worker[c].pc = "store"
  /\ store' = IF group THEN store \union {m} ELSE store
  /\ worker' = [worker EXCEPT ![c] =
       IF group THEN [@ EXCEPT !.pc = "members"]
         ELSE [@ EXCEPT !.pc = "check", !.todo = {DestOf[m]}]]
  /\ UNCHANGED <<presenceVars, queue, handler, mailbox, clientVars, histVars>>

StoreMsg(c) ==
  LET m == worker[c].msg IN
  /\ worker[c].pc = "store"
  /\ \/ RedisWorks /\ store' = store \union {m}
     \/ RedisFails /\ UNCHANGED store
  /\ worker' = [worker EXCEPT ![c] =
       IF KindOf[m] = "group" THEN [@ EXCEPT !.pc = "members"]
         ELSE [@ EXCEPT !.pc = "check", !.todo = {DestOf[m]}]]
  /\ UNCHANGED <<netVars, queue, handler, mailbox, clientVars, histVars>>

\* The worker with the recipients s still to look at; with none it is idle.
\* (Mutant: the loop ends after the first recipient.)
WorkerWith_First(w, s) == IdleWorker
WorkerWith(w, s) == IF s = {} THEN IdleWorker
                    ELSE [w EXCEPT !.pc = "check", !.todo = s, !.to = None]

\* getGroupUsers; a failed read answers null, and the loop over it throws.
ReadMembers(c) ==
  /\ worker[c].pc = "members"
  /\ \/ RedisWorks /\ worker' = [worker EXCEPT ![c] = WorkerWith(@, Members[DestOf[@.msg]])]
     \/ RedisFails /\ worker' = [worker EXCEPT ![c] = IdleWorker]
  /\ UNCHANGED <<netVars, queue, handler, store, mailbox, clientVars, histVars>>

\* isOnline of the next recipient.
\* (Mutant: everybody's mailbox is written.)
CheckRecipient_All(c) ==
  /\ worker[c].pc = "check"
  /\ \E u \in worker[c].todo :
       worker' = [worker EXCEPT ![c] = [@ EXCEPT !.pc = "push", !.to = u]]
  /\ UNCHANGED <<presenceVars, queue, handler, store, mailbox, clientVars, histVars>>

CheckRecipient(c) ==
  /\ worker[c].pc = "check"
  /\ \E u \in worker[c].todo, v \in BOOLEAN :
       /\ Verdict(u, v)
       /\ worker' = [worker EXCEPT ![c] =
            IF v THEN WorkerWith(@, @.todo \ {u}) ELSE [@ EXCEPT !.pc = "push", !.to = u]]
  /\ UNCHANGED <<netVars, queue, handler, store, mailbox, clientVars, histVars>>

\* writeMessage(PUSH, ...).
Push(c) ==
  LET w == worker[c]
      k == BoxOf(w.msg, w.to) IN
  /\ w.pc = "push"
  /\ \/ /\ RedisWorks
        /\ mailbox' = [mailbox EXCEPT ![k] = @ \union {w.msg}]
        /\ pushed' = pushed \union {<<k, w.msg>>}
        /\ late' = IF \E d \in Channels : k \in handler[d].cur
                     THEN late \union {<<k, w.msg>>} ELSE late
     \/ RedisFails /\ UNCHANGED <<mailbox, pushed, late>>
  /\ worker' = [worker EXCEPT ![c] = WorkerWith(@, @.todo \ {w.to})]
  /\ UNCHANGED <<netVars, queue, handler, store, clientVars, accepted, dropped,
                 shared, twice, moved>>
-----------------------------------------------------------------------------
(* MessageReqHandler.handler with type 0, and RedisMessageHelper.  The user *)
(* id comes with the request; here it is the connection's own.              *)

Fetch(c, mode, keys, pc) ==
  /\ conn[c] = "open" /\ handler[c].pc = "idle"
  /\ fetches < MaxFetch /\ fetches' = fetches + 1
  /\ handler' = [handler EXCEPT ![c] =
       [IdleHandler EXCEPT !.pc = pc, !.mode = mode, !.keys = keys]]
  /\ UNCHANGED <<netVars, queue, worker, store, mailbox, ack, live, got, histVars>>

FetchFriend(c, f) == RedisWorks /\ Fetch(c, "friend", {<<UserOf[c], f>>}, "read")
FetchGroup(c, g) == RedisWorks /\ Fetch(c, "group", {<<UserOf[c], g>>}, "read")

\* KEYS push:user:<id>*: a mailbox exists while it holds something.
BoxesLike(u) ==
  {k \in Users \X Users : <<u, k[1]>> \in KeysLike /\ mailbox[k] # {}}

\* All mailboxes: the friends' first; without any, the groups' at once.  When
\* KEYS throws the answer is null and nothing is touched.
FetchAll(c) ==
  LET ks == BoxesLike(UserOf[c]) IN
  \/ RedisWorks /\ Fetch(c, "all", ks, IF ks = {} THEN "groups" ELSE "read")
  \/ RedisFails /\ Fetch(c, "none", {}, "idle")

\* The handler after one mailbox: the keys ks are left.
\* (Mutant: the list of results is made anew for every mailbox.)
NextBox_NewList(h, ks, friend) ==
  [h EXCEPT !.keys = ks, !.cur = {}, !.buf = {},
            !.pc = IF ks # {} THEN "read"
                   ELSE IF h.mode = "all" /\ friend THEN "groups" ELSE "reply"]

NextBox(h, ks, friend) ==
  [h EXCEPT !.keys = ks, !.cur = {},
            !.pc = IF ks # {} THEN "read"
                   ELSE IF h.mode = "all" /\ friend THEN "groups" ELSE "reply"]

\* ... or on its way to remove the mailbox k, out of which it read p.
Removing(h, k, ok, p) ==
  [h EXCEPT !.pc = "del", !.cur = {k}, !.ok = ok, !.buf = @ \union p]

\* sortSetGetAll: the scores from the least positive number on.  A friend's
\* mailbox is removed next whatever the read gave; a group's only if it gave
\* something.
ReadBox(c) ==
  /\ handler[c].pc = "read"
  /\ \E k \in handler[c].keys :
       LET box == {k} \X (mailbox[k] \ AtZero)
           becomes(h) == handler' = [handler EXCEPT ![c] = h] IN
       \/ /\ RedisWorks /\ (k[2] \in Users \/ box # {})
          /\ becomes(Removing(handler[c], k, TRUE, box))
          /\ shared' = shared \union {p \in box : \E d \in Channels : p \in handler[d].buf}
       \/ /\ RedisFails /\ k[2] \in Users
          /\ becomes(Removing(handler[c], k, FALSE, {}))
          /\ UNCHANGED shared
       \/ /\ k[2] \in Groups
          /\ (RedisWorks /\ box = {}) \/ RedisFails
          /\ becomes(NextBox(handler[c], handler[c].keys \ {k}, FALSE))
          /\ UNCHANGED shared
  /\ UNCHANGED <<netVars, queue, worker, store, mailbox, clientVars, accepted, pushed,
                 late, dropped, twice, moved>>

\* pushCache.remove.  After a failed read the request ends here: toArray gave
\* null, so the answer is null or addAll throws, and what was read is gone.
\* (Mutant: nothing is removed.)
DelBox_Keeps(c) ==
  /\ handler[c].pc = "del" /\ RedisWorks
  /\ \E k \in handler[c].cur :
       handler' = [handler EXCEPT ![c] = NextBox(@, @.keys \ {k}, k[2] \in Users)]
  /\ UNCHANGED <<netVars, queue, worker, store, mailbox, clientVars, histVars>>

DelBox(c) ==
  /\ handler[c].pc = "del"
  /\ \E k \in handler[c].cur :
       /\ \/ RedisWorks /\ mailbox' = [mailbox EXCEPT ![k] = {}]
          \/ RedisFails /\ UNCHANGED mailbox
       /\ IF handler[c].ok
            THEN /\ handler' = [handler EXCEPT ![c] =
                      NextBox(@, @.keys \ {k}, k[2] \in Users)]
                 /\ UNCHANGED dropped
            ELSE /\ handler' = [handler EXCEPT ![c] = IdleHandler]
                 /\ dropped' = dropped \union OnlyIn(handler[c].buf)
                      \union ({k} \X (mailbox[k] \ mailbox'[k]))
  /\ UNCHANGED <<netVars, queue, worker, store, clientVars, accepted, pushed, late,
                 shared, twice, moved>>

\* userCache.listGetAll(<user>:group); a failed read leaves the groups out.
ReadGroups(c) ==
  LET boxes == {<<UserOf[c], g>> : g \in {h \in Groups : UserOf[c] \in Members[h]}}
      after(ks) == [handler EXCEPT ![c] = NextBox(@, ks, FALSE)] IN
  /\ handler[c].pc = "groups"
  /\ \/ RedisWorks /\ handler' = after(boxes)
     \/ RedisFails /\ handler' = after({})
  /\ UNCHANGED <<netVars, queue, worker, store, mailbox, clientVars, histVars>>

\* The answer goes out, if there is still a connection to send it on.
FetchReply(c) ==
  LET buf == handler[c].buf
      new == {<<UserOf[c], p[1], p[2]>> : p \in buf} IN
  /\ handler[c].pc = "reply"
  /\ handler' = [handler EXCEPT ![c] = IdleHandler]
  /\ IF conn[c] = "open"
       THEN /\ got' = got \union new
            /\ twice' = twice \union (got \intersect new)
            /\ UNCHANGED dropped
       ELSE /\ dropped' = dropped \union OnlyIn(buf)
            /\ UNCHANGED <<got, twice>>
  /\ UNCHANGED <<presenceVars, queue, worker, store, mailbox, ack, live, fetches,
                 accepted, pushed, late, shared, moved>>
-----------------------------------------------------------------------------
\* Presence moves on beside all this; a slot is connected again only when its
\* old handler and queue are done.
Move(c) ==
  /\ PresenceStep(c)
  /\ conn'[c] = "open" /\ conn[c] = "new" =>
       handler[c].pc = "idle" /\ worker[c].pc = "idle" /\ queue[c] = <<>>
  /\ moved' = moved \union ({UserOf[c]} \X UnderWay)
  /\ UNCHANGED <<queue, worker, handler, store, mailbox, clientVars, accepted, pushed,
                 late, dropped, shared, twice>>

\* Queues, workers and handlers die with the process.
ServerCrash ==
  /\ Crash
  /\ queue' = [c \in Channels |-> <<>>]
  /\ worker' = [c \in Channels |-> IdleWorker]
  /\ handler' = [c \in Channels |-> IdleHandler]
  /\ dropped' = dropped \union UNION {OnlyIn(handler[c].buf) : c \in Channels}
  /\ moved' = moved \union (Users \X UnderWay)
  /\ UNCHANGED <<store, mailbox, clientVars, accepted, pushed, late, shared,
                 twice>>

HandlerStep(c) == ChatCheck(c) \/ ChatSend(c) \/ ReadBox(c) \/ DelBox(c)
                  \/ ReadGroups(c) \/ FetchReply(c)
WorkerStep(c) == Take(c) \/ StoreMsg(c) \/ ReadMembers(c) \/ CheckRecipient(c) \/ Push(c)

Next ==
  \/ ServerCrash
  \/ \E c \in Channels :
       \/ Move(c) \/ HandlerStep(c) \/ WorkerStep(c) \/ FetchAll(c)
       \/ \E m \in Msgs : ChatEnqueue(c, m)
       \/ \E f \in Users : FetchFriend(c, f)
       \/ \E g \in Groups : FetchGroup(c, g)

Spec == Init /\ [][Next]_vars

\* The executor runs a task whose queue holds a packet, and goes on with it.
FairSpec == Spec /\ \A c \in Channels : WF_vars(WorkerStep(c))
-----------------------------------------------------------------------------
(* No message is handed to a client that is not in the history: with no     *)
(* failed write, what the mailboxes give out is part of what the timelines  *)
(* keep.  (The order of the writes in BaseAsyncChatMessageProcessor.)       *)
MailIsHistory ==
  errs = 0 =>
    /\ \A r \in got : r[3] \in store
    /\ \A c \in Channels : \A p \in handler[c].buf : p[2] \in store

(* A message written to a mailbox stays there, is on its way to a client or *)
(* has been handed out, unless it was written between another thread's read *)
(* and removal of the same mailbox, or the answer that carried it was lost  *)
(* with a connection, a failed read or the process, or its createTime is    *)
(* not positive: there is no other way to lose mail.                        *)
(* (RedisMessageHelper.getFriendsOfflineMessage and getGroupOfflineMessage, *)
(* several of them at a time, against the push.)                            *)
MailKept(p) ==
  \/ p[2] \in mailbox[p[1]]
  \/ \E c \in Channels : p \in handler[c].buf
  \/ \E u \in Users : <<u, p[1], p[2]>> \in got
  \/ p \in late \union dropped
PushKept == \A p \in pushed : MailKept(p) \/ p[2] \in AtZero

(* When no user id is a prefix of another, a client is handed only messages *)
(* out of its user's own mailboxes, and only ones addressed to that user.   *)
OwnMailOnly == \A r \in got : r[1] = r[2][1] /\ r[1] \in Recipients(r[3])
PrefixFree == \A u, v \in Users : <<u, v>> \in KeysLike => u = v
OwnMail == PrefixFree => OwnMailOnly

(* A recipient whose presence is settled from the moment a message is       *)
(* queued until both threads are done with it has it in exactly one way: on *)
(* a connection if online, in the mailbox if not.  What the two separate    *)
(* online checks (ChatReqHandler, then BaseAsyncChatMessageProcessor) can   *)
(* lose or double is lost or doubled by a move of the recipient between     *)
(* them, or by a Redis failure.                                             *)
SettledExactlyOnce ==
  errs = 0 =>
    \A m \in Msgs : \A u \in Recipients(m) :
      Done(m) /\ KindOf[m] # "unknown" /\ <<u, m>> \notin moved =>
        ((\E c \in Channels : UserOf[c] = u /\ <<m, c>> \in live)
           <=> <<BoxOf(m, u), m>> \notin pushed)

(* However many devices ask at once, and whatever their users' ids, a       *)
(* message is handed out twice only when one of them read it after another  *)
(* had read it and before that one removed it, as long as Redis does not    *)
(* fail.  (RedisMessageHelper: every read that found something is followed  *)
(* by a removal.)                                                           *)
HandedOnce == errs = 0 => \A r \in twice : <<r[2], r[3]>> \in shared

(* What the README promises of the built-in persistence: with no failure    *)
(* and no crash, a private message is delivered live, waits in the mailbox  *)
(* or has been handed over once both threads are done with it.              *)
Reliable ==
  errs = 0 /\ crashes = 0 =>
    \A m \in Msgs :
      Done(m) /\ KindOf[m] = "private" =>
        LET k == BoxOf(m, DestOf[m]) IN
        \/ \E c \in Channels : <<m, c>> \in live
        \/ m \in mailbox[k]
        \/ \E c \in Channels : <<k, m>> \in handler[c].buf
        \/ \E u \in Users : <<u, k, m>> \in got

(* The history behaves as Timeline says.  A message the worker has taken    *)
(* and not yet written is still pending.                                    *)
Pending == [c \in Channels |->
  IF worker[c].pc = "store" THEN <<worker[c].msg>> \o queue[c] ELSE queue[c]]

TL == INSTANCE Timeline WITH pending <- Pending, stored <- store

HistoryInOrder == TL!Spec

(* Every accepted message reaches the history, unless its write fails or    *)
(* the process dies first: the executor does not forget a queue.            *)
AcceptedIsStored ==
  \A m \in Msgs : m \in accepted ~> m \in store \/ errs > 0 \/ crashes > 0
=============================================================================
