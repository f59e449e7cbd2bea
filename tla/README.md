# A verification project for J-IM

J-IM is an instant-messaging server in Java on top of t-io (an AIO framework) with Redis for
everything that is to survive the process. This directory holds TLA+ modules that model it, TLC
configurations that check them on small instances, and TLAPS proofs. Paths below are relative to
`src/`; S stands for `jim-server/src/main/java/org/jim/server`, C for
`jim-common/src/main/java/org/jim/common`.

## The system

### How a packet travels

t-io reads bytes of a connection (`ChannelContext`). `S/handler/ImServerAioHandler.decode` picks a
protocol handler (TCP, WebSocket or HTTP) by what the first read holds and gives the connection a
`MsgQueueRunnable`. The protocol handler decodes a packet and hands it to the command handler of
its command number. Handlers run one after another for one connection and in parallel for
different ones. A chat message is answered by its handler and persisted later by the queue's
worker in another executor. A connection that drops is closed by t-io on yet another thread, which
calls `onBeforeClose` and then takes the connection out of its indexes.

### Components

| component | state | operations | hard behaviour | what makes it correct |
|---|---|---|---|---|
| Presence: `S/command/handler/LoginReqHandler`, `CloseReqHandler`, `S/listener/ImServerAioListener`, `S/helper/redis/RedisImBindListener` | t-io's user index; Redis `user:<id>:terminal:<t>` | login (doLogin, bindUser, onAfterUserBind, groups), close (onBeforeClose, unbind) | login against close of the same connection, two devices, crash, failing Redis | a user is online exactly when it has a connection |
| Chat delivery: `ChatReqHandler`, `MsgQueueRunnable`, `BaseAsyncChatMessageProcessor`, `C/ImAio` | queue and worker per connection, Redis `store:*` and `push:*` | enqueue, answer, live send, write history, write mailbox | two online checks at different times on two threads, crash with a queue in memory | every message is stored once and in order, and reaches its recipient in exactly one way |
| Offline messages: `MessageReqHandler`, `RedisMessageHelper` | Redis `push:*` | read and remove one friend's, one group's or all mailboxes | read and remove are two calls, several devices and the worker at once, failing calls | mail is handed out, to its owner, once |
| History | Redis `store:*` | append, page | worker thread against connections | FIFO per sender |
| Group membership: `JoinGroupReqHandler`, `RedisImBindListener`, `LoginReqHandler.bindUnbindGroup`, `ImAio.bindGroup/unbindGroup` | Redis `group:<g>:user`, `user:<u>:group`, t-io's group index | join, leave, reconcile at login | check-then-push on two lists, concurrent logins of a user | the two lists agree |
| Two-level cache: `C/cache/caffeineredis`, `caffeine`, `redis` | L1 per node, L2, topic, write-behind queue | get, put, remove, clear, putL2Async, invalidation | fill against invalidation, two asynchronous puts that cross, lost messages, keys with a colon | no node keeps a stale value for ever |
| Expiry task: `RedisExpireUpdateTask` | its queue and batch, the entries' time to live | get, put, the task's loop | failing batches | an entry that is read stays |
| Lock: `C/cache/redis/RedisLock`, `JedisTemplate` | Redis `<key>_lock`, the connection pool | lock, unlock, the two list operations under it | crash between setnx and expire, slow holder, two connections per call | one holder; nobody waits for ever |
| Cluster: `C/cluster`, `ImAio.sendToUser/Group/Ip` | topic | publish, receive, send locally | users that move, loops, losses | each connection gets one copy |
| Protocol detection, handshake | session context | choice, handshake, decode | requests cut anywhere, decoding and handlers on two threads | a connection gets the protocol it speaks |
| Codecs: `C/ws`, `C/tcp` | `lastParts` of a WebSocket connection | encode, decode | partial buffers, fragments, control frames between them | decode inverts encode |
| HTTP server: `S/http`, `S/util/HttpResps` | sessions, static-file cache | request, session, static file | files that change, sessions and cookies that end, overlapping requests | "not modified" is true; a session is found again |
| Date formatting of the demo page: `date.js` | the text being formatted | one replacement per field | a field in the text of another | fields stand where the pattern has them |
| Helper queries `RedisMessageHelper.getUserByAllTerminal` ...; TLS peer of the example client; configuration, packet classes, the rest of the demo | | | | |

Presence and delivery share Redis' terminal entries (delivery asks, presence writes), t-io's
indexes (presence writes, delivery sends through them) and the failing Redis. Delivery and the
requests for offline messages share the mailboxes; membership decides which of a group's mailboxes
are written, and removes one when its user leaves. Cluster dispatch is what `ImAio.sendToUser` and
`sendToGroup` add to delivery when there is more than one node. The other parts meet only through
whole calls, and each has a module that stands alone.

`PROJECT.json` lists every hazard at its line, with the properties that watch it.

## Modules

| module | what it is |
|---|---|
| `Presence` | connections, login, close, terminal entries |
| `ChatDelivery` | extends `Presence`: chat messages and offline messages |
| `Timeline` | abstract: what the server promises of its history |
| `Membership` | the two membership lists, joins, the reconciliation at login, the fan-out |
| `TwoLevelCache` | Caffeine over Redis on several nodes, the topic, the write-behind queue |
| `ExpireTask` | how reading an entry is to keep it in Redis |
| `RedisLock` | the lock, its pool, and the two list operations under it |
| `ClusterDispatch` | a packet to a user or group on several nodes |
| `NetBytes`, `WsCodec`, `TcpFraming` | numbers on the wire; the WebSocket and the TCP codec |
| `ProtocolChoice` | a connection from its first bytes to its handshake and first packets |
| `StaticRes`, `HttpSessions` | static files and their cache; the session cookie |
| `DateFormat` | `Date.prototype.Format` of the demo page |
| `MCPresence`, `MCChatDelivery`, `MCMembership`, `MCCache`, `MCParts` | model values for TLC; `MCParts` runs nine components that share no state, one per behaviour |
| `PresenceProofs`, `ChatDeliveryProofs`, `MembershipProofs`, `TwoLevelCacheProofs` | theorems of the module of that name |
| `RedisProofs` | theorems of `RedisLock`, `ExpireTask` and `ClusterDispatch` |
| `WireProofs` | theorems of `NetBytes`, `WsCodec`, `TcpFraming`, `ProtocolChoice`, `StaticRes` and `HttpSessions` |
| `DateProofs` | theorems of `DateFormat` |
| `PartsProofs` | the types of what `MCParts` puts side by side, from the theorems of three of the above |

### Presence

A connection slot `c` has a fixed user and protocol (`UserOf`, `TerminalOf`). `conn` follows
t-io's view of it: `new`, `open`, `closing` (between `onBeforeClose` and the removal from the
indexes). `login` is the program counter of `LoginReqHandler.handler`: it writes the user into the
session, `bindUser` puts the connection in the index (`bound`), `onAfterUserBind` writes `online`,
`bindUnbindGroup` puts it in the group index (`grouped`). Each is an action, because between them
the close task of the same connection may run, and the handler never looks. `PutTerminal` is
`initUserTerminal`: it asks `channelContext.getUserid()`, which is only there while the connection
is bound. `raced` is a history variable: the slots whose last close found their login handler at
work. A Redis call works or fails (`RedisWorks`, `RedisFails`); a failed one loses its effect and
the caller goes on, as `RedisCache` catches and logs every exception.

Slots are used again once they are `new`; a slot with an old login handler still at work or an old
entry in the index is not (t-io makes a new context; another slot stands for it).

Two devices of one user that speak the same protocol share one terminal entry
(`ImServerAioListener:87`): the one that closes writes `offline` for the other as well.
`LoggedInIsOnline` therefore speaks of devices with terminals of their own.

### ChatDelivery

`handler[c]` is the command handler at work on connection `c`, `worker[c]` the `runTask` of its
`MsgQueueRunnable`, `queue[c]` the queue. Every Redis call is an action of its own:

    ChatReqHandler                ChatEnqueue, ChatCheck, ChatSend
    MsgQueueRunnable + BaseAsync  Take, StoreMsg, ReadMembers, CheckRecipient, Push
    MessageReqHandler, type 0     FetchFriend / FetchGroup / FetchAll, ReadBox, DelBox,
                                  ReadGroups, FetchReply

A mailbox is a set of messages (a sorted set in Redis: a message pushed twice is one member).
`live` is what was sent to an open connection, `got` what a client was handed out of a mailbox.
The history variables `late`, `dropped`, `twice`, `shared` and `moved` name the circumstances under
which mail is lost or doubled, so that the invariants can say that there are no others: `late` for
a push between another's read and removal, `shared` for a message that two requests held at once.

Abstractions, all deliberate:

* `isOnline` reads a user's terminal entries in one step (the code reads KEYS, then one entry after another);
* the sender id is the connection's own user and a request for offline messages names the
  connection's own user (both come with the packet in the code);
* the members of a group and the group index of a logged-in user are fixed here: `Membership` moves them;
* a message counts as delivered once it is sent to an open connection;
* one handler of a connection at a time (t-io queues them; the exception is a TCP packet with a
  sequence number, which is handled inside `decode`);
* `isStore` is "on", the cluster is off, the body is well formed, the user's `doHandler` does nothing.

`AtZero` are the messages whose sender gave them a `createTime` of 0 or less: reading a mailbox
skips them (`Double.MIN_VALUE` is the least positive double), removing it does not.

### Timeline

Three variables: what was accepted, what is pending per sender, what is stored. `Accept` appends,
`Settle` writes the oldest or loses it (a failed write), `Crash` empties the queues.
`ChatDelivery!HistoryInOrder` says that delivery implements it, with the message the worker has
polled and not yet written still counted as pending.

### Membership

Redis holds membership twice, `members[g]` (`group:<g>:user`) and `groupsOf[u]`
(`user:<u>:group`), both lists that may hold an element twice; their order matters to nobody, so
a list is modelled by how often each element is in it. `job[s]` is the join or login
handler at work on the connection `s`; every Redis call is an action again:

    LoginReqHandler.bindUnbindGroup   Login, ReadList, then per granted group Bind .. AddGroup,
                                      then per stale group DropMember, DropGroup, DropBox; Finish
    JoinGroupReqHandler               Join, Bind .. AddGroup, Finish
    RedisImBindListener, bind         ReadMembers, AddMember, ReadGroups, AddGroup
    RedisImBindListener, unbind       DropMember, DropGroup, DropBox
    pushGroupMessages                 FanStart, FanRead, FanPush

`Login` takes any set of groups as doLogin's answer and `Refuse` lets a group processor refuse any
of them. `Stale` is what the code computes, with its quirk: `groupIds.remove(group)` takes out one
occurrence, so a group that is listed twice is stale though it was asked for; and a group that was
asked for and refused is not, so a membership that is no longer granted may stay. `Close` unbinds
the connection at any step of its own handler; the bind listener then finds no user id and leaves
Redis alone. The histories `crowd` and `crossed` record whose handlers met, `last` what the last
login, with the joins since, was granted, `stray` the mailboxes written for someone who had
already left. `ImAio.unbindGroup`, `addGroupUser` and `removeGroupUser` have no caller in the
server and are left out; the presence of a member is a free choice in `FanPush`.

### TwoLevelCache

`l1[n]` is a node's Caffeine cache, `l2` Redis, `op[t]` the call a thread is in. A writing call
goes through three steps, as the code's three statements: its own L1 (`Put`, `Remove`, `Clear`), then L2
(`WriteL2`), then the topic (`Publish`). `GetMiss` reads L2, `Fill` puts what was read into L1.
`putL2Async` is two statements, L1 (`PutAsync`) and the queue's `add` (`Enqueue`), with room for other
threads between them; it leaves the rest to `RedisAsyncRunnable`, whose loop is `Poll`,
`FlushStart` (only when the queue has run empty), `WriteBatch` and `PublishBatch`; a publication
that fails keeps the batch, which is then written once more. `chan[n]` are messages on their way
to a node's subscriber. `OnMessage` drops the key, unless the message is the node's own;
`reads` says what a subscriber makes of a message about a key with a colon in it: the type does not
parse (`Misread`: that ends the subscription and loses what stands behind it), or the second part of
the key is a number and is taken for the type (`Mistaken`: another key, all or none are dropped, even
by the sender, and the subscription goes on); `Resubscribe` is the loop of `SubRunnable`, which leaves L1 as it is.

`spoilt` is a history variable: the pairs of node and key whose entry one of the races or losses
has made wrong for as long as it lives. Every action that can do so says when: a fill with what
was read before a write, or during one of the node's own; a put while another of the node is under
way; a `putL2Async` that finds another entry in L1 when it comes to queue its own (`Crossed`); a
message or a write that was lost or misread; an entry that outlives its entry in Redis. The crossing
is real: two threads of a node put first v1, then v2, and queue v2, then v1. Redis ends with v1, the
node ignores its own message and keeps v2 as long as the entry lives. It is not marked when the thread
that wrote the other entry has still to queue it, since that comes last and makes Redis right. Without
the mark in `Enqueue`, TLC finds `CoherentAtRest` violated in `MCCache`.
`CoherentAtRest` says that there are no other ways, `StaleIsTemporary` that the rest heals.
Entries hold the number of the call that wrote them. A `get` hit changes nothing here; what it
does to the expiry is `ExpireTask`.

### ExpireTask

One cache registered with an idle time, one node, time in ticks. `PutEntry`, `GetEntry` for the
cache's calls, `PollKey` and `Flush` for the task's loop, `Tick` for time. Redis names are kept
apart: `CacheKey(k)`, under which entries are stored, and `BareKey(k)`, for which the task sends
EXPIRE. `owed` are the keys read since Redis last took an EXPIRE for them.

### RedisLock

`pc[t]` walks through `insertListIfNotExists` ("insert") or `batchListPushTail` with `delOld`
("replace"): the Executor's connection (`First`), the lock's (`Second`), `SetNx`, `SetExpire`, the
list's commands one by one, `Unlock`. `GiveUp` is the lock's timeout, whose answer FALSE both
callers ignore. `free` and `leaked` count a process' pooled connections; `LockThrows` is a failing
`lock()`, called outside the `try`. `KeyExpires` may come at any time after `SetExpire`: a holder may work for
longer than the three minutes. The histories `expired` and `torn` say when the lock has stopped to
protect: a key has expired, or a call worked without owning the key, or wrote half.

### ClusterDispatch

`SendLocal` is the loop over the node's own connections, `Publish` the `finally` block (or the
branch without connections), `OnMessage` the listener of another node. A connection has one node;
a user who moves is one connection that ends and one that begins. The topic loses what is
published while it is unreachable (`Publish`, second way) or while a listener is away (`Miss`),
and does not keep the order (`inbox` is a set). `stayed[p]` are the connections that were there
when the call began and have been ever since: only these are promised the packet.

### WsCodec, TcpFraming, NetBytes

`WsCodec` sends messages in frames, with empty payloads, control and close frames in between;
`LastParts` and `Body` are what `WsServerDecoder` keeps and gives. A payload is an abstract piece
and a body the sequence of its pieces. `harmed` are the messages that cannot be read: those that
end in an empty frame, those sent while its parts are left over, those with a control frame's
payload in them. `EncodeHead` and `DecodeHead` work on bytes, since their property is about the
conversion; an answer's length is one of the boundaries of the three classes.

`TcpFraming` encodes packets to bytes, cuts the stream anywhere and decodes it with the code's two
looks (`isHeaderLength`, then the head proper). Both forms of the head occur, with and without a
sequence number; the flag for the latter clears the encryption bit with it, as the code does. A packet
without a body has an empty one: with a null body, whose length the encoder takes for 0
(`TcpServerEncoder.java:23`), it throws at `buffer.put` (line 66) and nothing is sent.

### ProtocolChoice

A client opens with a TCP packet, a request, or a request with a WebSocket key; the network cuts
it anywhere; the first call of `decode` chooses (`Choice`, with `Headers` for what
`HttpRequestDecoder` makes of a part of a request) and the choice is never made again.
`ReadDecode` is the reading thread, `Shake` and `AnswerJob` the handlers' thread. The order of the
protocols' tests does not matter: `Choice` gives each text to at most one. Requests have no body here.

### StaticRes, HttpSessions

`StaticRes` follows one path: a request looks in the cache (`LookUp`), or reads the file's date
(`ReadDate`), its bytes (`ReadBytes`), its date once more (`DateAgain`) and puts an entry
(`PutCached`), or does not when the browser takes no gzip (`SendOnly`). The file changes at any
point, and each change gives it a later date. That a compressed body from the cache may also be
sent to a browser that takes no gzip is outside this model.

`HttpSessions` follows a browser's cookie through `processCookieBeforeHandler` and
`processCookieAfterHandler`, with a store that drops sessions at any time, requests that overlap,
and handlers that put their session by setting an attribute. The cookie's Max-Age is the session
timeout, set once, when the session is made; the store's time is the same but counts from the last
use (`HttpProtocolHandler.java:55`). So a browser that stays active drops the cookie of a session that
lives, and its next request gets a new one: `CookieEnds`, which asks nothing of the store. There are no clocks:
either end may come at any point, earlier than the code's too, which only adds behaviours. The cookie's Domain
is the request's `Host`, the port included, and browsers refuse a Domain with a port: `keeps` are
those that take it. `SessionFollows` names both ways out and shows there is no third.

### DateFormat

`Format` as the script computes it, one field after another in the text that holds the earlier
ones: `YearStep`, then one `KeyStep` per key of `o` in its order. Only the first run of a letter is
replaced, the year is cut from the left, the others are padded to two digits by their own length,
and "S" is sought without a `+`.

## Runs

| run | instance | shows |
|---|---|---|
| `MCPresence` | two devices of one user, with different protocols, one of another; one failure, one crash | `LoggedInIsOnline`, `GoneIsOffline`, `IndexIsConnected` |
| `MCPresenceGhost` | no failure, no crash | violated: close before bindUser leaves the user online for ever |
| `MCChatMailbox` | a private message to a user with two devices, one of which comes and goes; requests in any mode, one failure | `SettledExactlyOnce`, `MailIsHistory`, `HandedOnce`, `PushKept` |
| `MCChatGroup` | a group of two, one of them comes and goes; one failure, one crash, one request | `OwnMail`, `SettledExactlyOnce` |
| `MCChatHistory` | a group message and one of unknown type and dated 0, one failure, one crash | `HistoryInOrder` (refinement), `AcceptedIsStored` (liveness), `PushKept` |
| `MCChatPrefix` | one user id is a prefix of another | violated: the other's mail is handed out and removed |
| `MCChatReliable` | one message, the recipient logs in meanwhile | violated: neither live nor in the mailbox |
| `MCMembership` | one user, two devices, two groups; two logins or joins, a group message, one failure | `ListsAgree`, `LoginReconciles`, `OutsiderHasNoMail` |
| `MCMembershipTwice` | two devices, one group, three logins or joins | violated: a group that two devices joined at once is listed twice, and the next login removes the membership it was just granted |
| `MCCache` | two threads in one node or in two, one key, read right, misread or mistaken by subscribers; two writes, one fault | `CoherentAtRest`, `StaleIsTemporary`, `AsyncIsFlushed` |
| `MCParts` | nine components, one per behaviour, see below | sixteen invariants, `CallsReturn` and `ComesToRest` |
| `MCExpire` | one key, an idle time of two ticks | violated: an entry that is read is gone from Redis when its first idle time is over |

In `MCParts` the variable `part` says which component the behaviour is about; the others stay in
their initial states. The state space is the sum of the nine, and every action of each is taken.

| part | instance | shows |
|---|---|---|
| date | eight patterns, six dates at the edges of their fields | `FieldsInPlace`, `SortsAsDates` |
| ws | three messages of up to two pieces, five frames; eight lengths at the edges of the classes | `HandedWhole`, `LengthSurvives` |
| tcp | two packets, three sequence numbers, two commands, bodies of 0 and 2 bytes, every cut | `StreamIsPackets` |
| expire | two keys, one failing batch | `NoReadIsLost` |
| lock | two threads of one process and one of another, pools of two, two calls, one fault | `LockIsKept`, `ListIsOneCalls`, `PoolIsWhole`, `KeyGetsExpiry`, `CallsReturn` |
| cluster | two nodes, three connections, a packet to a user and one to a group, one loss, each mode on or off | `AtMostOneCopy`, `StayersHaveIt`, `ComesToRest` |
| choice | each protocol, two frames, every cut | `FirstReadDecides` |
| static | two browsers, one change of the file | `NotModifiedIsTrue` |
| session | one browser with two requests, three sessions; it takes cookies or not | `SessionFollows` |

The type invariant of a module is checked in its first run; those of the parts are the conjuncts of
`PartsTypeOK`. The order of two messages of a sender is in `MCChatHistory`; elsewhere one message is
followed on its own.

Bounds: two or three connections, users, threads or nodes are enough for every race the code has
room for, since each is between two threads (login and close, handler and worker, reader and
pusher, fill and invalidation, holder and next holder) or two devices; two writes are needed for a
stale value, two messages for order. `MaxErrs`, `MaxFaults`, `MaxLosses`, `MaxBreaks`,
`MaxCrashes`, `MaxFetch`, `MaxCalls`, `MaxSent`, `MaxFrames`, `MaxEdits` and `MaxSessions` bound
the failing Redis calls, the crashes, the requests, the calls and so on; a pool of two is the
smallest in which a call can get both of its connections, and with two callers the smallest in
which each can hold one and wait for the other's. Deadlock is not checked in most runs: with its
budgets spent a client may simply stop sending.

Fairness is assumed of the program's own threads only, never of a client, the network or a fault:

* the executor goes on with the worker of a connection whose queue holds a packet (t-io's
  `AbstractQueueRunnable` is submitted after every `addMsg`, and `runTask` polls until the queue is empty);
* a call of the cache goes on, and the two threads of `CaffeineRedisCacheManager.init` run for ever
  (`CacheFairness`);
* a call under the lock goes on, since maxWait and the lock's timeout are finite (`LockFairness`);
* `sendToUser` and `sendToGroup` go on to their publication, and a listener handles what has
  arrived (`ClusterFairness`).

No safety property rests on fairness. `AcceptedIsStored` follows a message
only until a crash: a queue lives in memory, and the property says so.

## Proofs

A theorem here holds for every value of the constants that satisfies the module's ASSUME; TLC has
checked the same invariants, and the strengthenings below on the same instances. Every safety
invariant that a passing run checks is a theorem. Every action is treated; a fault, a crash or a
time-out is an action like any other.

`PresenceProofs` (from `PresenceAssumption`): `PresenceTypeOK`, `LoggedInIsOnline`, `GoneIsOffline`
and `IndexIsConnected`. The invariants are not inductive alone. `PresenceInv` adds

* `BoundWhileOpen`: a connection past bindUser is in the index while it is open, so that its
  close does write "offline" and its login does write "online";
* `LateLogin`: a handler that runs on after the close is one of those `raced` names;
* `FreshIsOffline`: the entry of an open connection that has not logged in is not "online": a
  close of such a connection writes nothing, so `GoneIsOffline` needs it.

There is one lemma for what a write of an entry does (`PutTerminalEffect`), one for the types, and
one per kind of step.

`ChatDeliveryProofs` (from `PresenceAssumption` and `ChatAssumption`):

* `ChatTypeOK`, with `Shapes`: a thread at work has its message, one that pushes its recipient, one
  that reads members a group message (without it `ReadMembers` could not be typed);
* `PushKept`, with `Empty` (a handler that begins carries no answer) and `Reading` (between its
  read and its removal a handler's answer holds all that the mailbox does, but for `late` and
  `AtZero`). `PushKept` alone is not inductive: what `DelBox` removes was read steps before, and
  other threads push and remove in between;
* `HistoryInOrder`, the refinement of `Timeline`: the initial states map, `ChatEnqueue` is `Accept`,
  `StoreMsg` is `Settle`, `ServerCrash` is `Crash`, and every other step, `Take` included, is a
  stutter of the pending messages;
* `OwnMail` and `MailIsHistory`, from `OwnInv`: what is in a mailbox, in the answer a handler
  prepares or in a client's hands was in the history first (`Kept`) and has its owner among its
  recipients. `WorkerOwn` carries both facts from the write of the history to the push;
* that a message passes once, `OnceInv`: a queue holds a message once, it is not the one its worker
  has, and a recipient the worker has yet to decide about (`Pends`) has not been pushed to. The next
  two rest on it;
* `HandedOnce`, from `HeldOnce`: of a message that is not `shared`, one of the mailbox, one handler's
  answer and the clients has it; the one overlap is a handler between its read and its removal. It
  holds whatever the ids are: that one is a prefix of another is no part of the hypothesis;
* `SettledExactlyOnce`, from `Fate`: while a message is under way and its recipient's presence stays,
  there is a `v`, online or not, that every look finds; what the handler has sent and the worker has
  pushed so far agrees with it. `Indexed` is what `ChatSend` needs of t-io's indexes for a message to
  a group. A move of the recipient ends the claim for that message by `moved`, and for no other user
  (`StepIsLocal`).

`RedisProofs`, in three parts. `RedisLock` (from `LockAssumption`; the threads are finitely many): the types, `LockIsKept`,
`ListIsOneCalls`, `PoolIsWhole` and `KeyGetsExpiry`.

* `Owners`: who is between `setnx` and `expire`, or works with the answer TRUE, owns the key until
  a key expires; who has not asked yet has `locked` FALSE, which is why an `unlock` without the lock
  is harmless. One who finds the key free cannot meet another owner, hence mutual exclusion.
* `ListInv`: the list is empty, one call's, or the first half of what a call at `push2` writes, and
  the owner of the key finds it as it left it. Anyone else who touches it makes `torn` true.
* `ConnsAddUp`: in each pool, the free connections, the leaked ones, and one for every thread that holds
  its first and for every one that holds its second are `maxActive`. This counts sets
  (`OneMoves`, `ConnsMove`) and bounds the pool as well, which the types cannot do alone: `GiveBack`
  adds without looking.

`ExpireTask` (from `ExpireAssumption`): the types and `NoReadIsLost`, from the invariant that a read Redis has
not heard of is in the queue or in the batch that the task works on.

`ClusterDispatch` (from `ClusterAssumption`): the types, `AtMostOneCopy` and `StayersHaveIt`. `Copies` says
where a copy may be at each stage of a call: before the publication nowhere but at connections of
the sender's node, afterwards at most one per other node, in its inbox or handled. `Stayers` says
what becomes of the copy for a connection that stays: it was there when the call began, so the
loop had it, or the publication, or the loss that `lost` records.

`MembershipProofs` (from `MembershipAssumption`): the types, `ListsAgree`, `LoginReconciles` and
`OutsiderHasNoMail`. `MembershipIInv` says what each handler still owes while it is on its way:

* `Meetings`: two handlers at work for one user mean that the user is in `crossed`;
* `Agreement`: the two lists differ in one group at most, the one a handler stands between its two
  writes for, and `Differs` says which of them is ahead (`addGroup` is only reached when the user's
  list does not hold the group yet, so nothing is listed twice);
* `Reconciled`: what has been granted so far is listed; a login's list holds only what it asked for
  or has still to drop, a join's only what was there before or was asked for;
* `MailOfMembers`: mail of someone who is no member waits for the handler that is about to remove it.

A step of a handler touches its own user only, so `JobStep` reduces each action to that user
(`Own`); one lemma per action follows.

`TwoLevelCacheProofs` (from `CacheAssumption`): the types and `CoherentAtRest`. That nothing about a
key is under way says nothing about the past, so the invariant, `CacheInv`, speaks of every state.
For an entry that is there and not `spoilt` (`Live`):

* `Mended`: it is what Redis holds, or a word of its key is on its way to the node or will be sent by
  another (`Promised`), or the node itself has yet to write the key (`Unwritten`: a call between its
  two levels, one that has yet to queue its value, the queue, or the part of the batch its thread has not come to). At rest only the
  first is left;
* `LastSync`, `LastAsync`: what the node writes last of a key is what its own entry has. Without them
  `Unwritten` would not be inductive: the step that ends it must leave the entry's value in Redis,
  and of two writes in one queue only the last one counts. While a thread stands between the two
  statements of `putL2Async`, what is queued may be older than the entry: then some thread is still to
  queue the entry's own value (`LastEntering`), else the queue or the batch ends with it (`LastQueued`);
* `FreshFills`: what a `get` has read from Redis and not yet put into its node's memory is still there,
  unless the call is marked `old`; that is what makes a fill either right or spoilt.

Each action has a lemma for the types, one for `FreshFills` where it can disturb it, and one for an
arbitrary node and key.

`WireProofs`, in six parts.

* `NetBytes`: a number of two or of four bytes, most significant first, is read back as it was
  written, for every `int` that is not negative.
* `WsCodec` (from `WsAssumption`): `LengthSurvives`, by the three classes of length, up to the largest
  `int` (`HeadOfShort`, `HeadOfMiddle`, `HeadOfLong`). `HandedWhole` follows from `WsInv`: a client
  sends one message at a time and each once (`MessagesOnce`), and `lastParts` is the pieces so far of
  the message being sent, or fewer since a control frame took them, or more by what an earlier one
  has left over, and in the last two cases a message of several pieces is harmed (`PartsKept`).
* `TcpFraming` (from `TcpAssumption`): `StreamIsPackets`. The stream is `buffer \o wire`, and the
  invariant is that the packets not yet decoded lie in it end to end: there is a function that says
  where each of them ends (`Cut`). Sending extends it, arriving leaves it alone, and decoding takes
  its first packet off and shifts it (`CutSend`, `CutTake`). That `decode` takes neither more nor less
  than one packet, and waits when the packet is not all there, is `DecodeOfPrefix`.
* `ProtocolChoice` (from `ChoiceAssumption`): `FirstReadDecides`. First the pure part: what `Choice` and
  `EmptyLine` make of every beginning of every opening (`ChoiceOf`). Then `ChoiceInv`: the session is
  what the first decode made of what it saw (`FirstRead`); while that is right, the opening is
  either not decoded (`Opened`: what has arrived and what is on its way are the opening, and decoding
  pauses only before its end), at work, or answered, and all else are frames (`Framed`), which are
  counted. A client that was taken for another is left out of it.
* `StaticRes` (from `StaticAssumption`): the types and `NotModifiedIsTrue`. `Aged304` orders the three
  looks at the file: bytes are no older than the date that goes to the browser and no newer than the
  one that goes into the cache; `AsksForCopy` says that a request asks about the copy its browser
  still has.
* `HttpSessions` (from `SessionAssumption`): the types and `SessionFollows`, for any set of browsers that
  take cookies and with cookies that may end between any two steps. Besides the stage of each
  request (`Stages`), it needs `OneOwner`: an id is known to one browser only. Without it another
  browser's handler might put back the session under the id that a request came with, after that
  request was given a new one, and its answer would bring no cookie.

`DateProofs` (from `DateAssumption`): `FieldsInPlace` and `SortsAsDates`, for patterns of any length and any
dates. What the recursive `Decimal` gives for a number, and the fold `FlattenSeq` for a sequence, is
shown by the least number for which it would fail (`Least`, from the well-founded order of the
numbers), so that no induction theorem with an operator as parameter is cited.

* `DateIInv`: of the letters no longer looked for the first run is rendered, of all others nothing
  is, and no letter is looked for twice. "Rendered" is said by `Laid`: there is a function that says
  where in the text the piece of each place of the pattern ends. `LaidFlat` shows that a text laid so
  is the `FlattenSeq` of the property.
* A turn keeps it (`TurnLays`): what earlier turns put in are figures and never letters
  (`OnlyOwnLetters`), so the first run in the text is the first run of the pattern, moved
  (`RunInText`), and no piece but that run's changes.
* `SortsAsDates`: the answer to `Sortable` is six fields of fixed width and five separators
  (`SortableShows`, `TextByBlocks`); figures of one width compare as their numbers, and the first block
  that differs decides (`BlocksCompare`). `FormatDone` gives the same for the text of the other date,
  which is computed in one go.

`PartsProofs`: `PartsTypeOK`. A step of `MCParts` is a step of one component and a stutter of the
others, so a behaviour of it is one of each component's specification, and their theorems hold of it.

### Only model-checked

* Liveness (`AcceptedIsStored`, `StaleIsTemporary`, `AsyncIsFlushed`, `CallsReturn`, `ComesToRest`): the
  prover has no rule for fairness and ENABLED that these would need.

## Where the code disagrees with its documents

Five runs end in a violation of what a comment or the README of the repository says; `findings` in
`PROJECT.json` quotes the lines.

* `MCPresenceGhost`: a connection that closes while its login runs leaves its user online for ever.
* `MCChatPrefix`: mailboxes are found by the pattern `push:user:<id>*`, which also fits longer ids.
* `MCChatReliable`: the handler and the worker ask separately whether the recipient is online; a
  recipient who logs in between is served by neither.
* `MCMembershipTwice`: a list of groups may hold a group twice, and the reconciliation at login takes
  the second occurrence for a group to leave.
* `MCExpire`: the task that is to keep entries alive names a key that is never used.

## Not modelled

* The queries of `RedisMessageHelper` (users by terminal and type, friends, groups) and the history
  queries of `MessageReqHandler` type 1: they read and assemble, and change nothing.
* The scan inside `isOnline` (KEYS, then one entry after another): taken as one look.
* `putTemporary` of the caches and `J2Cache`, which nothing in the server calls.
* `ImAio.sendToIp`: the same dispatch as to a user, by another index.
* The synchronous TCP packet, which is handled inside `decode`, and a packet whose body is null, which
  the encoder fails to send.
* The inside of HTTP requests (headers, forms, routes, MIME types), compression of static files
  (a compressed body from the cache goes to a browser that takes none:
  `DefaultHttpRequestHandler.java:249-265` against 282), and the request that decoder and handler
  pass through one attribute of the connection (`HttpProtocolHandler.java:100`,
  `HttpConvertPacket.java:27`).
* The TLS peer of the example client (its steps are the JDK's engine), configuration, packet classes,
  enums, and the bundled, minified script of the demo page.

## Plan

1. An abstract lock with a lease (who holds it, until a key expires) that `RedisLock` implements, and
   the step-by-step proof of it: `LockIsKept` states its safety as an invariant only.
2. The same for `ClusterDispatch`: a dispatch that gives a packet to those who stay, in one step.
