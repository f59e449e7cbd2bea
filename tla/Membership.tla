----------------------------- MODULE Membership -----------------------------
(***************************************************************************)
(* Who belongs to which group.  Redis holds it twice: group:<g>:user lists  *)
(* the users of a group, user:<u>:group the groups of a user.  Both are     *)
(* changed by the handlers of a user's connections, one Redis call after    *)
(* another and without a lock:                                              *)
(*   - a join (JoinGroupReqHandler) reads each list and appends what is not *)
(*     there;                                                               *)
(*   - a login (LoginReqHandler.bindUnbindGroup) joins the groups doLogin   *)
(*     answers and takes the user out of the others it had read before.     *)
(* t-io's group index (bound connections) is what a live group message is   *)
(* sent through, the list of members what a mailbox is filled from.         *)
(*                                                                          *)
(* RedisCache swallows exceptions: a failed write is lost, a failed read    *)
(* answers null, which ends the bind listener with an exception that        *)
(* ImAio.bindGroup logs.  The order of the lists matters to nobody: a list  *)
(* is modelled by how often it holds each element.                          *)
(***************************************************************************)
EXTENDS Integers

CONSTANTS
  Users,
  Groups,
  Sessions,  \* connection slots; a closed one can be connected again
  UserOf,    \* UserOf[s]: the user that logs in on s
  None,      \* stands for null
  MaxJobs,   \* bound on the logins and joins
  MaxMsgs,   \* bound on the group messages
  MaxErrs    \* bound on the Redis calls that fail

ASSUME MembershipAssumption ==
  /\ UserOf \in [Sessions -> Users]
  /\ None \notin Groups
  /\ MaxJobs \in Nat /\ MaxMsgs \in Nat /\ MaxErrs \in Nat

VARIABLES
  conn,      \* conn[s]: "closed", "open", or "bound" (the context has a user id)
  job,       \* job[s]: the login or join at work on s, see Jobs
  members,   \* members[g][u]: how often Redis list group:<g>:user holds u
  groupsOf,  \* groupsOf[u][g]: how often user:<u>:group holds g
  index,     \* t-io's group index: pairs <<s, g>>
  box,       \* <<g, u>>: push:group:<g>:<u> holds something
  fan,       \* the worker that writes a group message to mailboxes
  errs, jobs, msgs,
  \* histories
  crowd,     \* sessions whose job met another job of the same user
  crossed,   \* users two of whose jobs ever ran at the same time
  stray,     \* <<g, u>>: written to the mailbox of someone who was no member
  last       \* last[u]: what the last login of u, with the joins after it,
             \*   was granted (`in') and asked for (`upTo'); None: unknown

vars == <<conn, job, members, groupsOf, index, box, fan, errs, jobs, msgs,
          crowd, crossed, stray, last>>

Jobs == [pc: {"idle", "list", "bind", "members", "addMember", "groups", "addGroup",
              "dropGroup", "dropBox"},
         login: BOOLEAN,             \* a login, not a join
         claim: SUBSET Groups,       \* the groups asked for
         todo: SUBSET Groups,        \* those still to bind
         stale: SUBSET Groups,       \* those to unbind after that
         g: Groups \union {None},    \* the one at work
         got: SUBSET Groups]         \* those granted

Idle == [pc |-> "idle", login |-> FALSE, claim |-> {}, todo |-> {}, stale |-> {},
         g |-> None, got |-> {}]

Fans == [pc: {"idle", "members", "push"}, g: Groups \union {None}, todo: SUBSET Users]
NoFan == [pc |-> "idle", g |-> None, todo |-> {}]

Elems(q) == {x \in DOMAIN q : q[x] > 0}
Unique(q) == \A x \in DOMAIN q : q[x] <= 1

MembershipTypeOK ==
  /\ conn \in [Sessions -> {"closed", "open", "bound"}]
  /\ job \in [Sessions -> Jobs]
  /\ members \in [Groups -> [Users -> Nat]]
  /\ groupsOf \in [Users -> [Groups -> Nat]]
  /\ index \in SUBSET (Sessions \X Groups)
  /\ box \in SUBSET (Groups \X Users)
  /\ fan \in Fans
  /\ errs \in 0 .. MaxErrs
  /\ jobs \in 0 .. MaxJobs
  /\ msgs \in 0 .. MaxMsgs
  /\ crowd \in SUBSET Sessions
  /\ crossed \in SUBSET Users
  /\ stray \in SUBSET (Groups \X Users)
  /\ last \in [Users -> {None} \union [in: SUBSET Groups, upTo: SUBSET Groups]]

Init ==
  /\ conn = [s \in Sessions |-> "closed"]
  /\ job = [s \in Sessions |-> Idle]
  /\ members = [g \in Groups |-> [u \in Users |-> 0]]
  /\ groupsOf = [u \in Users |-> [g \in Groups |-> 0]]
  /\ index = {}
  /\ box = {}
  /\ fan = NoFan
  /\ errs = 0 /\ jobs = 0 /\ msgs = 0
  /\ crowd = {}
  /\ crossed = {}
  /\ stray = {}
  /\ last = [u \in Users |-> None]

redisVars == <<members, groupsOf, box>>
clientVars == <<conn, jobs, crowd, crossed>>
fanVars == <<fan, msgs, stray>>
-----------------------------------------------------------------------------
Works == UNCHANGED errs
Fails == errs < MaxErrs /\ errs' = errs + 1

Busy(u) == {s \in Sessions : UserOf[s] = u /\ job[s].pc # "idle"}

Goto(s, pc) == job' = [job EXCEPT ![s].pc = pc]

\* The bind listener is done with a group: on to the next.
NextGroup(s) == job' = [job EXCEPT ![s].pc = "bind", ![s].g = None]

\* A handler starts on s; the histories note whether it meets another one.
Begin(s, j) ==
  LET others == Busy(UserOf[s]) IN
  /\ job[s].pc = "idle" /\ jobs < MaxJobs /\ jobs' = jobs + 1
  /\ job' = [job EXCEPT ![s] = j]
  /\ crowd' = IF others = {} THEN crowd \ {s} ELSE crowd \union others \union {s}
  /\ crossed' = IF others = {} THEN crossed ELSE crossed \union {UserOf[s]}

Connect(s) ==
  /\ conn[s] = "closed" /\ job[s].pc = "idle"
  /\ conn' = [conn EXCEPT ![s] = "open"]
  /\ UNCHANGED <<job, redisVars, index, errs, jobs, crowd, crossed, fanVars, last>>

\* t-io's close task: the context loses its user id and its groups.
Close(s) ==
  /\ conn[s] # "closed"
  /\ conn' = [conn EXCEPT ![s] = "closed"]
  /\ index' = {p \in index : p[1] # s}
  /\ UNCHANGED <<job, redisVars, errs, jobs, crowd, crossed, fanVars, last>>

\* doLogin answers a user with the groups G, and bindUser follows.
Login(s, G) ==
  /\ conn[s] # "closed"
  /\ Begin(s, [Idle EXCEPT !.pc = "list", !.login = TRUE, !.claim = G, !.todo = G])
  /\ conn' = [conn EXCEPT ![s] = "bound"]
  /\ UNCHANGED <<redisVars, index, errs, fanVars, last>>

\* ... or one whose groups are null: bindUnbindGroup does nothing.
LoginBare(s) ==
  /\ conn[s] = "open" /\ job[s].pc = "idle"
  /\ conn' = [conn EXCEPT ![s] = "bound"]
  /\ UNCHANGED <<job, redisVars, index, errs, jobs, crowd, crossed, fanVars, last>>

\* JoinGroupReqHandler.handler.
Join(s, g) ==
  /\ conn[s] # "closed"
  /\ Begin(s, [Idle EXCEPT !.pc = "bind", !.claim = {g}, !.todo = {g}])
  /\ UNCHANGED <<conn, redisVars, index, errs, fanVars, last>>

\* getGroups: what is left of the list when every group asked for has been
\* taken out of it once.
Stale(q, G) == (Elems(q) \ G) \union {g \in G : q[g] > 1}

ReadList(s) ==
  /\ job[s].pc = "list"
  /\ \/ /\ Works
        /\ job' = [job EXCEPT ![s].pc = "bind",
                              ![s].stale = Stale(groupsOf[UserOf[s]], job[s].claim)]
     \/ Fails /\ Goto(s, "bind")
  /\ UNCHANGED <<clientVars, redisVars, index, fanVars, last>>
-----------------------------------------------------------------------------
(* bindGroup for one group after another. *)

\* The group processor refuses: nothing is bound.
Refuse(s, g) ==
  /\ job[s].pc = "bind" /\ g \in job[s].todo
  /\ job' = [job EXCEPT ![s].todo = @ \ {g}]
  /\ UNCHANGED <<clientVars, redisVars, index, errs, fanVars, last>>

\* Aio.bindGroup; without a user id the listener leaves Redis alone.
Bind(s, g) ==
  LET bound == [job[s] EXCEPT !.todo = @ \ {g}, !.got = @ \union {g}] IN
  /\ job[s].pc = "bind" /\ g \in job[s].todo
  /\ index' = index \union {<<s, g>>}
  /\ job' = [job EXCEPT ![s] = IF conn[s] = "bound"
                               THEN [bound EXCEPT !.pc = "members", !.g = g]
                               ELSE bound]
  /\ UNCHANGED <<clientVars, redisVars, errs, fanVars, last>>

\* initGroupUsers: is the user in the list?
ReadMembers(s) ==
  /\ job[s].pc = "members"
  /\ \/ Works /\ Goto(s, IF UserOf[s] \in Elems(members[job[s].g])
                           THEN "groups" ELSE "addMember")
     \/ Fails /\ NextGroup(s)
  /\ UNCHANGED <<clientVars, redisVars, index, fanVars, last>>

AddMember(s) ==
  /\ job[s].pc = "addMember"
  /\ \/ Works /\ members' = [members EXCEPT ![job[s].g][UserOf[s]] = @ + 1]
     \/ Fails /\ UNCHANGED members
  /\ Goto(s, "groups")
  /\ UNCHANGED <<clientVars, groupsOf, box, index, fanVars, last>>

\* initUserGroups: is the group in the list?
\* (Mutant: nobody looks.)
ReadGroups_Append(s) ==
  /\ job[s].pc = "groups"
  /\ Works /\ Goto(s, "addGroup")
  /\ UNCHANGED <<clientVars, redisVars, index, fanVars, last>>

ReadGroups(s) ==
  /\ job[s].pc = "groups"
  /\ \/ Works /\ job[s].g \notin Elems(groupsOf[UserOf[s]]) /\ Goto(s, "addGroup")
     \/ Works /\ job[s].g \in Elems(groupsOf[UserOf[s]]) /\ NextGroup(s)
     \/ Fails /\ NextGroup(s)
  /\ UNCHANGED <<clientVars, redisVars, index, fanVars, last>>

\* (Mutant: user and group swapped.)
AddGroup_Swapped(s) ==
  /\ job[s].pc = "addGroup" /\ Works
  /\ groupsOf' = [groupsOf EXCEPT ![UserOf[s]] =
       [x \in Groups \union {UserOf[s]} |-> IF x \in Groups THEN @[x] ELSE 1]]
  /\ NextGroup(s)
  /\ UNCHANGED <<clientVars, members, box, index, fanVars, last>>

AddGroup(s) ==
  /\ job[s].pc = "addGroup"
  /\ \/ Works /\ groupsOf' = [groupsOf EXCEPT ![UserOf[s]][job[s].g] = @ + 1]
     \/ Fails /\ UNCHANGED groupsOf
  /\ NextGroup(s)
  /\ UNCHANGED <<clientVars, members, box, index, fanVars, last>>
-----------------------------------------------------------------------------
(* onAfterGroupUnbind for the groups that are left.  t-io's index is not    *)
(* asked.                                                                   *)

\* Every occurrence of x goes.
Without(q, x) == [q EXCEPT ![x] = 0]

\* Without a user id the three calls find nothing to remove.
DropMember(s, g) ==
  LET u == UserOf[s] IN
  /\ job[s].pc = "bind" /\ job[s].todo = {} /\ g \in job[s].stale
  /\ \/ /\ conn[s] = "bound"
        /\ \/ Works /\ members' = [members EXCEPT ![g] = Without(@, u)]
           \/ Fails /\ UNCHANGED members
        /\ job' = [job EXCEPT ![s].pc = "dropGroup", ![s].g = g, ![s].stale = @ \ {g}]
     \/ /\ conn[s] # "bound"
        /\ job' = [job EXCEPT ![s].stale = @ \ {g}]
        /\ UNCHANGED <<members, errs>>
  /\ UNCHANGED <<clientVars, groupsOf, box, index, fanVars, last>>

\* (Mutant: the user's own list is forgotten.)
DropGroup_Keeps(s) ==
  /\ job[s].pc = "dropGroup" /\ Works
  /\ Goto(s, "dropBox")
  /\ UNCHANGED <<clientVars, redisVars, index, fanVars, last>>

DropGroup(s) ==
  LET u == UserOf[s] IN
  /\ job[s].pc = "dropGroup"
  /\ \/ Works /\ groupsOf' = [groupsOf EXCEPT ![u] = Without(@, job[s].g)]
     \/ Fails /\ UNCHANGED groupsOf
  /\ Goto(s, "dropBox")
  /\ UNCHANGED <<clientVars, members, box, index, fanVars, last>>

\* (Mutant: the mailbox stays.)
DropBox_Keeps(s) ==
  /\ job[s].pc = "dropBox" /\ Works
  /\ NextGroup(s)
  /\ UNCHANGED <<clientVars, redisVars, index, fanVars, last>>

DropBox(s) ==
  /\ job[s].pc = "dropBox"
  /\ \/ Works /\ box' = box \ {<<job[s].g, UserOf[s]>>}
     \/ Fails /\ UNCHANGED box
  /\ NextGroup(s)
  /\ UNCHANGED <<clientVars, members, groupsOf, index, fanVars, last>>

\* The handler answers.  What it leaves behind is known if it worked alone,
\* on a connection that is still there.
Finish(s) ==
  LET u == UserOf[s] IN
  /\ job[s].pc = "bind" /\ job[s].todo = {} /\ job[s].stale = {}
  /\ job' = [job EXCEPT ![s] = Idle]
  /\ last' = [last EXCEPT ![u] =
       IF s \in crowd \/ conn[s] # "bound" THEN None
       ELSE IF job[s].login THEN [in |-> job[s].got, upTo |-> job[s].claim]
       ELSE IF @ = None THEN None
       ELSE [in |-> @.in \union job[s].got, upTo |-> @.upTo \union job[s].claim]]
  /\ UNCHANGED <<clientVars, redisVars, index, errs, fanVars>>
-----------------------------------------------------------------------------
(* BaseAsyncChatMessageProcessor.pushGroupMessages.                         *)

FanStart(g) ==
  /\ fan.pc = "idle" /\ msgs < MaxMsgs /\ msgs' = msgs + 1
  /\ fan' = [NoFan EXCEPT !.pc = "members", !.g = g]
  /\ UNCHANGED <<clientVars, job, redisVars, index, errs, stray, last>>

FanRead ==
  /\ fan.pc = "members"
  /\ \/ Works /\ Elems(members[fan.g]) # {}
              /\ fan' = [fan EXCEPT !.pc = "push", !.todo = Elems(members[fan.g])]
     \/ Works /\ Elems(members[fan.g]) = {} /\ fan' = NoFan
     \/ Fails /\ fan' = NoFan
  /\ UNCHANGED <<clientVars, job, redisVars, index, msgs, stray, last>>

\* isOnline decides whether the mailbox is written.
FanPush(u) ==
  /\ fan.pc = "push" /\ u \in fan.todo
  /\ \/ Works /\ box' = box \union {<<fan.g, u>>}
              /\ stray' = IF u \in Elems(members[fan.g]) THEN stray
                          ELSE stray \union {<<fan.g, u>>}
     \/ Works /\ UNCHANGED <<box, stray>>
     \/ Fails /\ UNCHANGED <<box, stray>>
  /\ fan' = IF fan.todo = {u} THEN NoFan ELSE [fan EXCEPT !.todo = @ \ {u}]
  /\ UNCHANGED <<clientVars, job, members, groupsOf, index, msgs, last>>

SessionStep(s) ==
  \/ Connect(s) \/ Close(s) \/ LoginBare(s)
  \/ ReadList(s) \/ ReadMembers(s) \/ AddMember(s) \/ ReadGroups(s) \/ AddGroup(s)
  \/ DropGroup(s) \/ DropBox(s) \/ Finish(s)
  \/ \E G \in SUBSET Groups : Login(s, G)
  \/ \E g \in Groups : Join(s, g) \/ Refuse(s, g) \/ Bind(s, g) \/ DropMember(s, g)

Next ==
  \/ \E s \in Sessions : SessionStep(s)
  \/ \E g \in Groups : FanStart(g)
  \/ FanRead
  \/ \E u \in Users : FanPush(u)

Spec == Init /\ [][Next]_vars
-----------------------------------------------------------------------------
(* Without failures, for a user whose handlers never met, the two lists say *)
(* the same once they are done, and nothing is listed twice.                *)
(* (RedisImBindListener.initGroupUsers against onAfterGroupUnbind.)         *)
ListsAgree ==
  errs = 0 =>
    \A u \in Users \ crossed :
      /\ Unique(groupsOf[u])
      /\ Busy(u) = {} =>
           \A g \in Groups : u \in Elems(members[g]) <=> g \in Elems(groupsOf[u])

(* ... and they are what the last login was granted, with the joins since:  *)
(* every granted group is there and no group that was not asked for.        *)
(* (LoginReqHandler.bindUnbindGroup.)                                       *)
LoginReconciles ==
  errs = 0 =>
    \A u \in Users \ crossed :
      Busy(u) = {} /\ last[u] # None =>
        /\ last[u].in \subseteq Elems(groupsOf[u])
        /\ Elems(groupsOf[u]) \subseteq last[u].upTo

(* Someone who is no member of a group and has no handler at work has no    *)
(* mail of the group, unless the worker had read the list of members before *)
(* the user left.  (onAfterGroupUnbind removes the mailbox last.)           *)
OutsiderHasNoMail ==
  errs = 0 =>
    \A p \in box \ stray :
      Busy(p[2]) = {} => p[2] \in Elems(members[p[1]])

(* What getGroupUsers promises: the groups a login was granted, with no     *)
(* other handler of the user at work meanwhile, have the user as a member,  *)
(* whatever happened before.                                                *)
GrantedIsMember ==
  errs = 0 =>
    \A u \in Users :
      Busy(u) = {} /\ last[u] # None =>
        \A g \in last[u].in : u \in Elems(members[g])
=============================================================================
