--------------------------- MODULE MembershipProofs ---------------------------
(***************************************************************************)
(* Proofs about group membership, for any users, groups, connections and    *)
(* number of handlers: the lists agree, they are what was granted, and an   *)
(* outsider has no mail.                                                    *)
(***************************************************************************)
EXTENDS Membership, TLAPS

\* Whose handlers met: their connections are in crowd, and they are crossed.
Meetings ==
  /\ \A s \in crowd : UserOf[s] \in crossed
  /\ \A s \in Sessions, t \in Sessions :
       /\ UserOf[s] = UserOf[t] /\ UserOf[s] \notin crossed
       /\ job[s].pc # "idle" /\ job[t].pc # "idle"
       => s = t

Entering == {"members", "addMember", "groups", "addGroup"}
Leaving == {"dropGroup", "dropBox"}

\* What a job holds at each step.
JobShape(s) ==
  /\ job[s].todo \subseteq job[s].claim /\ job[s].got \subseteq job[s].claim
  /\ job[s].pc \in Entering => job[s].g \in job[s].got
  /\ job[s].pc \in Leaving => job[s].g \in Groups
  /\ ~job[s].login => job[s].stale = {} /\ job[s].pc \notin Leaving \union {"list"}
  /\ job[s].pc = "list" => job[s].got = {}

Shapes == (\A s \in Sessions : JobShape(s)) /\ (fan.pc # "idle" => fan.g \in Groups)

InMembers(u, g) == members[g][u] > 0
InGroups(u, g) == groupsOf[u][g] > 0

\* Between its write to one list and its write to the other a job knows how
\* they differ.
Differs(s) ==
  LET u == UserOf[s]  g == job[s].g IN
  /\ job[s].pc = "addMember" => ~InMembers(u, g) /\ ~InGroups(u, g)
  /\ job[s].pc = "groups" => InMembers(u, g)
  /\ job[s].pc = "addGroup" => InMembers(u, g) /\ ~InGroups(u, g)
  /\ job[s].pc = "dropGroup" => ~InMembers(u, g)

Halfway(u, g) ==
  \E s \in Sessions : UserOf[s] = u /\ job[s].g = g /\ job[s].pc \in {"groups", "addGroup", "dropGroup"}

Agreement ==
  /\ \A u \in Users \ crossed, g \in Groups :
       /\ groupsOf[u][g] <= 1
       /\ Halfway(u, g) \/ (InMembers(u, g) <=> InGroups(u, g))
  /\ \A s \in Sessions : UserOf[s] \notin crossed => Differs(s)

\* What the user's list owes to the job at work, and to the last one.
LoginOwes(s) ==
  LET u == UserOf[s] IN
  \A g \in Groups :
    /\ g \in job[s].stale \/ (job[s].pc \in Leaving /\ g = job[s].g) => g \notin job[s].claim
    /\ InGroups(u, g) =>
         g \in job[s].claim \/ g \in job[s].stale \/ (job[s].pc = "dropGroup" /\ g = job[s].g)

GotIsListed(s) ==
  \A g \in job[s].got : InGroups(UserOf[s], g) \/ (job[s].pc \in Entering /\ g = job[s].g)

JoinOwes(s) ==
  LET u == UserOf[s] IN
  last[u] # None => \A g \in Groups :
    /\ g \in last[u].in => InGroups(u, g)
    /\ InGroups(u, g) => g \in last[u].upTo \/ g \in job[s].claim

Owes(s) ==
  /\ job[s].pc \notin {"idle", "list"} /\ conn[s] = "bound" => GotIsListed(s)
  /\ job[s].pc \notin {"idle", "list"} /\ job[s].login /\ conn[s] = "bound" => LoginOwes(s)
  /\ job[s].pc # "idle" /\ ~job[s].login => JoinOwes(s)

Reconciled ==
  /\ \A s \in Sessions : UserOf[s] \notin crossed => Owes(s)
  /\ \A u \in Users \ crossed :
       (\A s \in Sessions : UserOf[s] = u => job[s].pc = "idle") /\ last[u] # None =>
         \A g \in Groups : /\ g \in last[u].in => InGroups(u, g)
                           /\ InGroups(u, g) => g \in last[u].upTo

\* Mail of someone who is no member waits for the handler that is to remove it.
MailOfMembers ==
  \A p \in box \ stray :
    \/ InMembers(p[2], p[1])
    \/ \E s \in Sessions : UserOf[s] = p[2] /\ job[s].g = p[1] /\ job[s].pc \in Leaving

MembershipIInv ==
  /\ MembershipTypeOK /\ Meetings /\ Shapes
  /\ errs = 0 => Agreement /\ Reconciled /\ MailOfMembers
-----------------------------------------------------------------------------
(* What a step of a job makes of it.                                        *)

Becomes(s, pc, g, todo, stale, got) ==
  /\ job' \in [Sessions -> Jobs]
  /\ \A t \in Sessions : t # s => job'[t] = job[t]
  /\ job'[s].pc = pc /\ job'[s].g = g
  /\ job'[s].todo = todo /\ job'[s].stale = stale /\ job'[s].got = got
  /\ job'[s].login = job[s].login /\ job'[s].claim = job[s].claim

Same(s, pc, g) == Becomes(s, pc, g, job[s].todo, job[s].stale, job[s].got)

PCs == {"idle", "list", "bind", "members", "addMember", "groups", "addGroup", "dropGroup", "dropBox"}

LEMMA Updated ==
  ASSUME MembershipTypeOK, NEW s \in Sessions, NEW j \in Jobs, job' = [job EXCEPT ![s] = j],
         j.login = job[s].login, j.claim = job[s].claim
  PROVE  Becomes(s, j.pc, j.g, j.todo, j.stale, j.got)
BY DEF MembershipTypeOK, Becomes

LEMMA GotoForm ==
  ASSUME MembershipTypeOK, NEW s \in Sessions, NEW pc \in PCs, Goto(s, pc)
  PROVE  Same(s, pc, job[s].g)
<1> DEFINE j == [job[s] EXCEPT !.pc = pc]
<1>1. job[s] \in Jobs
  BY DEF MembershipTypeOK
<1>2. /\ j \in Jobs /\ j.pc = pc /\ j.g = job[s].g /\ j.todo = job[s].todo /\ j.stale = job[s].stale
      /\ j.got = job[s].got /\ j.login = job[s].login /\ j.claim = job[s].claim
  BY <1>1 DEF Jobs, PCs
<1>3. job' = [job EXCEPT ![s] = j]
  BY <1>1 DEF MembershipTypeOK, Jobs, Goto
<1> HIDE DEF j
<1>4. QED
  BY <1>2, <1>3, Updated DEF Same

LEMMA NextGroupForm ==
  ASSUME MembershipTypeOK, NEW s \in Sessions, NextGroup(s) PROVE Same(s, "bind", None)
<1> DEFINE j == [job[s] EXCEPT !.pc = "bind", !.g = None]
<1>1. job[s] \in Jobs
  BY DEF MembershipTypeOK
<1>2. /\ j \in Jobs /\ j.pc = "bind" /\ j.g = None /\ j.todo = job[s].todo /\ j.stale = job[s].stale
      /\ j.got = job[s].got /\ j.login = job[s].login /\ j.claim = job[s].claim
  BY <1>1 DEF Jobs
<1>3. job' = [job EXCEPT ![s] = j]
  BY <1>1 DEF MembershipTypeOK, Jobs, NextGroup
<1> HIDE DEF j
<1>4. QED
  BY <1>2, <1>3, Updated DEF Same

LEMMA ReadListForm ==
  ASSUME MembershipTypeOK, NEW s \in Sessions, NEW S \in SUBSET Groups,
         job' = [job EXCEPT ![s].pc = "bind", ![s].stale = S]
  PROVE  Becomes(s, "bind", job[s].g, job[s].todo, S, job[s].got)
<1> DEFINE j == [job[s] EXCEPT !.pc = "bind", !.stale = S]
<1>1. job[s] \in Jobs
  BY DEF MembershipTypeOK
<1>2. /\ j \in Jobs /\ j.pc = "bind" /\ j.g = job[s].g /\ j.todo = job[s].todo /\ j.stale = S
      /\ j.got = job[s].got /\ j.login = job[s].login /\ j.claim = job[s].claim
  BY <1>1 DEF Jobs
<1>3. job' = [job EXCEPT ![s] = j]
  BY <1>1 DEF MembershipTypeOK, Jobs
<1> HIDE DEF j
<1>4. QED
  BY <1>2, <1>3, Updated

LEMMA RefuseForm ==
  ASSUME MembershipTypeOK, NEW s \in Sessions, NEW g \in Groups, Refuse(s, g)
  PROVE  Becomes(s, "bind", job[s].g, job[s].todo \ {g}, job[s].stale, job[s].got)
<1> DEFINE j == [job[s] EXCEPT !.todo = @ \ {g}]
<1>1. job[s] \in Jobs /\ job[s].pc = "bind"
  BY DEF MembershipTypeOK, Refuse
<1>2. /\ j \in Jobs /\ j.pc = "bind" /\ j.g = job[s].g /\ j.todo = job[s].todo \ {g}
      /\ j.stale = job[s].stale
      /\ j.got = job[s].got /\ j.login = job[s].login /\ j.claim = job[s].claim
  BY <1>1 DEF Jobs
<1>3. job' = [job EXCEPT ![s] = j]
  BY <1>1 DEF MembershipTypeOK, Jobs, Refuse
<1> HIDE DEF j
<1>4. QED
  BY <1>2, <1>3, Updated

LEMMA BindForm ==
  ASSUME MembershipTypeOK, NEW s \in Sessions, NEW g \in Groups, Bind(s, g)
  PROVE  \/ conn[s] = "bound"
            /\ Becomes(s, "members", g, job[s].todo \ {g}, job[s].stale, job[s].got \union {g})
         \/ conn[s] # "bound"
            /\ Becomes(s, "bind", job[s].g, job[s].todo \ {g}, job[s].stale, job[s].got \union {g})
<1> DEFINE b == [job[s] EXCEPT !.todo = job[s].todo \ {g}, !.got = job[s].got \union {g}]
           j == [b EXCEPT !.pc = "members", !.g = g]
<1>1. job[s] \in Jobs /\ job[s].pc = "bind"
  BY DEF MembershipTypeOK, Bind
<1>2. /\ b \in Jobs /\ b.pc = "bind" /\ b.g = job[s].g /\ b.todo = job[s].todo \ {g}
      /\ b.stale = job[s].stale
      /\ b.got = job[s].got \union {g} /\ b.login = job[s].login /\ b.claim = job[s].claim
  BY <1>1 DEF Jobs
<1>3. /\ j \in Jobs /\ j.pc = "members" /\ j.g = g /\ j.todo = job[s].todo \ {g}
      /\ j.stale = job[s].stale
      /\ j.got = job[s].got \union {g} /\ j.login = job[s].login /\ j.claim = job[s].claim
  BY <1>2 DEF Jobs
<1>4. CASE conn[s] = "bound"
  <2>1. job' = [job EXCEPT ![s] = j]
    BY <1>4 DEF Bind
  <2> HIDE DEF b, j
  <2>2. Becomes(s, j.pc, j.g, j.todo, j.stale, j.got)
    BY <1>3, <2>1, Updated
  <2>3. Becomes(s, "members", g, job[s].todo \ {g}, job[s].stale, job[s].got \union {g})
    BY <1>3, <2>2
  <2>4. QED
    BY <1>4, <2>3
<1>5. CASE conn[s] # "bound"
  <2>1. job' = [job EXCEPT ![s] = b]
    BY <1>5 DEF Bind
  <2> HIDE DEF b
  <2>2. QED
    BY <1>2, <1>5, <2>1, Updated
<1>6. QED
  BY <1>4, <1>5

LEMMA DropMemberForm ==
  ASSUME MembershipTypeOK, NEW s \in Sessions, NEW g \in Groups, DropMember(s, g)
  PROVE  \/ conn[s] = "bound"
            /\ Becomes(s, "dropGroup", g, job[s].todo, job[s].stale \ {g}, job[s].got)
         \/ conn[s] # "bound"
            /\ Becomes(s, "bind", job[s].g, job[s].todo, job[s].stale \ {g}, job[s].got)
<1> DEFINE b == [job[s] EXCEPT !.stale = job[s].stale \ {g}]
           j == [job[s] EXCEPT !.pc = "dropGroup", !.g = g, !.stale = job[s].stale \ {g}]
<1>1. job[s] \in Jobs /\ job[s].pc = "bind"
  BY DEF MembershipTypeOK, DropMember
<1>2. /\ b \in Jobs /\ b.pc = "bind" /\ b.g = job[s].g /\ b.todo = job[s].todo
      /\ b.stale = job[s].stale \ {g}
      /\ b.got = job[s].got /\ b.login = job[s].login /\ b.claim = job[s].claim
  BY <1>1 DEF Jobs
<1>3. /\ j \in Jobs /\ j.pc = "dropGroup" /\ j.g = g /\ j.todo = job[s].todo
      /\ j.stale = job[s].stale \ {g}
      /\ j.got = job[s].got /\ j.login = job[s].login /\ j.claim = job[s].claim
  BY <1>1 DEF Jobs
<1>4. CASE conn[s] = "bound"
  <2>1. job' = [job EXCEPT ![s] = j]
    BY <1>1, <1>4 DEF MembershipTypeOK, Jobs, DropMember
  <2> HIDE DEF j
  <2>2. QED
    BY <1>3, <1>4, <2>1, Updated
<1>5. CASE conn[s] # "bound"
  <2>1. job' = [job EXCEPT ![s] = b]
    BY <1>1, <1>5 DEF MembershipTypeOK, Jobs, DropMember
  <2> HIDE DEF b
  <2>2. QED
    BY <1>2, <1>5, <2>1, Updated
<1>6. QED
  BY <1>4, <1>5
-----------------------------------------------------------------------------
(* A failing call counts: what is said of errs = 0 is said of calls that work. *)
LEMMA FailsCount == ASSUME MembershipTypeOK, Fails PROVE errs' # 0 /\ errs' \in 0 .. MaxErrs
BY MembershipAssumption DEF MembershipTypeOK, Fails

\* All there is to know of a user one of whose jobs is s.
Own(s) ==
  LET u == UserOf[s] IN
  /\ Differs(s) /\ Owes(s)
  /\ \A g \in Groups :
       /\ groupsOf[u][g] <= 1
       /\ \/ job[s].g = g /\ job[s].pc \in {"groups", "addGroup", "dropGroup"}
          \/ InMembers(u, g) <=> InGroups(u, g)
  /\ job[s].pc = "idle" /\ last[u] # None =>
       \A g \in Groups : /\ g \in last[u].in => InGroups(u, g)
                         /\ InGroups(u, g) => g \in last[u].upTo

\* The others of the user are idle while one is at work.
LEMMA OwnHolds ==
  ASSUME MembershipIInv, errs = 0, NEW s \in Sessions, UserOf[s] \notin crossed,
         job[s].pc # "idle" \/ \A t \in Sessions : UserOf[t] = UserOf[s] => job[t].pc = "idle"
  PROVE  Own(s)
<1>1. Agreement /\ Reconciled /\ Meetings /\ UserOf[s] \in Users \ crossed
  BY MembershipAssumption DEF MembershipIInv
<1>2. Differs(s) /\ Owes(s)
  BY <1>1 DEF Agreement, Reconciled
<1>3. ASSUME NEW g \in Groups
      PROVE  /\ groupsOf[UserOf[s]][g] <= 1
             /\ \/ job[s].g = g /\ job[s].pc \in {"groups", "addGroup", "dropGroup"}
                \/ InMembers(UserOf[s], g) <=> InGroups(UserOf[s], g)
  <2>1. groupsOf[UserOf[s]][g] <= 1
        /\ (Halfway(UserOf[s], g) \/ (InMembers(UserOf[s], g) <=> InGroups(UserOf[s], g)))
    BY <1>1 DEF Agreement
  <2>2. ASSUME Halfway(UserOf[s], g)
        PROVE  job[s].g = g /\ job[s].pc \in {"groups", "addGroup", "dropGroup"}
    BY <1>1, <2>2 DEF Halfway, Meetings
  <2>3. QED
    BY <2>1, <2>2
<1>4. ASSUME job[s].pc = "idle", last[UserOf[s]] # None, NEW g \in Groups
      PROVE  /\ g \in last[UserOf[s]].in => InGroups(UserOf[s], g)
             /\ InGroups(UserOf[s], g) => g \in last[UserOf[s]].upTo
  BY <1>1, <1>4 DEF Reconciled
<1>5. QED
  BY <1>2, <1>3, <1>4 DEF Own

(* A step of one job leaves other users alone: enough that its own user is  *)
(* well afterwards.                                                         *)
LEMMA OwnSuffices ==
  ASSUME MembershipIInv, errs = 0, NEW s \in Sessions,
         \A t \in Sessions : t # s => conn'[t] = conn[t],
         crossed \subseteq crossed',
         \A t \in Sessions : t # s => job'[t] = job[t],
         \A t \in Sessions : UserOf[t] = UserOf[s] /\ t # s /\ UserOf[s] \notin crossed' => job[t].pc = "idle",
         \A u \in Users : u # UserOf[s] =>
           /\ \A g \in Groups : members'[g][u] = members[g][u] /\ groupsOf'[u][g] = groupsOf[u][g]
           /\ last'[u] = last[u],
         UserOf[s] \notin crossed' => Own(s)'
  PROVE  Agreement' /\ Reconciled'
<1> USE MembershipAssumption
<1>1. Agreement /\ Reconciled
  BY DEF MembershipIInv
<1>2. ASSUME NEW t \in Sessions, UserOf[t] \notin crossed' PROVE Differs(t)' /\ Owes(t)'
  <2>1. CASE t = s
    BY <1>2, <2>1 DEF Own
  <2>2. CASE t # s /\ UserOf[t] = UserOf[s]
    BY <1>2, <2>2 DEF Differs, Owes
  <2>3. CASE t # s /\ UserOf[t] # UserOf[s]
    <3>1. /\ job'[t] = job[t] /\ conn'[t] = conn[t] /\ last'[UserOf[t]] = last[UserOf[t]] /\ UserOf[t] \in Users
          /\ \A g \in Groups : /\ InMembers(UserOf[t], g)' <=> InMembers(UserOf[t], g)
                               /\ InGroups(UserOf[t], g)' <=> InGroups(UserOf[t], g)
      BY <2>3 DEF InMembers, InGroups
    <3>2. Differs(t) /\ Owes(t)
      BY <1>1, <1>2 DEF Agreement, Reconciled
    <3>3. job[t].g \in Groups \/ job[t].pc \notin Entering \union Leaving
      BY DEF MembershipIInv, Shapes, JobShape, MembershipTypeOK, Jobs
    <3>4. Differs(t)'
      BY <3>1, <3>2, <3>3 DEF Differs, Entering, Leaving
    <3>5. job[t].got \subseteq Groups
      BY DEF MembershipIInv, MembershipTypeOK, Jobs
    <3>6. Owes(t)'
      BY <3>1, <3>2, <3>5 DEF Owes, GotIsListed, LoginOwes, JoinOwes
    <3>7. QED
      BY <3>4, <3>6
  <2>4. QED
    BY <2>1, <2>2, <2>3
<1>3. ASSUME NEW u \in Users \ crossed', NEW g \in Groups
      PROVE  /\ groupsOf'[u][g] <= 1
             /\ Halfway(u, g)' \/ (InMembers(u, g)' <=> InGroups(u, g)')
  <2>1. CASE u = UserOf[s]
    BY <1>3, <2>1 DEF Own, Halfway
  <2>2. CASE u # UserOf[s]
    <3>1. /\ groupsOf[u][g] <= 1
          /\ Halfway(u, g) \/ (InMembers(u, g) <=> InGroups(u, g))
      BY <1>1, <1>3 DEF Agreement
    <3>2. /\ groupsOf'[u][g] = groupsOf[u][g]
          /\ (InMembers(u, g)' <=> InMembers(u, g)) /\ (InGroups(u, g)' <=> InGroups(u, g))
      BY <2>2 DEF InMembers, InGroups
    <3>3. Halfway(u, g) => Halfway(u, g)'
      BY <2>2 DEF Halfway
    <3>4. QED
      BY <3>1, <3>2, <3>3
  <2>3. QED
    BY <2>1, <2>2
<1>4. ASSUME NEW u \in Users \ crossed', NEW g \in Groups, last'[u] # None,
             \A t \in Sessions : UserOf[t] = u => job'[t].pc = "idle"
      PROVE  (g \in last'[u].in => InGroups(u, g)') /\ (InGroups(u, g)' => g \in last'[u].upTo)
  <2>1. CASE u = UserOf[s]
    BY <1>4, <2>1 DEF Own
  <2>2. CASE u # UserOf[s]
    <3>1. last'[u] = last[u] /\ (InGroups(u, g)' <=> InGroups(u, g))
      BY <2>2 DEF InGroups
    <3>2. \A t \in Sessions : UserOf[t] = u => job[t].pc = "idle"
      BY <1>4, <2>2
    <3>3. QED
      BY <1>1, <1>4, <3>1, <3>2 DEF Reconciled
  <2>3. QED
    BY <2>1, <2>2
<1>5. QED
  BY <1>2, <1>3, <1>4 DEF Agreement, Reconciled
-----------------------------------------------------------------------------
(* A step in the middle of a handler keeps the invariant when it keeps what *)
(* is known of its own user.                                                *)
LEMMA JobStep ==
  ASSUME MembershipIInv, NEW s \in Sessions, job[s].pc # "idle",
         UNCHANGED <<clientVars, fanVars, last>>,
         job' \in [Sessions -> Jobs],
         members' \in [Groups -> [Users -> Nat]], groupsOf' \in [Users -> [Groups -> Nat]],
         index' \subseteq Sessions \X Groups, box' \subseteq box, errs' \in 0 .. MaxErrs,
         \A t \in Sessions : t # s => job'[t] = job[t],
         \A u \in Users, g \in Groups : u # UserOf[s] =>
           members'[g][u] = members[g][u] /\ groupsOf'[u][g] = groupsOf[u][g],
         JobShape(s)',
         errs' = 0 => errs = 0,
         errs' = 0 /\ Own(s) => Own(s)',
         errs' = 0 => \A g \in Groups : InMembers(UserOf[s], g) =>
           InMembers(UserOf[s], g)' \/ (job'[s].pc \in Leaving /\ job'[s].g = g),
         errs' = 0 /\ job[s].pc \in Leaving =>
           \/ job'[s].pc \in Leaving /\ job'[s].g = job[s].g
           \/ <<job[s].g, UserOf[s]>> \notin box'
  PROVE  MembershipIInv'
<1> USE MembershipAssumption
<1>0. /\ UNCHANGED <<conn, jobs, crowd, crossed>> /\ UNCHANGED <<fan, msgs, stray>>
      /\ UNCHANGED last
  BY DEF clientVars, fanVars
<1>1. MembershipTypeOK'
  BY <1>0 DEF MembershipIInv, MembershipTypeOK
<1>2. Meetings'
  <2>1. \A t \in Sessions : job'[t].pc # "idle" => job[t].pc # "idle"
    OBVIOUS
  <2>2. Meetings
    BY DEF MembershipIInv
  <2>3. QED
    BY <1>0, <2>1, <2>2 DEF Meetings
<1>3. Shapes'
  BY <1>0 DEF MembershipIInv, Shapes, JobShape
<1>4. ASSUME errs' = 0 PROVE Agreement' /\ Reconciled'
  <2>1. ASSUME NEW t \in Sessions, UserOf[t] = UserOf[s], t # s, UserOf[s] \notin crossed'
        PROVE  job[t].pc = "idle"
    BY <1>0, <2>1 DEF MembershipIInv, Meetings
  <2>2. UserOf[s] \notin crossed' => Own(s)'
    BY <1>0, <1>4, OwnHolds
  <2>3. QED
    BY <1>0, <1>4, <2>1, <2>2, OwnSuffices
<1>5. ASSUME errs' = 0 PROVE MailOfMembers'
  <2> SUFFICES ASSUME NEW p \in box' \ stray'
               PROVE  \/ InMembers(p[2], p[1])'
                      \/ \E t \in Sessions : UserOf[t] = p[2] /\ job'[t].g = p[1] /\ job'[t].pc \in Leaving
    BY DEF MailOfMembers
  <2>1. p \in box \ stray /\ p[1] \in Groups /\ p[2] \in Users
    BY <1>0 DEF MembershipIInv, MembershipTypeOK
  <2>2. CASE InMembers(p[2], p[1])
    <3>1. CASE p[2] # UserOf[s]
      BY <2>1, <2>2, <3>1 DEF InMembers
    <3>2. CASE p[2] = UserOf[s]
      BY <1>5, <2>1, <2>2, <3>2
    <3>3. QED
      BY <3>1, <3>2
  <2>3. CASE ~InMembers(p[2], p[1])
    <3>1. PICK t \in Sessions : UserOf[t] = p[2] /\ job[t].g = p[1] /\ job[t].pc \in Leaving
      BY <1>5, <2>1, <2>3 DEF MembershipIInv, MailOfMembers
    <3>2. CASE t # s
      BY <3>1, <3>2
    <3>3. CASE t = s
      <4>1. p = <<job[s].g, UserOf[s]>>
        BY <2>1, <3>1, <3>3 DEF MembershipIInv, MembershipTypeOK
      <4>2. QED
        BY <1>5, <3>1, <3>3, <4>1
    <3>4. QED
      BY <3>2, <3>3
  <2>4. QED
    BY <2>2, <2>3
<1>6. QED
  BY <1>1, <1>2, <1>3, <1>4, <1>5 DEF MembershipIInv

\* What is known before the step, opened once.
LEMMA Known ==
  ASSUME MembershipIInv, NEW s \in Sessions
  PROVE  /\ MembershipTypeOK /\ JobShape(s) /\ job[s] \in Jobs /\ UserOf[s] \in Users
         /\ members \in [Groups -> [Users -> Nat]] /\ groupsOf \in [Users -> [Groups -> Nat]]
         /\ index \subseteq Sessions \X Groups /\ box \subseteq Groups \X Users
         /\ errs \in 0 .. MaxErrs
         /\ job[s].claim \subseteq Groups /\ job[s].got \subseteq Groups
         /\ job[s].todo \subseteq Groups /\ job[s].stale \subseteq Groups
         /\ job[s].g \in Groups \union {None} /\ job[s].login \in BOOLEAN
BY MembershipAssumption DEF MembershipIInv, MembershipTypeOK, Shapes, Jobs

-----------------------------------------------------------------------------
(* One lemma for each step of a handler. *)
LEMMA ReadListStep ==
  ASSUME MembershipIInv, NEW s \in Sessions, ReadList(s) PROVE MembershipIInv'
<1> USE MembershipAssumption
<1> DEFINE u == UserOf[s]
<1>1. /\ MembershipTypeOK /\ JobShape(s) /\ job[s] \in Jobs /\ u \in Users
      /\ members \in [Groups -> [Users -> Nat]] /\ groupsOf \in [Users -> [Groups -> Nat]]
      /\ index \subseteq Sessions \X Groups /\ box \subseteq Groups \X Users
      /\ errs \in 0 .. MaxErrs /\ job[s].claim \subseteq Groups /\ job[s].got \subseteq Groups
      /\ job[s].g \in Groups \union {None}
  BY Known
<1>2. /\ job[s].pc = "list" /\ UNCHANGED <<members, groupsOf, box, index>>
      /\ UNCHANGED <<clientVars, fanVars, last>> /\ UNCHANGED <<conn, crossed, last>>
  BY DEF ReadList, redisVars, clientVars
<1>3. CASE Fails /\ Goto(s, "bind")
  <2>1. errs' # 0 /\ errs' \in 0 .. MaxErrs
    BY <1>1, <1>3, FailsCount
  <2>2. Same(s, "bind", job[s].g)
    BY <1>1, <1>3, GotoForm DEF PCs
  <2>3. QED
    BY <1>1, <1>2, <2>1, <2>2, JobStep DEF Same, Becomes, JobShape, Entering, Leaving
<1> DEFINE S == Stale(groupsOf[u], job[s].claim)
<1>4. CASE Works /\ job' = [job EXCEPT ![s].pc = "bind", ![s].stale = S]
  <2>1. S \in SUBSET Groups
    BY <1>1 DEF Stale, Elems
  <2>2. errs' = errs /\ job' = [job EXCEPT ![s].pc = "bind", ![s].stale = S]
    BY <1>4 DEF Works
  <2>3. Becomes(s, "bind", job[s].g, job[s].todo, S, job[s].got)
    BY <1>1, <2>1, <2>2, ReadListForm
  <2>4. JobShape(s)'
    BY <1>1, <1>2, <2>3 DEF Becomes, JobShape, Entering, Leaving
  <2>5. ASSUME Own(s) PROVE Own(s)'
    <3>1. \A g \in Groups : groupsOf[u][g] <= 1
      BY <2>5 DEF Own
    <3>2. \A g \in Groups : g \in S <=> groupsOf[u][g] > 0 /\ g \notin job[s].claim
      BY <1>1, <3>1 DEF Stale, Elems
    <3> HIDE DEF S
    <3>3. QED
      BY <1>1, <1>2, <2>3, <2>5, <3>2 DEF Own, Differs, Owes, GotIsListed, LoginOwes, JoinOwes, InMembers, InGroups, Becomes, Same, JobShape, Entering, Leaving
  <2> HIDE DEF S
  <2>6. QED
    BY <1>1, <1>2, <2>2, <2>3, <2>4, <2>5, JobStep DEF Becomes, Leaving, InMembers
<1>5. QED
  BY <1>3, <1>4 DEF ReadList

LEMMA RefuseStep ==
  ASSUME MembershipIInv, NEW s \in Sessions, NEW g \in Groups, Refuse(s, g) PROVE MembershipIInv'
<1> USE MembershipAssumption
<1> DEFINE u == UserOf[s]
<1>1. /\ MembershipTypeOK /\ JobShape(s) /\ job[s] \in Jobs /\ u \in Users
      /\ members \in [Groups -> [Users -> Nat]] /\ groupsOf \in [Users -> [Groups -> Nat]]
      /\ index \subseteq Sessions \X Groups /\ box \subseteq Groups \X Users
      /\ errs \in 0 .. MaxErrs /\ job[s].claim \subseteq Groups /\ job[s].got \subseteq Groups
      /\ job[s].g \in Groups \union {None}
  BY Known
<1>2. /\ job[s].pc = "bind" /\ UNCHANGED <<members, groupsOf, box, index, errs>>
      /\ UNCHANGED <<clientVars, fanVars, last>> /\ UNCHANGED <<conn, crossed, last>>
  BY DEF Refuse, redisVars, clientVars
<1>3. Becomes(s, "bind", job[s].g, job[s].todo \ {g}, job[s].stale, job[s].got)
  BY <1>1, RefuseForm
<1>4. JobShape(s)'
  BY <1>1, <1>2, <1>3 DEF Becomes, JobShape, Entering, Leaving
<1>5. ASSUME Own(s) PROVE Own(s)'
  BY <1>1, <1>2, <1>3, <1>5 DEF Own, Differs, Owes, GotIsListed, LoginOwes, JoinOwes, InMembers, InGroups, Becomes, Same, JobShape, Entering, Leaving
<1>6. QED
  BY <1>1, <1>2, <1>3, <1>4, <1>5, JobStep DEF Becomes, Leaving, InMembers

LEMMA BindStep ==
  ASSUME MembershipIInv, NEW s \in Sessions, NEW g \in Groups, Bind(s, g) PROVE MembershipIInv'
<1> USE MembershipAssumption
<1> DEFINE u == UserOf[s]
<1>1. /\ MembershipTypeOK /\ JobShape(s) /\ job[s] \in Jobs /\ u \in Users
      /\ members \in [Groups -> [Users -> Nat]] /\ groupsOf \in [Users -> [Groups -> Nat]]
      /\ index \subseteq Sessions \X Groups /\ box \subseteq Groups \X Users
      /\ errs \in 0 .. MaxErrs /\ job[s].claim \subseteq Groups /\ job[s].got \subseteq Groups
      /\ job[s].g \in Groups \union {None}
  BY Known
<1>2. /\ job[s].pc = "bind" /\ g \in job[s].todo /\ UNCHANGED <<members, groupsOf, box, errs>>
      /\ UNCHANGED <<clientVars, fanVars, last>> /\ UNCHANGED <<conn, crossed, last>>
  BY DEF Bind, redisVars, clientVars
<1>3. index' \subseteq Sessions \X Groups
  BY <1>1 DEF Bind
<1>4. CASE conn[s] = "bound"
  <2>1. Becomes(s, "members", g, job[s].todo \ {g}, job[s].stale, job[s].got \union {g})
    BY <1>1, <1>4, BindForm
  <2>2. JobShape(s)'
    BY <1>1, <1>2, <2>1 DEF Becomes, JobShape, Entering, Leaving
  <2>3. ASSUME Own(s) PROVE Own(s)'
    BY <1>1, <1>2, <2>1, <2>3 DEF Own, Differs, Owes, GotIsListed, LoginOwes, JoinOwes, InMembers, InGroups, Becomes, Same, JobShape, Entering, Leaving
  <2>4. QED
    BY <1>1, <1>2, <1>3, <2>1, <2>2, <2>3, JobStep DEF Becomes, Leaving, InMembers
<1>5. CASE conn[s] # "bound"
  <2>1. Becomes(s, "bind", job[s].g, job[s].todo \ {g}, job[s].stale, job[s].got \union {g})
    BY <1>1, <1>5, BindForm
  <2>2. JobShape(s)'
    BY <1>1, <1>2, <2>1 DEF Becomes, JobShape, Entering, Leaving
  <2>3. ASSUME Own(s) PROVE Own(s)'
    BY <1>1, <1>2, <1>5, <2>1, <2>3 DEF Own, Differs, Owes, GotIsListed, LoginOwes, JoinOwes, InMembers, InGroups, Becomes, Same, JobShape, Entering, Leaving
  <2>4. QED
    BY <1>1, <1>2, <1>3, <2>1, <2>2, <2>3, JobStep DEF Becomes, Leaving, InMembers
<1>6. QED
  BY <1>4, <1>5

LEMMA ReadMembersStep ==
  ASSUME MembershipIInv, NEW s \in Sessions, ReadMembers(s) PROVE MembershipIInv'
<1> USE MembershipAssumption
<1> DEFINE u == UserOf[s]
<1>1. /\ MembershipTypeOK /\ JobShape(s) /\ job[s] \in Jobs /\ u \in Users
      /\ members \in [Groups -> [Users -> Nat]] /\ groupsOf \in [Users -> [Groups -> Nat]]
      /\ index \subseteq Sessions \X Groups /\ box \subseteq Groups \X Users
      /\ errs \in 0 .. MaxErrs /\ job[s].claim \subseteq Groups /\ job[s].got \subseteq Groups
      /\ job[s].g \in Groups \union {None}
  BY Known
<1>2. /\ job[s].pc = "members" /\ UNCHANGED <<members, groupsOf, box, index>>
      /\ UNCHANGED <<clientVars, fanVars, last>> /\ UNCHANGED <<conn, crossed, last>>
  BY DEF ReadMembers, redisVars, clientVars
<1>3. CASE Fails /\ NextGroup(s)
  <2>1. errs' # 0 /\ errs' \in 0 .. MaxErrs
    BY <1>1, <1>3, FailsCount
  <2>2. Same(s, "bind", None)
    BY <1>1, <1>3, NextGroupForm DEF PCs
  <2>3. QED
    BY <1>1, <1>2, <2>1, <2>2, JobStep DEF Same, Becomes, JobShape, Entering, Leaving
<1> DEFINE pc == IF u \in Elems(members[job[s].g]) THEN "groups" ELSE "addMember"
<1>4. CASE Works /\ Goto(s, pc)
  <2>1. job[s].g \in Groups
    BY <1>1, <1>2 DEF JobShape, Entering
  <2>2. errs' = errs /\ Goto(s, pc) /\ pc \in PCs
    BY <1>4 DEF Works, PCs
  <2>3. \/ pc = "groups" /\ InMembers(u, job[s].g)
        \/ pc = "addMember" /\ ~InMembers(u, job[s].g)
    BY <1>1, <2>1 DEF InMembers, Elems
  <2> HIDE DEF pc
  <2>4. Same(s, pc, job[s].g)
    BY <1>1, <2>2, GotoForm
  <2>5. JobShape(s)'
    BY <1>1, <1>2, <2>3, <2>4 DEF Same, Becomes, JobShape, Entering, Leaving
  <2>6. ASSUME Own(s) PROVE Own(s)'
    BY <1>1, <1>2, <2>1, <2>3, <2>4, <2>6 DEF Own, Differs, Owes, GotIsListed, LoginOwes, JoinOwes, InMembers, InGroups, Becomes, Same, JobShape, Entering, Leaving
  <2>7. QED
    BY <1>1, <1>2, <2>2, <2>3, <2>4, <2>5, <2>6, JobStep DEF Same, Becomes, Leaving, InMembers
<1>5. QED
  BY <1>3, <1>4 DEF ReadMembers

LEMMA AddMemberStep ==
  ASSUME MembershipIInv, NEW s \in Sessions, AddMember(s) PROVE MembershipIInv'
<1> USE MembershipAssumption
<1> DEFINE u == UserOf[s]
<1>1. /\ MembershipTypeOK /\ JobShape(s) /\ job[s] \in Jobs /\ u \in Users
      /\ members \in [Groups -> [Users -> Nat]] /\ groupsOf \in [Users -> [Groups -> Nat]]
      /\ index \subseteq Sessions \X Groups /\ box \subseteq Groups \X Users
      /\ errs \in 0 .. MaxErrs /\ job[s].claim \subseteq Groups /\ job[s].got \subseteq Groups
      /\ job[s].g \in Groups \union {None}
  BY Known
<1>2. /\ job[s].pc = "addMember" /\ Goto(s, "groups") /\ UNCHANGED <<groupsOf, box, index>>
      /\ UNCHANGED <<clientVars, fanVars, last>> /\ UNCHANGED <<conn, crossed, last>>
  BY DEF AddMember, redisVars, clientVars
<1>3. Same(s, "groups", job[s].g) /\ job[s].g \in Groups
  BY <1>1, <1>2, GotoForm DEF PCs, JobShape, Entering
<1>4. JobShape(s)'
  BY <1>1, <1>2, <1>3 DEF Same, Becomes, JobShape, Entering, Leaving
<1>5. CASE Fails /\ UNCHANGED members
  <2>1. errs' # 0 /\ errs' \in 0 .. MaxErrs
    BY <1>1, <1>5, FailsCount
  <2>2. QED
    BY <1>1, <1>2, <1>3, <1>4, <1>5, <2>1, JobStep DEF Same, Becomes, Leaving, InMembers
<1>6. CASE Works /\ members' = [members EXCEPT ![job[s].g][u] = @ + 1]
  <2>1. errs' = errs /\ members' \in [Groups -> [Users -> Nat]]
    BY <1>1, <1>3, <1>6 DEF Works
  <2>2. \A x \in Groups, v \in Users :
          members'[x][v] = IF x = job[s].g /\ v = u THEN members[x][v] + 1 ELSE members[x][v]
    BY <1>1, <1>3, <1>6
  <2>3. \A x \in Groups : InMembers(u, x)' <=> (InMembers(u, x) \/ x = job[s].g)
    BY <1>1, <2>2 DEF InMembers
  <2>4. ASSUME Own(s) PROVE Own(s)'
    BY <1>1, <1>2, <1>3, <2>3, <2>4
    DEF Own, Differs, Owes, GotIsListed, LoginOwes, JoinOwes, InGroups, Becomes, Same, JobShape, Entering, Leaving
  <2>5. QED
    BY <1>1, <1>2, <1>3, <1>4, <2>1, <2>2, <2>3, <2>4, JobStep DEF Same, Becomes, Leaving
<1>7. QED
  BY <1>5, <1>6 DEF AddMember

LEMMA ReadGroupsStep ==
  ASSUME MembershipIInv, NEW s \in Sessions, ReadGroups(s) PROVE MembershipIInv'
<1> USE MembershipAssumption
<1> DEFINE u == UserOf[s]
<1>1. /\ MembershipTypeOK /\ JobShape(s) /\ job[s] \in Jobs /\ u \in Users
      /\ members \in [Groups -> [Users -> Nat]] /\ groupsOf \in [Users -> [Groups -> Nat]]
      /\ index \subseteq Sessions \X Groups /\ box \subseteq Groups \X Users
      /\ errs \in 0 .. MaxErrs /\ job[s].claim \subseteq Groups /\ job[s].got \subseteq Groups
      /\ job[s].g \in Groups \union {None}
  BY Known
<1>2. /\ job[s].pc = "groups" /\ UNCHANGED <<members, groupsOf, box, index>>
      /\ UNCHANGED <<clientVars, fanVars, last>> /\ UNCHANGED <<conn, crossed, last>>
  BY DEF ReadGroups, redisVars, clientVars
<1>3. CASE Fails /\ NextGroup(s)
  <2>1. errs' # 0 /\ errs' \in 0 .. MaxErrs
    BY <1>1, <1>3, FailsCount
  <2>2. Same(s, "bind", None)
    BY <1>1, <1>3, NextGroupForm DEF PCs
  <2>3. QED
    BY <1>1, <1>2, <2>1, <2>2, JobStep DEF Same, Becomes, JobShape, Entering, Leaving
<1>4. job[s].g \in Groups
  BY <1>1, <1>2 DEF JobShape, Entering
<1>5. CASE Works /\ job[s].g \notin Elems(groupsOf[u]) /\ Goto(s, "addGroup")
  <2>1. Same(s, "addGroup", job[s].g) /\ ~InGroups(u, job[s].g) /\ errs' = errs
    BY <1>1, <1>4, <1>5, GotoForm DEF PCs, Elems, InGroups, Works
  <2>2. JobShape(s)'
    BY <1>1, <1>2, <2>1 DEF Same, Becomes, JobShape, Entering, Leaving
  <2>3. ASSUME Own(s) PROVE Own(s)'
    BY <1>1, <1>2, <1>4, <2>1, <2>3 DEF Own, Differs, Owes, GotIsListed, LoginOwes, JoinOwes, InMembers, InGroups, Becomes, Same, JobShape, Entering, Leaving
  <2>4. QED
    BY <1>1, <1>2, <2>1, <2>2, <2>3, JobStep DEF Same, Becomes, Leaving, InMembers
<1>6. CASE Works /\ job[s].g \in Elems(groupsOf[u]) /\ NextGroup(s)
  <2>1. Same(s, "bind", None) /\ InGroups(u, job[s].g) /\ errs' = errs
    BY <1>1, <1>4, <1>6, NextGroupForm DEF Elems, InGroups, Works
  <2>2. JobShape(s)'
    BY <1>1, <1>2, <2>1 DEF Same, Becomes, JobShape, Entering, Leaving
  <2>3. ASSUME Own(s) PROVE Own(s)'
    BY <1>1, <1>2, <1>4, <2>1, <2>3 DEF Own, Differs, Owes, GotIsListed, LoginOwes, JoinOwes, InMembers, InGroups, Becomes, Same, JobShape, Entering, Leaving
  <2>4. QED
    BY <1>1, <1>2, <2>1, <2>2, <2>3, JobStep DEF Same, Becomes, Leaving, InMembers
<1>7. QED
  BY <1>3, <1>5, <1>6 DEF ReadGroups

LEMMA AddGroupStep ==
  ASSUME MembershipIInv, NEW s \in Sessions, AddGroup(s) PROVE MembershipIInv'
<1> USE MembershipAssumption
<1> DEFINE u == UserOf[s]
<1>1. /\ MembershipTypeOK /\ JobShape(s) /\ job[s] \in Jobs /\ u \in Users
      /\ members \in [Groups -> [Users -> Nat]] /\ groupsOf \in [Users -> [Groups -> Nat]]
      /\ index \subseteq Sessions \X Groups /\ box \subseteq Groups \X Users
      /\ errs \in 0 .. MaxErrs /\ job[s].claim \subseteq Groups /\ job[s].got \subseteq Groups
      /\ job[s].g \in Groups \union {None}
  BY Known
<1>2. /\ job[s].pc = "addGroup" /\ NextGroup(s) /\ UNCHANGED <<members, box, index>>
      /\ UNCHANGED <<clientVars, fanVars, last>> /\ UNCHANGED <<conn, crossed, last>>
  BY DEF AddGroup, redisVars, clientVars
<1>3. Same(s, "bind", None) /\ job[s].g \in Groups
  BY <1>1, <1>2, NextGroupForm DEF JobShape, Entering
<1>4. JobShape(s)'
  BY <1>1, <1>2, <1>3 DEF Same, Becomes, JobShape, Entering, Leaving
<1>5. CASE Fails /\ UNCHANGED groupsOf
  <2>1. errs' # 0 /\ errs' \in 0 .. MaxErrs
    BY <1>1, <1>5, FailsCount
  <2>2. QED
    BY <1>1, <1>2, <1>3, <1>4, <1>5, <2>1, JobStep DEF Same, Becomes, Leaving, InMembers
<1>6. CASE Works /\ groupsOf' = [groupsOf EXCEPT ![u][job[s].g] = @ + 1]
  <2>1. errs' = errs /\ groupsOf' \in [Users -> [Groups -> Nat]]
    BY <1>1, <1>3, <1>6 DEF Works
  <2>2. \A x \in Groups, v \in Users :
          groupsOf'[v][x] = IF x = job[s].g /\ v = u THEN groupsOf[v][x] + 1 ELSE groupsOf[v][x]
    BY <1>1, <1>3, <1>6
  <2>3. \A x \in Groups : /\ InGroups(u, x)' <=> (InGroups(u, x) \/ x = job[s].g)
                          /\ InMembers(u, x)' <=> InMembers(u, x)
    BY <1>1, <1>2, <2>2 DEF InGroups, InMembers
  <2>4. ASSUME Own(s) PROVE Own(s)'
    <3>1. ~InGroups(u, job[s].g) /\ InMembers(u, job[s].g)
      BY <1>2, <2>4 DEF Own, Differs
    <3>2. \A x \in Groups : groupsOf'[u][x] <= 1
      BY <1>1, <2>2, <2>4, <3>1 DEF Own, InGroups
    <3>3. QED
      BY <1>1, <1>2, <1>3, <2>3, <2>4, <3>1, <3>2
      DEF Own, Differs, Owes, GotIsListed, LoginOwes, JoinOwes, Becomes, Same, JobShape, Entering, Leaving
  <2>5. QED
    BY <1>1, <1>2, <1>3, <1>4, <2>1, <2>2, <2>3, <2>4, JobStep DEF Same, Becomes, Leaving
<1>7. QED
  BY <1>5, <1>6 DEF AddGroup

LEMMA DropMemberStep ==
  ASSUME MembershipIInv, NEW s \in Sessions, NEW g \in Groups, DropMember(s, g) PROVE MembershipIInv'
<1> USE MembershipAssumption
<1> DEFINE u == UserOf[s]
<1>1. /\ MembershipTypeOK /\ JobShape(s) /\ job[s] \in Jobs /\ u \in Users
      /\ members \in [Groups -> [Users -> Nat]] /\ groupsOf \in [Users -> [Groups -> Nat]]
      /\ index \subseteq Sessions \X Groups /\ box \subseteq Groups \X Users
      /\ errs \in 0 .. MaxErrs /\ job[s].claim \subseteq Groups /\ job[s].got \subseteq Groups
      /\ job[s].g \in Groups \union {None}
  BY Known
<1>2. /\ job[s].pc = "bind" /\ g \in job[s].stale /\ UNCHANGED <<groupsOf, box, index>>
      /\ UNCHANGED <<clientVars, fanVars, last>> /\ UNCHANGED <<conn, crossed, last>>
  BY DEF DropMember, redisVars, clientVars
<1>3. CASE conn[s] # "bound"
  <2>1. Becomes(s, "bind", job[s].g, job[s].todo, job[s].stale \ {g}, job[s].got)
        /\ UNCHANGED <<members, errs>>
    BY <1>1, <1>3, DropMemberForm DEF DropMember
  <2>2. JobShape(s)'
    BY <1>1, <1>2, <2>1 DEF Same, Becomes, JobShape, Entering, Leaving
  <2>3. ASSUME Own(s) PROVE Own(s)'
    BY <1>1, <1>2, <1>3, <2>1, <2>3 DEF Own, Differs, Owes, GotIsListed, LoginOwes, JoinOwes, InMembers, InGroups, Becomes, Same, JobShape, Entering, Leaving
  <2>4. QED
    BY <1>1, <1>2, <2>1, <2>2, <2>3, JobStep DEF Same, Becomes, Leaving, InMembers
<1>4. ASSUME conn[s] = "bound"
      PROVE  Becomes(s, "dropGroup", g, job[s].todo, job[s].stale \ {g}, job[s].got) /\ JobShape(s)'
  <2>1. Becomes(s, "dropGroup", g, job[s].todo, job[s].stale \ {g}, job[s].got)
    BY <1>1, <1>4, DropMemberForm
  <2>2. QED
    BY <1>1, <1>2, <2>1 DEF Same, Becomes, JobShape, Entering, Leaving
<1>5. CASE conn[s] = "bound" /\ Fails /\ UNCHANGED members
  <2>1. errs' # 0 /\ errs' \in 0 .. MaxErrs
    BY <1>1, <1>5, FailsCount
  <2>2. QED
    BY <1>1, <1>2, <1>4, <1>5, <2>1, JobStep DEF Same, Becomes, Leaving, InMembers
<1>6. CASE conn[s] = "bound" /\ Works /\ members' = [members EXCEPT ![g] = Without(@, u)]
  <2>1. errs' = errs /\ members' \in [Groups -> [Users -> Nat]]
    BY <1>1, <1>6 DEF Works, Without
  <2>2. \A x \in Groups, v \in Users :
          members'[x][v] = IF x = g /\ v = u THEN 0 ELSE members[x][v]
    BY <1>1, <1>6 DEF Without
  <2>3. \A x \in Groups : InMembers(u, x)' <=> (InMembers(u, x) /\ x # g)
    BY <1>1, <2>2 DEF InMembers
  <2>4. ASSUME Own(s) PROVE Own(s)'
    BY <1>1, <1>2, <1>4, <1>6, <2>3, <2>4
    DEF Own, Differs, Owes, GotIsListed, LoginOwes, JoinOwes, InGroups, Becomes, Same, JobShape, Entering, Leaving
  <2>5. QED
    BY <1>1, <1>2, <1>4, <1>6, <2>1, <2>2, <2>3, <2>4, JobStep DEF Same, Becomes, Leaving
<1>7. QED
  BY <1>3, <1>5, <1>6 DEF DropMember

LEMMA DropGroupStep ==
  ASSUME MembershipIInv, NEW s \in Sessions, DropGroup(s) PROVE MembershipIInv'
<1> USE MembershipAssumption
<1> DEFINE u == UserOf[s]
<1>1. /\ MembershipTypeOK /\ JobShape(s) /\ job[s] \in Jobs /\ u \in Users
      /\ members \in [Groups -> [Users -> Nat]] /\ groupsOf \in [Users -> [Groups -> Nat]]
      /\ index \subseteq Sessions \X Groups /\ box \subseteq Groups \X Users
      /\ errs \in 0 .. MaxErrs /\ job[s].claim \subseteq Groups /\ job[s].got \subseteq Groups
      /\ job[s].g \in Groups \union {None}
  BY Known
<1>2. /\ job[s].pc = "dropGroup" /\ Goto(s, "dropBox") /\ UNCHANGED <<members, box, index>>
      /\ UNCHANGED <<clientVars, fanVars, last>> /\ UNCHANGED <<conn, crossed, last>>
  BY DEF DropGroup, redisVars, clientVars
<1>3. Same(s, "dropBox", job[s].g) /\ job[s].g \in Groups
  BY <1>1, <1>2, GotoForm DEF PCs, JobShape, Leaving
<1>4. JobShape(s)'
  BY <1>1, <1>2, <1>3 DEF Same, Becomes, JobShape, Entering, Leaving
<1>5. CASE Fails /\ UNCHANGED groupsOf
  <2>1. errs' # 0 /\ errs' \in 0 .. MaxErrs
    BY <1>1, <1>5, FailsCount
  <2>2. QED
    BY <1>1, <1>2, <1>3, <1>4, <1>5, <2>1, JobStep DEF Same, Becomes, Leaving, InMembers
<1>6. CASE Works /\ groupsOf' = [groupsOf EXCEPT ![u] = Without(@, job[s].g)]
  <2>1. errs' = errs /\ groupsOf' \in [Users -> [Groups -> Nat]]
    BY <1>1, <1>3, <1>6 DEF Works, Without
  <2>2. \A x \in Groups, v \in Users :
          groupsOf'[v][x] = IF x = job[s].g /\ v = u THEN 0 ELSE groupsOf[v][x]
    BY <1>1, <1>3, <1>6 DEF Without
  <2>3. \A x \in Groups : /\ InGroups(u, x)' <=> (InGroups(u, x) /\ x # job[s].g)
                          /\ InMembers(u, x)' <=> InMembers(u, x)
    BY <1>1, <1>2, <2>2 DEF InGroups, InMembers
  <2>4. ASSUME Own(s) PROVE Own(s)'
    <3>1. \A x \in Groups : groupsOf'[u][x] <= 1
      BY <1>1, <2>2, <2>4 DEF Own
    <3>2. QED
      BY <1>1, <1>2, <1>3, <2>3, <2>4, <3>1
      DEF Own, Differs, Owes, GotIsListed, LoginOwes, JoinOwes, Becomes, Same, JobShape, Entering, Leaving
  <2>5. QED
    BY <1>1, <1>2, <1>3, <1>4, <2>1, <2>2, <2>3, <2>4, JobStep DEF Same, Becomes, Leaving
<1>7. QED
  BY <1>5, <1>6 DEF DropGroup

LEMMA DropBoxStep ==
  ASSUME MembershipIInv, NEW s \in Sessions, DropBox(s) PROVE MembershipIInv'
<1> USE MembershipAssumption
<1> DEFINE u == UserOf[s]
<1>1. /\ MembershipTypeOK /\ JobShape(s) /\ job[s] \in Jobs /\ u \in Users
      /\ members \in [Groups -> [Users -> Nat]] /\ groupsOf \in [Users -> [Groups -> Nat]]
      /\ index \subseteq Sessions \X Groups /\ box \subseteq Groups \X Users
      /\ errs \in 0 .. MaxErrs /\ job[s].claim \subseteq Groups /\ job[s].got \subseteq Groups
      /\ job[s].g \in Groups \union {None}
  BY Known
<1>2. /\ job[s].pc = "dropBox" /\ NextGroup(s) /\ UNCHANGED <<members, groupsOf, index>>
      /\ UNCHANGED <<clientVars, fanVars, last>> /\ UNCHANGED <<conn, crossed, last>>
  BY DEF DropBox, redisVars, clientVars
<1>3. Same(s, "bind", None)
  BY <1>1, <1>2, NextGroupForm
<1>4. JobShape(s)'
  BY <1>1, <1>2, <1>3 DEF Same, Becomes, JobShape, Entering, Leaving
<1>5. CASE Fails /\ UNCHANGED box
  <2>1. errs' # 0 /\ errs' \in 0 .. MaxErrs
    BY <1>1, <1>5, FailsCount
  <2>2. QED
    BY <1>1, <1>2, <1>3, <1>4, <1>5, <2>1, JobStep DEF Same, Becomes, Leaving, InMembers
<1>6. CASE Works /\ box' = box \ {<<job[s].g, u>>}
  <2>1. errs' = errs /\ box' \subseteq box /\ <<job[s].g, u>> \notin box'
    BY <1>6 DEF Works
  <2>2. ASSUME Own(s) PROVE Own(s)'
    BY <1>1, <1>2, <1>3, <2>2 DEF Own, Differs, Owes, GotIsListed, LoginOwes, JoinOwes, InMembers, InGroups, Becomes, Same, JobShape, Entering, Leaving
  <2>3. QED
    BY <1>1, <1>2, <1>3, <1>4, <2>1, <2>2, JobStep DEF Same, Becomes, Leaving, InMembers
<1>7. QED
  BY <1>5, <1>6 DEF DropBox

-----------------------------------------------------------------------------
(* The first and the last step of a handler. *)

\* A handler that starts while another of the same user is at work is a
\* meeting: what the two make of the lists is no longer claimed.
LEMMA BeginStep ==
  ASSUME MembershipIInv, NEW s \in Sessions, NEW j \in Jobs, Begin(s, j),
         UNCHANGED <<redisVars, index, errs, fanVars, last>>,
         conn' \in [Sessions -> {"closed", "open", "bound"}],
         \A t \in Sessions : t # s => conn'[t] = conn[t],
         j.pc \in {"list", "bind"}, j.got = {}, j.stale = {}, j.todo \subseteq j.claim,
         j.pc = "list" <=> j.login
  PROVE  MembershipIInv'
<1> USE MembershipAssumption
<1> DEFINE u == UserOf[s]
<1>1. /\ MembershipTypeOK /\ Meetings /\ u \in Users /\ job[s].pc = "idle"
      /\ UNCHANGED <<members, groupsOf, box>> /\ UNCHANGED <<fan, msgs, stray>>
      /\ UNCHANGED <<index, errs, last>>
      /\ jobs' = jobs + 1 /\ jobs < MaxJobs
  BY Known DEF MembershipIInv, Begin, redisVars, fanVars
<1>2. job' \in [Sessions -> Jobs] /\ job'[s] = j /\ \A t \in Sessions : t # s => job'[t] = job[t]
  BY <1>1 DEF Begin, MembershipTypeOK
<1>3. Busy(u) \subseteq Sessions /\ \A t \in Sessions : t \in Busy(u) <=> UserOf[t] = u /\ job[t].pc # "idle"
  BY DEF Busy
<1>4. /\ Busy(u) = {} => crowd' = crowd \ {s} /\ crossed' = crossed
      /\ Busy(u) # {} => crowd' = crowd \union Busy(u) \union {s} /\ crossed' = crossed \union {u}
  BY DEF Begin
<1>5. crossed \subseteq crossed' /\ crowd' \subseteq Sessions /\ crossed' \subseteq Users
      /\ (u \notin crossed' => Busy(u) = {})
  BY <1>1, <1>3, <1>4 DEF MembershipTypeOK
<1>6. MembershipTypeOK'
  BY <1>1, <1>2, <1>5 DEF MembershipTypeOK
<1>7. Meetings'
  <2>1. \A t \in crowd' : UserOf[t] \in crossed'
    BY <1>1, <1>3, <1>4 DEF Meetings
  <2>2. ASSUME NEW a \in Sessions, NEW b \in Sessions, UserOf[a] = UserOf[b], UserOf[a] \notin crossed',
               job'[a].pc # "idle", job'[b].pc # "idle"
        PROVE  a = b
    <3>1. CASE UserOf[a] = u
      BY <1>2, <1>3, <1>5, <2>2, <3>1
    <3>2. CASE UserOf[a] # u
      BY <1>1, <1>2, <1>5, <2>2, <3>2 DEF Meetings
    <3>3. QED
      BY <3>1, <3>2
  <2>3. QED
    BY <2>1, <2>2 DEF Meetings
<1>8. Shapes'
  <2>1. JobShape(s)'
    BY <1>2 DEF JobShape, Entering, Leaving, Jobs
  <2>2. QED
    BY <1>1, <1>2, <2>1 DEF MembershipIInv, Shapes, JobShape
<1>9. ASSUME errs' = 0 PROVE Agreement' /\ Reconciled'
  <2>1. ASSUME u \notin crossed' PROVE Own(s)'
    <3>1. \A t \in Sessions : UserOf[t] = u => job[t].pc = "idle"
      BY <1>3, <1>5, <2>1
    <3>2. Own(s)
      BY <1>1, <1>5, <1>9, <2>1, <3>1, OwnHolds
    <3>3. \A g \in Groups : groupsOf[u][g] <= 1 /\ (InMembers(u, g) <=> InGroups(u, g))
      BY <1>1, <3>2 DEF Own
    <3>4. last[u] # None => \A g \in Groups : /\ g \in last[u].in => InGroups(u, g)
                                              /\ InGroups(u, g) => g \in last[u].upTo
      BY <1>1, <3>2 DEF Own
    <3>5. QED
      BY <1>1, <1>2, <3>3, <3>4
      DEF Own, Differs, Owes, GotIsListed, JoinOwes, InMembers, InGroups
  <2>2. \A t \in Sessions : UserOf[t] = u /\ t # s /\ u \notin crossed' => job[t].pc = "idle"
    BY <1>3, <1>5
  <2>3. QED
    BY <1>1, <1>2, <1>5, <1>9, <2>1, <2>2, OwnSuffices
<1>10. ASSUME errs' = 0 PROVE MailOfMembers'
  <2>1. \A t \in Sessions : job[t].pc \in Leaving => t # s
    BY <1>1 DEF Leaving
  <2>2. MailOfMembers
    BY <1>1, <1>10 DEF MembershipIInv
  <2>3. QED
    BY <1>1, <1>2, <2>1, <2>2 DEF MailOfMembers, InMembers
<1>11. QED
  BY <1>6, <1>7, <1>8, <1>9, <1>10 DEF MembershipIInv

LEMMA LoginStep ==
  ASSUME MembershipIInv, NEW s \in Sessions, NEW G \in SUBSET Groups, Login(s, G)
  PROVE  MembershipIInv'
<1> DEFINE j == [Idle EXCEPT !.pc = "list", !.login = TRUE, !.claim = G, !.todo = G]
<1>1. /\ j \in Jobs /\ j.pc = "list" /\ j.login /\ j.got = {} /\ j.stale = {}
      /\ j.todo = G /\ j.claim = G
  BY DEF Idle, Jobs
<1>2. Begin(s, j) /\ UNCHANGED <<redisVars, index, errs, fanVars, last>>
      /\ conn' = [conn EXCEPT ![s] = "bound"]
  BY DEF Login
<1> HIDE DEF j
<1>3. conn' \in [Sessions -> {"closed", "open", "bound"}] /\ \A t \in Sessions : t # s => conn'[t] = conn[t]
  BY <1>2 DEF MembershipIInv, MembershipTypeOK
<1>4. QED
  BY <1>1, <1>2, <1>3, BeginStep

LEMMA JoinStep ==
  ASSUME MembershipIInv, NEW s \in Sessions, NEW g \in Groups, Join(s, g)
  PROVE  MembershipIInv'
<1> DEFINE j == [Idle EXCEPT !.pc = "bind", !.claim = {g}, !.todo = {g}]
<1>1. /\ j \in Jobs /\ j.pc = "bind" /\ ~j.login /\ j.got = {} /\ j.stale = {}
      /\ j.todo = {g} /\ j.claim = {g}
  BY DEF Idle, Jobs
<1>2. Begin(s, j) /\ UNCHANGED <<redisVars, index, errs, fanVars, last>> /\ UNCHANGED conn
  BY DEF Join
<1> HIDE DEF j
<1>3. conn' \in [Sessions -> {"closed", "open", "bound"}] /\ \A t \in Sessions : t # s => conn'[t] = conn[t]
  BY <1>2 DEF MembershipIInv, MembershipTypeOK
<1>4. QED
  BY <1>1, <1>2, <1>3, BeginStep

\* The answer: what the handler owed is what the last login is known for.
LEMMA FinishStep ==
  ASSUME MembershipIInv, NEW s \in Sessions, Finish(s) PROVE MembershipIInv'
<1> USE MembershipAssumption
<1> DEFINE u == UserOf[s]
<1>1. /\ MembershipTypeOK /\ Meetings /\ Shapes /\ JobShape(s) /\ job[s] \in Jobs /\ u \in Users
      /\ job[s].claim \subseteq Groups /\ job[s].got \subseteq Groups
      /\ job[s].pc = "bind" /\ job[s].stale = {}
      /\ UNCHANGED <<members, groupsOf, box>> /\ UNCHANGED <<fan, msgs, stray>>
      /\ UNCHANGED <<conn, jobs, crowd, crossed>> /\ UNCHANGED <<index, errs>>
  BY Known DEF MembershipIInv, Finish, redisVars, fanVars, clientVars
<1>2. /\ job' \in [Sessions -> Jobs] /\ job'[s].pc = "idle" /\ job'[s].todo = {} /\ job'[s].got = {}
      /\ job'[s].stale = {}
      /\ \A t \in Sessions : t # s => job'[t] = job[t]
  BY <1>1 DEF Finish, MembershipTypeOK, Idle, Jobs
<1> DEFINE Past == [in : SUBSET Groups, upTo : SUBSET Groups]
           new == IF s \in crowd \/ conn[s] # "bound" THEN None
                  ELSE IF job[s].login THEN [in |-> job[s].got, upTo |-> job[s].claim]
                  ELSE IF last[u] = None THEN None
                  ELSE [in |-> last[u].in \union job[s].got, upTo |-> last[u].upTo \union job[s].claim]
<1>3. last' = [last EXCEPT ![u] = new]
  BY DEF Finish
<1>4. last[u] \in {None} \union Past
  BY <1>1 DEF MembershipTypeOK
<1>5. new \in {None} \union Past
  BY <1>1, <1>4
<1>6. /\ new # None => s \notin crowd /\ conn[s] = "bound"
      /\ new # None /\ job[s].login => new.in = job[s].got /\ new.upTo = job[s].claim
      /\ new # None /\ ~job[s].login => /\ last[u] # None
                                        /\ new.in = last[u].in \union job[s].got
                                        /\ new.upTo = last[u].upTo \union job[s].claim
  BY <1>1, <1>4
<1> HIDE DEF new
<1>7. /\ last' \in [Users -> {None} \union Past] /\ last'[u] = new
      /\ \A v \in Users : v # u => last'[v] = last[v]
  BY <1>1, <1>3, <1>5 DEF MembershipTypeOK
<1>8. MembershipTypeOK'
  BY <1>1, <1>2, <1>7 DEF MembershipTypeOK
<1>9. Meetings'
  <2>1. \A t \in Sessions : job'[t].pc # "idle" => job[t].pc # "idle"
    BY <1>1, <1>2
  <2>2. QED
    BY <1>1, <2>1 DEF Meetings
<1>10. Shapes'
  <2>1. JobShape(s)'
    BY <1>2 DEF JobShape, Entering, Leaving, Jobs
  <2>2. QED
    BY <1>1, <1>2, <2>1 DEF Shapes, JobShape
<1>11. ASSUME errs' = 0 PROVE Agreement' /\ Reconciled'
  <2>1. ASSUME u \notin crossed' PROVE Own(s)'
    <3>1. Own(s)
      BY <1>1, <1>11, <2>1, OwnHolds
    <3>2. \A g \in Groups : groupsOf[u][g] <= 1 /\ (InMembers(u, g) <=> InGroups(u, g))
      BY <1>1, <3>1 DEF Own
    <3>3. ASSUME new # None, NEW g \in Groups
          PROVE  (g \in new.in => InGroups(u, g)) /\ (InGroups(u, g) => g \in new.upTo)
      <4>1. g \in job[s].got => InGroups(u, g)
        BY <1>1, <1>6, <3>1, <3>3 DEF Own, Owes, GotIsListed, Entering
      <4>2. CASE job[s].login
        BY <1>1, <1>6, <3>1, <3>3, <4>1, <4>2 DEF Own, Owes, LoginOwes
      <4>3. CASE ~job[s].login
        BY <1>1, <1>6, <3>1, <3>3, <4>1, <4>3 DEF Own, Owes, JoinOwes
      <4>4. QED
        BY <4>2, <4>3
    <3>4. QED
      BY <1>1, <1>2, <1>7, <3>2, <3>3 DEF Own, Differs, Owes, InMembers, InGroups
  <2>2. \A t \in Sessions : UserOf[t] = u /\ t # s /\ u \notin crossed' => job[t].pc = "idle"
    BY <1>1 DEF Meetings
  <2>3. QED
    BY <1>1, <1>2, <1>7, <1>11, <2>1, <2>2, OwnSuffices
<1>12. ASSUME errs' = 0 PROVE MailOfMembers'
  <2>1. \A t \in Sessions : job[t].pc \in Leaving => t # s
    BY <1>1 DEF Leaving
  <2>2. MailOfMembers
    BY <1>1, <1>12 DEF MembershipIInv
  <2>3. QED
    BY <1>1, <1>2, <2>1, <2>2 DEF MailOfMembers, InMembers
<1>13. QED
  BY <1>8, <1>9, <1>10, <1>11, <1>12 DEF MembershipIInv
-----------------------------------------------------------------------------
(* Connections come and go, the worker writes to mailboxes: the lists stay. *)
LEMMA ConnStep ==
  ASSUME MembershipIInv, UNCHANGED <<job, redisVars, errs, jobs, crowd, crossed, fanVars, last>>,
         conn' \in [Sessions -> {"closed", "open", "bound"}], index' \subseteq Sessions \X Groups,
         \A s \in Sessions : conn'[s] = "bound" => conn[s] = "bound" \/ job[s].pc = "idle"
  PROVE  MembershipIInv'
<1>1. /\ UNCHANGED <<members, groupsOf, box>> /\ UNCHANGED <<fan, msgs, stray>>
      /\ UNCHANGED <<job, errs, jobs>> /\ UNCHANGED <<crowd, crossed, last>>
  BY DEF redisVars, fanVars
<1>2. MembershipTypeOK' /\ Meetings' /\ Shapes'
  BY <1>1 DEF MembershipIInv, MembershipTypeOK, Meetings, Shapes, JobShape
<1>3. ASSUME errs = 0 PROVE Agreement' /\ Reconciled' /\ MailOfMembers'
  <2>1. Agreement /\ Reconciled /\ MailOfMembers
    BY <1>3 DEF MembershipIInv
  <2>2. Agreement'
    BY <1>1, <2>1 DEF Agreement, Differs, Halfway, InMembers, InGroups
  <2>3. ASSUME NEW s \in Sessions, UserOf[s] \notin crossed PROVE Owes(s)'
    BY <1>1, <2>1, <2>3 DEF Reconciled, Owes, GotIsListed, LoginOwes, JoinOwes, InGroups
  <2>4. Reconciled'
    BY <1>1, <2>1, <2>3 DEF Reconciled, InGroups
  <2>5. MailOfMembers'
    BY <1>1, <2>1 DEF MailOfMembers, InMembers
  <2>6. QED
    BY <2>2, <2>4, <2>5
<1>4. QED
  BY <1>1, <1>2, <1>3 DEF MembershipIInv

LEMMA FanStep ==
  ASSUME MembershipIInv, UNCHANGED <<clientVars, job, members, groupsOf, index, last>>,
         fan' \in Fans, fan'.pc # "idle" => fan'.g \in Groups,
         msgs' \in 0 .. MaxMsgs, errs' \in 0 .. MaxErrs, errs' = 0 => errs = 0,
         box' \subseteq Groups \X Users, stray' \subseteq Groups \X Users,
         \A p \in box' \ stray' : p \in box \ stray \/ InMembers(p[2], p[1])
  PROVE  MembershipIInv'
<1>1. /\ UNCHANGED <<conn, jobs, crowd, crossed>> /\ UNCHANGED <<job, members, groupsOf>>
      /\ UNCHANGED <<index, last>>
  BY DEF clientVars
<1>2. MembershipTypeOK' /\ Meetings' /\ Shapes'
  BY <1>1 DEF MembershipIInv, MembershipTypeOK, Meetings, Shapes, JobShape
<1>3. ASSUME errs' = 0 PROVE Agreement' /\ Reconciled' /\ MailOfMembers'
  <2>1. Agreement /\ Reconciled /\ MailOfMembers
    BY <1>3 DEF MembershipIInv
  <2>2. Agreement'
    BY <1>1, <2>1 DEF Agreement, Differs, Halfway, InMembers, InGroups
  <2>3. Reconciled'
    BY <1>1, <2>1 DEF Reconciled, Owes, GotIsListed, LoginOwes, JoinOwes, InGroups
  <2>4. MailOfMembers'
    BY <1>1, <2>1 DEF MailOfMembers, InMembers
  <2>5. QED
    BY <2>2, <2>3, <2>4
<1>4. QED
  BY <1>2, <1>3 DEF MembershipIInv

LEMMA ConnectionSteps ==
  ASSUME MembershipIInv, NEW s \in Sessions, Connect(s) \/ Close(s) \/ LoginBare(s)
  PROVE  MembershipIInv'
<1>1. /\ conn \in [Sessions -> {"closed", "open", "bound"}] /\ index \subseteq Sessions \X Groups
  BY DEF MembershipIInv, MembershipTypeOK
<1>2. CASE Connect(s)
  BY <1>1, <1>2, ConnStep DEF Connect
<1>3. CASE Close(s)
  BY <1>1, <1>3, ConnStep DEF Close
<1>4. CASE LoginBare(s)
  BY <1>1, <1>4, ConnStep DEF LoginBare
<1>5. QED
  BY <1>2, <1>3, <1>4

LEMMA FanSteps ==
  ASSUME MembershipIInv, (\E g \in Groups : FanStart(g)) \/ FanRead \/ (\E u \in Users : FanPush(u))
  PROVE  MembershipIInv'
<1> USE MembershipAssumption
<1>1. /\ MembershipTypeOK /\ fan \in Fans /\ (fan.pc # "idle" => fan.g \in Groups)
      /\ msgs \in 0 .. MaxMsgs /\ errs \in 0 .. MaxErrs
      /\ box \subseteq Groups \X Users /\ stray \subseteq Groups \X Users
      /\ members \in [Groups -> [Users -> Nat]]
  BY DEF MembershipIInv, MembershipTypeOK, Shapes
<1>2. ASSUME NEW g \in Groups, FanStart(g) PROVE MembershipIInv'
  <2>1. UNCHANGED <<clientVars, job, members, groupsOf, index, last>> /\ UNCHANGED <<box, stray, errs>>
    BY <1>2 DEF FanStart, redisVars
  <2>2. fan' \in Fans /\ fan'.g = g
    BY <1>2 DEF FanStart, NoFan, Fans
  <2>3. msgs' \in 0 .. MaxMsgs
    <3>1. msgs < MaxMsgs /\ msgs' = msgs + 1 /\ msgs \in 0 .. MaxMsgs /\ MaxMsgs \in Nat
      BY <1>1, <1>2 DEF FanStart
    <3> HIDE MembershipAssumption
    <3>2. QED
      BY <3>1
  <2>4. QED
    BY <1>1, <2>1, <2>2, <2>3, FanStep
<1>3. ASSUME FanRead PROVE MembershipIInv'
  <2>1. UNCHANGED <<clientVars, job, members, groupsOf, index, last>> /\ UNCHANGED <<box, stray, msgs>>
    BY <1>3 DEF FanRead, redisVars
  <2>2. Elems(members[fan.g]) \subseteq Users
    BY <1>1, <1>3 DEF Elems, FanRead
  <2>3. NoFan \in Fans /\ NoFan.pc = "idle"
    BY DEF NoFan, Fans
  <2>4. fan' \in Fans /\ (fan'.pc # "idle" => fan'.g \in Groups)
    BY <1>1, <1>3, <2>2, <2>3 DEF FanRead, Fans
  <2>5. errs' \in 0 .. MaxErrs /\ (errs' = 0 => errs = 0)
    BY <1>1, <1>3, FailsCount DEF FanRead, Works
  <2>6. QED
    BY <1>1, <2>1, <2>4, <2>5, FanStep
<1>4. ASSUME NEW u \in Users, FanPush(u) PROVE MembershipIInv'
  <2>1. UNCHANGED <<clientVars, job, members, groupsOf, index, last>> /\ UNCHANGED msgs
    BY <1>4 DEF FanPush
  <2>2. NoFan \in Fans /\ NoFan.pc = "idle"
    BY DEF NoFan, Fans
  <2>3. fan' \in Fans /\ (fan'.pc # "idle" => fan'.g \in Groups)
    BY <1>1, <1>4, <2>2 DEF FanPush, Fans
  <2>4. errs' \in 0 .. MaxErrs /\ (errs' = 0 => errs = 0)
    BY <1>1, <1>4, FailsCount DEF FanPush, Works
  <2>5. fan.g \in Groups
    BY <1>1, <1>4 DEF FanPush
  <2>6. CASE UNCHANGED <<box, stray>>
    BY <1>1, <2>1, <2>3, <2>4, <2>6, FanStep
  <2>7. CASE /\ box' = box \union {<<fan.g, u>>}
             /\ stray' = IF u \in Elems(members[fan.g]) THEN stray ELSE stray \union {<<fan.g, u>>}
    <3>1. box' \subseteq Groups \X Users /\ stray' \subseteq Groups \X Users
      BY <1>1, <2>5, <2>7
    <3>2. u \in Elems(members[fan.g]) => InMembers(u, fan.g)
      BY <1>1, <2>5 DEF Elems, InMembers
    <3>3. ASSUME NEW p \in box' \ stray' PROVE p \in box \ stray \/ InMembers(p[2], p[1])
      <4>1. CASE p = <<fan.g, u>>
        BY <2>7, <3>2, <3>3, <4>1
      <4>2. CASE p # <<fan.g, u>>
        BY <2>7, <3>3, <4>2
      <4>3. QED
        BY <4>1, <4>2
    <3>4. QED
      BY <1>1, <2>1, <2>3, <2>4, <3>1, <3>3, FanStep
  <2>8. QED
    BY <1>4, <2>6, <2>7 DEF FanPush
<1>5. QED
  BY <1>2, <1>3, <1>4
-----------------------------------------------------------------------------
LEMMA Initial == Init => MembershipIInv
<1> SUFFICES ASSUME Init PROVE MembershipIInv
  OBVIOUS
<1> USE MembershipAssumption
<1>1. /\ Idle \in Jobs /\ Idle.pc = "idle" /\ Idle.todo = {} /\ Idle.got = {} /\ Idle.stale = {}
      /\ NoFan \in Fans /\ NoFan.pc = "idle"
  BY DEF Idle, Jobs, NoFan, Fans
<1>2. /\ job = [s \in Sessions |-> Idle] /\ fan = NoFan /\ crowd = {} /\ crossed = {} /\ box = {}
      /\ members = [g \in Groups |-> [u \in Users |-> 0]]
      /\ groupsOf = [u \in Users |-> [g \in Groups |-> 0]]
      /\ last = [u \in Users |-> None]
  BY DEF Init
<1>3. \A s \in Sessions : job[s] = Idle
  BY <1>2
<1>4. MembershipTypeOK
  BY <1>1 DEF Init, MembershipTypeOK
<1>5. Meetings /\ Shapes
  BY <1>1, <1>2, <1>3 DEF Meetings, Shapes, JobShape, Entering, Leaving
<1>6. Agreement
  BY <1>1, <1>2, <1>3 DEF Agreement, InMembers, InGroups, Differs
<1>7. Reconciled
  BY <1>1, <1>2, <1>3 DEF Reconciled, Owes
<1>8. MailOfMembers
  BY <1>2 DEF MailOfMembers
<1>9. QED
  BY <1>4, <1>5, <1>6, <1>7, <1>8 DEF MembershipIInv

LEMMA Step == MembershipIInv /\ [Next]_vars => MembershipIInv'
<1> SUFFICES ASSUME MembershipIInv, [Next]_vars PROVE MembershipIInv'
  OBVIOUS
<1>1. ASSUME NEW s \in Sessions, SessionStep(s) PROVE MembershipIInv'
  <2>1. CASE Connect(s) \/ Close(s) \/ LoginBare(s)
    BY <2>1, ConnectionSteps
  <2>2. CASE \/ ReadList(s) \/ ReadMembers(s) \/ AddMember(s) \/ ReadGroups(s) \/ AddGroup(s)
    BY <2>2, ReadListStep, ReadMembersStep, AddMemberStep, ReadGroupsStep, AddGroupStep
  <2>3. CASE DropGroup(s) \/ DropBox(s) \/ Finish(s)
    BY <2>3, DropGroupStep, DropBoxStep, FinishStep
  <2>4. CASE \E G \in SUBSET Groups : Login(s, G)
    BY <2>4, LoginStep
  <2>5. CASE \E g \in Groups : Join(s, g) \/ Refuse(s, g) \/ Bind(s, g) \/ DropMember(s, g)
    BY <2>5, JoinStep, RefuseStep, BindStep, DropMemberStep
  <2>6. QED
    BY <1>1, <2>1, <2>2, <2>3, <2>4, <2>5 DEF SessionStep
<1>2. CASE (\E g \in Groups : FanStart(g)) \/ FanRead \/ (\E u \in Users : FanPush(u))
  BY <1>2, FanSteps
<1>3. CASE UNCHANGED vars
  <2>1. /\ UNCHANGED <<conn, job, members, groupsOf>> /\ UNCHANGED <<index, box, fan, errs>>
        /\ UNCHANGED <<jobs, msgs, crowd, crossed>> /\ UNCHANGED <<stray, last>>
    BY <1>3 DEF vars
  <2>2. QED
    BY <2>1, ConnStep DEF redisVars, fanVars, MembershipIInv, MembershipTypeOK
<1>4. QED
  BY <1>1, <1>2, <1>3 DEF Next

\* The invariant for every number of users, groups, connections and calls.
THEOREM MembershipHolds == Spec => []MembershipIInv
BY Initial, Step, PTL DEF Spec

\* MembershipTypeOK: every list, index and handler has its type, whatever fails.
THEOREM MembershipTypes == Spec => []MembershipTypeOK
<1>1. MembershipIInv => MembershipTypeOK
  BY DEF MembershipIInv
<1>2. QED
  BY <1>1, MembershipHolds, PTL

\* ListsAgree: while no Redis call fails, the two lists of a user whose
\* handlers never met say the same once they are done, and hold nothing twice
\* (RedisImBindListener).
THEOREM ListsStayInStep == Spec => []ListsAgree
<1>1. MembershipIInv => ListsAgree
  <2> SUFFICES ASSUME MembershipIInv, errs = 0, NEW u \in Users \ crossed
               PROVE  /\ Unique(groupsOf[u])
                      /\ Busy(u) = {} => \A g \in Groups : u \in Elems(members[g]) <=> g \in Elems(groupsOf[u])
    BY DEF ListsAgree
  <2>1. members \in [Groups -> [Users -> Nat]] /\ groupsOf \in [Users -> [Groups -> Nat]] /\ Agreement
    BY DEF MembershipIInv, MembershipTypeOK
  <2>2. Unique(groupsOf[u])
    BY <2>1 DEF Unique, Agreement
  <2>3. ASSUME Busy(u) = {}, NEW g \in Groups PROVE u \in Elems(members[g]) <=> g \in Elems(groupsOf[u])
    <3>1. \A s \in Sessions : UserOf[s] = u => job[s].pc = "idle"
      BY <2>3 DEF Busy
    <3>2. ~Halfway(u, g)
      BY <3>1 DEF Halfway
    <3>3. QED
      BY <2>1, <3>2 DEF Agreement, InMembers, InGroups, Elems
  <2>4. QED
    BY <2>2, <2>3
<1>2. QED
  BY <1>1, MembershipHolds, PTL

\* LoginReconciles: then they are what the last login was granted, with the
\* joins since (LoginReqHandler.bindUnbindGroup).
THEOREM LoginGrantsExactly == Spec => []LoginReconciles
<1>1. MembershipIInv => LoginReconciles
  <2> SUFFICES ASSUME MembershipIInv, errs = 0, NEW u \in Users \ crossed, Busy(u) = {}, last[u] # None
               PROVE  /\ last[u].in \subseteq Elems(groupsOf[u])
                      /\ Elems(groupsOf[u]) \subseteq last[u].upTo
    BY DEF LoginReconciles
  <2>1. \A s \in Sessions : UserOf[s] = u => job[s].pc = "idle"
    BY DEF Busy
  <2>2. groupsOf \in [Users -> [Groups -> Nat]] /\ Reconciled
        /\ last[u].in \subseteq Groups /\ Elems(groupsOf[u]) \subseteq Groups
    BY DEF MembershipIInv, MembershipTypeOK, Elems
  <2>3. \A g \in Groups : (g \in last[u].in => InGroups(u, g)) /\ (InGroups(u, g) => g \in last[u].upTo)
    BY <2>1, <2>2 DEF Reconciled
  <2>4. \A g \in Groups : g \in Elems(groupsOf[u]) <=> InGroups(u, g)
    BY <2>2 DEF Elems, InGroups
  <2>5. QED
    BY <2>2, <2>3, <2>4
<1>2. QED
  BY <1>1, MembershipHolds, PTL

\* OutsiderHasNoMail: whoever is no member and has no handler at work has no
\* mail of the group, but for what a worker that had read the list before
\* still writes (onAfterGroupUnbind).
THEOREM NoMailOutside == Spec => []OutsiderHasNoMail
<1>1. MembershipIInv => OutsiderHasNoMail
  <2> SUFFICES ASSUME MembershipIInv, errs = 0, NEW p \in box \ stray, Busy(p[2]) = {}
               PROVE  p[2] \in Elems(members[p[1]])
    BY DEF OutsiderHasNoMail
  <2>1. /\ members \in [Groups -> [Users -> Nat]] /\ p[1] \in Groups /\ p[2] \in Users /\ MailOfMembers
    BY DEF MembershipIInv, MembershipTypeOK
  <2>2. ~\E s \in Sessions : UserOf[s] = p[2] /\ job[s].g = p[1] /\ job[s].pc \in Leaving
    BY DEF Busy, Leaving
  <2>3. QED
    BY <2>1, <2>2 DEF MailOfMembers, InMembers, Elems
<1>2. QED
  BY <1>1, MembershipHolds, PTL
=============================================================================
