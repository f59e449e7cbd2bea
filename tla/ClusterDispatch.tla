--------------------------- MODULE ClusterDispatch ---------------------------
(***************************************************************************)
(* ImAio.sendToUser and sendToGroup on several nodes: a packet goes to the  *)
(* connections bound on the sender's node, then it is published on a Redis  *)
(* topic, and every other node gives it to the connections bound there when *)
(* it arrives.  The topic does not keep the order of what is published      *)
(* asynchronously and reaches only who is listening.                        *)
(***************************************************************************)
EXTENDS Integers, FiniteSets

CONSTANTS
  Nodes,     \* server processes, each with a CLIENTID of its own
  Conns,     \* connections, each made once
  HomeOf,    \* HomeOf[c]: the node c is connected to
  Packets,   \* calls of sendToUser and sendToGroup
  SenderOf,  \* SenderOf[p]: the node that makes the call
  ModeOf,    \* ModeOf[p]: "user" or "group"
  Audience,  \* Audience[p]: the connections of that user, or that join that group
  MaxLosses  \* bound on publications and deliveries lost, and on crashes

Modes == {"user", "group"}

ASSUME ClusterAssumption ==
  /\ HomeOf \in [Conns -> Nodes]
  /\ SenderOf \in [Packets -> Nodes]
  /\ ModeOf \in [Packets -> Modes]
  /\ Audience \in [Packets -> SUBSET Conns]
  /\ MaxLosses \in Nat

VARIABLES
  cluster4,  \* the modes for which ImClusterConfig has clustering on
  bound,     \* connections bound to their user and groups
  closed,    \* connections that are gone
  stage,     \* stage[p]: "new", "local" once the local copies are out, "sent"
  inbox,     \* inbox[n]: copies on their way to n's listener, <<p, publisher>>
  got,       \* got[c][p]: copies c was given: 0, 1 or 2 for more
  lost,      \* history: <<n, p>> for each copy that never reached n
  stayed,    \* history: stayed[p]: connections bound ever since p was called
  losses

clusterVars == <<cluster4, bound, closed, stage, inbox, got, lost, stayed, losses>>

ClusterTypeOK ==
  /\ cluster4 \in SUBSET Modes
  /\ bound \in SUBSET Conns
  /\ closed \in SUBSET (Conns \ bound)
  /\ stage \in [Packets -> {"new", "local", "sent"}]
  /\ inbox \in [Nodes -> SUBSET (Packets \X Nodes)]
  /\ got \in [Conns -> [Packets -> 0 .. 2]]
  /\ lost \in SUBSET (Nodes \X Packets)
  /\ stayed \in [Packets -> SUBSET Conns]
  /\ losses \in 0 .. MaxLosses

ClusterInit ==
  /\ cluster4 \in SUBSET Modes
  /\ bound = {} /\ closed = {}
  /\ stage = [p \in Packets |-> "new"]
  /\ inbox = [n \in Nodes |-> {}]
  /\ got = [c \in Conns |-> [p \in Packets |-> 0]]
  /\ lost = {}
  /\ stayed = [p \in Packets |-> {}]
  /\ losses = 0
-----------------------------------------------------------------------------
Loss == losses < MaxLosses /\ losses' = losses + 1

\* send to each of a set of connections, under the set's read lock.
Give(C, p) ==
  got' = [c \in Conns |->
            IF c \in C THEN [got[c] EXCEPT ![p] = IF @ = 0 THEN 1 ELSE 2] ELSE got[c]]

\* The connections the local index of n has for p.
Local(n, p) == {c \in bound \intersect Audience[p] : HomeOf[c] = n}

\* clusterToUser, clusterToGroup.
Clustered(p) == ModeOf[p] \in cluster4

Gone(C) ==
  /\ bound' = bound \ C
  /\ closed' = closed \union C
  /\ stayed' = [p \in Packets |-> stayed[p] \ C]
-----------------------------------------------------------------------------
Bind(c) ==
  /\ c \notin bound \union closed
  /\ bound' = bound \union {c}
  /\ UNCHANGED <<cluster4, closed, stage, inbox, got, lost, stayed, losses>>

Unbind(c) ==
  /\ c \in bound
  /\ Gone({c})
  /\ UNCHANGED <<cluster4, stage, inbox, got, lost, losses>>

\* The loop over the local connections; with none there is nothing to do.
SendLocal(p) ==
  /\ stage[p] = "new"
  /\ Give(Local(SenderOf[p], p), p)
  /\ stayed' = [stayed EXCEPT ![p] = bound \intersect Audience[p]]
  /\ stage' = [stage EXCEPT ![p] = "local"]
  /\ UNCHANGED <<cluster4, bound, closed, inbox, lost, losses>>

\* The finally block, or the branch without local connections.  publishAsync
\* is not waited for: nobody learns that it failed.
Others(p) == Nodes \ {SenderOf[p]}

\* (Mutant: an early return where there are no local connections.)
Publish_IfLocal(p) ==
  /\ stage[p] = "local"
  /\ stage' = [stage EXCEPT ![p] = "sent"]
  /\ UNCHANGED <<lost, losses>>
  /\ inbox' = IF Clustered(p) /\ \E c \in Conns : HomeOf[c] = SenderOf[p] /\ got[c][p] > 0
              THEN [n \in Nodes |-> inbox[n] \union {<<p, SenderOf[p]>>}] ELSE inbox
  /\ UNCHANGED <<cluster4, bound, closed, got, stayed>>

Publish(p) ==
  /\ stage[p] = "local"
  /\ stage' = [stage EXCEPT ![p] = "sent"]
  /\ \/ /\ ~Clustered(p)
        /\ UNCHANGED <<inbox, lost, losses>>
     \/ /\ Clustered(p)
        /\ inbox' = [n \in Nodes |-> inbox[n] \union {<<p, SenderOf[p]>>}]
        /\ UNCHANGED <<lost, losses>>
     \/ /\ Clustered(p) /\ Loss
        /\ lost' = lost \union (Others(p) \X {p})
        /\ UNCHANGED inbox
  /\ UNCHANGED <<cluster4, bound, closed, got, stayed>>

\* onMessage: the node's own are ignored; the others are marked fromCluster
\* and given to the local connections, which publishes nothing.
\* (Mutants: the node's own are not ignored; the mark is not looked at.)
OnMessage_Own(n, p, from) ==
  /\ <<p, from>> \in inbox[n]
  /\ inbox' = [inbox EXCEPT ![n] = @ \ {<<p, from>>}]
  /\ Give(Local(n, p), p)
  /\ UNCHANGED <<cluster4, bound, closed, stage, lost, stayed, losses>>
OnMessage_Again(n, p, from) ==
  /\ <<p, from>> \in inbox[n]
  /\ IF from = n THEN inbox' = [inbox EXCEPT ![n] = @ \ {<<p, from>>}] /\ UNCHANGED got
     ELSE /\ inbox' = [m \in Nodes |->
                 (IF m = n THEN inbox[m] \ {<<p, from>>} ELSE inbox[m]) \union {<<p, n>>}]
          /\ Give(Local(n, p), p)
  /\ UNCHANGED <<cluster4, bound, closed, stage, lost, stayed, losses>>

OnMessage(n, p, from) ==
  /\ <<p, from>> \in inbox[n]
  /\ inbox' = [inbox EXCEPT ![n] = @ \ {<<p, from>>}]
  /\ IF from = n THEN UNCHANGED got ELSE Give(Local(n, p), p)
  /\ UNCHANGED <<cluster4, bound, closed, stage, lost, stayed, losses>>

\* The listener of n is not connected when a copy would arrive.
Miss(n, p, from) ==
  /\ <<p, from>> \in inbox[n]
  /\ Loss
  /\ inbox' = [inbox EXCEPT ![n] = @ \ {<<p, from>>}]
  /\ lost' = lost \union {<<n, p>>}
  /\ UNCHANGED <<cluster4, bound, closed, stage, got, stayed>>

\* n stops: its connections end, what it had not published or handled is gone.
Crash(n) ==
  LET cut == {p \in Packets : SenderOf[p] = n /\ stage[p] = "local"} IN
  /\ Loss
  /\ Gone({c \in Conns : HomeOf[c] = n})
  /\ stage' = [p \in Packets |-> IF p \in cut THEN "sent" ELSE stage[p]]
  /\ lost' = lost \union (Nodes \X cut) \union {<<n, x[1]>> : x \in inbox[n]}
  /\ inbox' = [inbox EXCEPT ![n] = {}]
  /\ UNCHANGED <<cluster4, got>>
-----------------------------------------------------------------------------
Handle(n) == \E p \in Packets, from \in Nodes : OnMessage(n, p, from)

ClusterNext ==
  \/ \E c \in Conns : Bind(c) \/ Unbind(c)
  \/ \E p \in Packets : SendLocal(p) \/ Publish(p)
  \/ \E n \in Nodes : Handle(n) \/ Crash(n)
  \/ \E n \in Nodes, p \in Packets, from \in Nodes : Miss(n, p, from)

\* A call that has begun goes on, and listeners handle what arrives.
ClusterFairness ==
  /\ \A p \in Packets : WF_clusterVars(Publish(p))
  /\ \A n \in Nodes : WF_clusterVars(Handle(n))

ClusterSpec == ClusterInit /\ [][ClusterNext]_clusterVars
ClusterFairSpec == ClusterSpec /\ ClusterFairness
-----------------------------------------------------------------------------
UnderWay(p) ==
  stage[p] = "local" \/ \E n \in Nodes, from \in Nodes : <<p, from>> \in inbox[n]

(* No connection is given a packet twice, on whichever path it comes.       *)
(* (RedisClusterConfig.onMessage: CLIENTID; ImAio: isFromCluster.)          *)
AtMostOneCopy == \A c \in Conns, p \in Packets : got[c][p] <= 1

(* A connection that stays, from the call until all is handled, has the     *)
(* packet, unless its node lost the copy or clustering is off.  Only one    *)
(* that comes or goes meanwhile can miss it: between the local copies and   *)
(* the others' a user who changes nodes may be passed by.  (ImAio.sendToUser *)
(* and sendToGroup, the publication after the local send.)                  *)
StayersHaveIt ==
  \A p \in Packets : stage[p] = "sent" /\ ~UnderWay(p) =>
    \A c \in stayed[p] :
      \/ got[c][p] = 1
      \/ HomeOf[c] # SenderOf[p] /\ (<<HomeOf[c], p>> \in lost \/ ~Clustered(p))

(* A packet does not go round for ever: it comes to rest everywhere.        *)
(* (ImAio: what came from the cluster is not published again.)              *)
ComesToRest == \A p \in Packets : UnderWay(p) ~> ~UnderWay(p)
=============================================================================
