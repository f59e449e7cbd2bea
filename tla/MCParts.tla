------------------------------ MODULE MCParts ------------------------------
(***************************************************************************)
(* Model values for nine components that share no state: DateFormat,        *)
(* WsCodec, TcpFraming, ExpireTask, RedisLock, ClusterDispatch,             *)
(* ProtocolChoice, StaticRes and HttpSessions.  A behaviour is one of one   *)
(* component, the others stay in their initial states.                      *)
(***************************************************************************)
EXTENDS DateFormat, WsCodec, TcpFraming, ExpireTask, RedisLock, ClusterDispatch,
        ProtocolChoice, StaticRes, HttpSessions, TLC

CONSTANTS w1, w2, w3, t1, t2, t3, r1, r2, n1, n2, c1, c2, c3, p1, p2, v1, v2

\* Patterns with runs too short, too long, twice, of letters that stand for
\* nothing, and dates at the edges of their fields.
MCPatterns ==
  {Sortable, <<"y","y">>, <<"M","-","M","M">>, <<"y","y","y","y","y">>,
   <<"d","d","d","S">>, <<"q","Q","S","S","S">>, <<"m","M","H","h">>, <<"s","y","s">>}
MCDate(year, month, day, hours, minutes, seconds, ms) ==
  [year |-> year, month |-> month, day |-> day, hours |-> hours,
   minutes |-> minutes, seconds |-> seconds, ms |-> ms]
MCDates ==
  {MCDate(1999, 11, 31, 23, 59, 59, 999), MCDate(2000, 0, 1, 0, 0, 0, 0),
   MCDate(2000, 8, 10, 9, 10, 9, 5), MCDate(2000, 9, 9, 10, 9, 10, 50),
   MCDate(2018, 2, 4, 5, 6, 7, 100), MCDate(2018, 2, 4, 5, 6, 10, 7)}

\* Around the bounds of the length classes, and the longest that is accepted.
MCLengths == {0, 125, 126, 255, 256, 65534, 65535, 524288}

\* With and without a sequence number, with an empty body and with another.
MCCommands == {1, 7, 11}
MCTcpPackets == [synSeq: {0, 1, 258}, cmd: {7, 11}, bodyLen: {0, 2}]

\* Two threads of one process, one of another.
MCProcessOf == t1 :> r1 @@ t2 :> r1 @@ t3 :> r2

\* A user on both nodes and a group on both, a packet from each.
MCHomeOf == c1 :> n1 @@ c2 :> n2 @@ c3 :> n2
MCSenderOf == p1 :> n1 @@ p2 :> n2
MCModeOf == p1 :> "user" @@ p2 :> "group"
MCAudience == p1 :> {c1, c2, c3} @@ p2 :> {c1, c2}

\* Two requests of one browser.
MCVisitorOf == [r \in Requests |-> v1]
-----------------------------------------------------------------------------
VARIABLE part

partsVars == <<part, dateVars, wsVars, tcpVars, expireVars, lockVars, clusterVars,
               choiceVars, staticVars, sessionVars>>

PartsInit ==
  /\ part \in {"date", "ws", "tcp", "expire", "lock", "cluster", "choice", "static", "session"}
  /\ DateInit /\ WsInit /\ TcpInit /\ ExpireInit /\ LockInit /\ ClusterInit
  /\ ChoiceInit /\ StaticInit /\ SessionInit
  /\ part # "cluster" => cluster4 = {}
  /\ part # "choice" => speaks = "ws"
  /\ part # "session" => keeps = {}

PartsNext ==
  /\ UNCHANGED part
  /\ IF part = "date" THEN DateNext ELSE UNCHANGED dateVars
  /\ IF part = "ws" THEN WsNext ELSE UNCHANGED wsVars
  /\ IF part = "tcp" THEN TcpNext ELSE UNCHANGED tcpVars
  /\ IF part = "expire" THEN ExpireNext ELSE UNCHANGED expireVars
  /\ IF part = "lock" THEN LockNext ELSE UNCHANGED lockVars
  /\ IF part = "cluster" THEN ClusterNext ELSE UNCHANGED clusterVars
  /\ IF part = "choice" THEN ChoiceNext ELSE UNCHANGED choiceVars
  /\ IF part = "static" THEN StaticNext ELSE UNCHANGED staticVars
  /\ IF part = "session" THEN SessionNext ELSE UNCHANGED sessionVars

PartsSpec ==
  /\ PartsInit /\ [][PartsNext]_partsVars
  /\ LockFairness /\ ClusterFairness
-----------------------------------------------------------------------------
(* The types of all of them: what goes on a wire is bytes, no time runs     *)
(* below 0, no pool gives out more than it has, a connection that is gone   *)
(* is not bound.  (WsServerEncoder, TcpServerEncoder, RedisExpireUpdateTask, *)
(* JedisTemplate.Executor, ImAio.bindUser.)                                 *)
PartsTypeOK ==
  /\ WsTypeOK /\ TcpTypeOK /\ ExpireTypeOK /\ LockTypeOK /\ ClusterTypeOK
  /\ StaticTypeOK /\ SessionTypeOK
=============================================================================
