---------------------------- MODULE PartsProofs ----------------------------
(***************************************************************************)
(* The types of the components that MCParts puts side by side: a step of    *)
(* MCParts is one of one component, so that each of them behaves as its own *)
(* specification says.                                                      *)
(***************************************************************************)
EXTENDS MCParts, WireProofs, RedisProofs, DateProofs

LEMMA PartsAreApart ==
  /\ PartsSpec => WsSpec
  /\ PartsSpec => TcpSpec
  /\ PartsSpec => ExpireSpec
  /\ PartsSpec => LockSpec
  /\ PartsSpec => ClusterSpec
  /\ PartsSpec => StaticSpec
  /\ PartsSpec => SessionSpec
  /\ PartsSpec => DateSpec
<1>1. PartsInit =>
        /\ WsInit /\ TcpInit /\ ExpireInit /\ LockInit /\ ClusterInit /\ StaticInit /\ SessionInit
        /\ DateInit
  BY DEF PartsInit
<1>2. [PartsNext]_partsVars =>
        /\ [WsNext]_wsVars /\ [TcpNext]_tcpVars /\ [ExpireNext]_expireVars
        /\ [LockNext]_lockVars /\ [ClusterNext]_clusterVars
        /\ [StaticNext]_staticVars /\ [SessionNext]_sessionVars /\ [DateNext]_dateVars
  <2>1. CASE PartsNext
    BY <2>1, Zenon DEF PartsNext
  <2>2. CASE UNCHANGED partsVars
    BY <2>2 DEF partsVars
  <2>. QED  BY <2>1, <2>2
<1>3. PartsSpec => PartsInit /\ [][PartsNext]_partsVars
  BY PTL DEF PartsSpec
<1>4. PartsSpec => WsSpec
  BY <1>1, <1>2, <1>3, PTL DEF WsSpec
<1>5. PartsSpec => TcpSpec
  BY <1>1, <1>2, <1>3, PTL DEF TcpSpec
<1>6. PartsSpec => ExpireSpec
  BY <1>1, <1>2, <1>3, PTL DEF ExpireSpec
<1>7. PartsSpec => LockSpec
  BY <1>1, <1>2, <1>3, PTL DEF LockSpec
<1>8. PartsSpec => ClusterSpec
  BY <1>1, <1>2, <1>3, PTL DEF ClusterSpec
<1>9. PartsSpec => StaticSpec
  BY <1>1, <1>2, <1>3, PTL DEF StaticSpec
<1>10. PartsSpec => SessionSpec
  BY <1>1, <1>2, <1>3, PTL DEF SessionSpec
<1>11. PartsSpec => DateSpec
  BY <1>1, <1>2, <1>3, PTL DEF DateSpec
<1>. QED  BY <1>4, <1>5, <1>6, <1>7, <1>8, <1>9, <1>10, <1>11

(* Side by side the components keep their types, for any constants: what    *)
(* goes on a wire is bytes, no time runs below 0, no pool gives out more    *)
(* than it has, a connection that is gone is not bound.                     *)
(* (WsServerEncoder, TcpServerEncoder, RedisExpireUpdateTask,               *)
(* JedisTemplate.Executor, ImAio.bindUser.)                                 *)
THEOREM PartsTypes == PartsSpec => []PartsTypeOK
<1>1. /\ WsTypeOK /\ TcpTypeOK /\ ExpireTypeOK /\ LockTypeOK /\ ClusterTypeOK
      /\ StaticTypeOK /\ SessionTypeOK
      => PartsTypeOK
  BY DEF PartsTypeOK
<1>. QED  BY <1>1, PartsAreApart, WsTypes, TcpTypes, ExpireTypesHold, LockTypesHold, ClusterTyped,
          StaticTypesHold, SessionTypesHold, PTL
============================================================================
