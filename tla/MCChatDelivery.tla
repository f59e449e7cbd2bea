--------------------------- MODULE MCChatDelivery ---------------------------
(* Model values for ChatDelivery. *)
EXTENDS ChatDelivery, TLC

CONSTANTS alice, bob, bobby, g1, a, b, ws, tcp, m1, m2

\* bob's id is a prefix of bobby's.
MCPrefixFree == {<<alice, alice>>, <<bob, bob>>, <<bobby, bobby>>}
MCPrefix == MCPrefixFree \union {<<bob, bobby>>}

\* One connection of alice and one of bob.
MCUserOf2 == a :> alice @@ b :> bob
MCTerm2 == a :> tcp @@ b :> ws
\* Two devices of bob, who writes to himself.
MCUserOfBob == a :> bob @@ b :> bob
MCUserOfPrefix == a :> alice @@ b :> bob

MCSrcA == m1 :> a @@ m2 :> a
MCSrc1 == m1 :> a
MCMixed == m1 :> "group" @@ m2 :> "unknown"
MCOnePrivate == m1 :> "private"
MCOneGroup == m1 :> "group"
MCToMixed == m1 :> g1 @@ m2 :> bob
MCOneToBob == m1 :> bob
MCOneToBobby == m1 :> bobby
MCOneToGroup == m1 :> g1

MCMembers == g1 :> {bob, bobby}
MCBobOnly == g1 :> {bob}
MCNoGroup == [g \in {} |-> {}]
=============================================================================
