----------------------------- MODULE MCPresence -----------------------------
(* Model values for Presence. *)
EXTENDS Presence, TLC

CONSTANTS u1, u2, c1, c2, c3, tcp, ws

MCUsers == {u1, u2}
MCChannels == {c1, c2, c3}
MCTerminals == {tcp, ws}
\* u1 is connected from two devices, u2 from one.
MCUserOf == c1 :> u1 @@ c2 :> u1 @@ c3 :> u2
\* The two devices of u1 have different protocols.
MCDistinct == c1 :> tcp @@ c2 :> ws @@ c3 :> tcp
=============================================================================
