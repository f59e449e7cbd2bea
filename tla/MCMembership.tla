---------------------------- MODULE MCMembership ----------------------------
(* Model values for Membership. *)
EXTENDS Membership, TLC

CONSTANTS u1, u2, s1, s2, s3, g1, g2

\* One user on two devices; two users on one each.
MCTwoDevices == s1 :> u1 @@ s2 :> u1
MCTwoUsers == s1 :> u1 @@ s2 :> u2
=============================================================================
