------------------------------ MODULE Timeline ------------------------------
(***************************************************************************)
(* What the server promises of the history it keeps: the messages a         *)
(* connection sends are stored one by one, in the order they were accepted, *)
(* none of them twice.  Only a failed write loses the one message it was    *)
(* for, and only a crash loses those still waiting.  ChatDelivery           *)
(* implements this.                                                         *)
(***************************************************************************)
EXTENDS Sequences

CONSTANTS
  Channels,  \* the senders
  Msgs       \* messages, each with an id of its own

VARIABLES
  accepted,  \* messages addMsg took
  pending,   \* pending[c]: accepted from c and not yet written
  stored     \* messages in the history

vars == <<accepted, pending, stored>>

Init ==
  /\ accepted = {}
  /\ pending = [c \in Channels |-> <<>>]
  /\ stored = {}

Accept(c, m) ==
  /\ m \notin accepted
  /\ accepted' = accepted \union {m}
  /\ pending' = [pending EXCEPT ![c] = Append(@, m)]
  /\ UNCHANGED stored

\* The oldest message of c is written, or its write is lost.
Settle(c) ==
  /\ pending[c] # <<>>
  /\ pending' = [pending EXCEPT ![c] = Tail(@)]
  /\ stored' \in {stored, stored \union {Head(pending[c])}}
  /\ UNCHANGED accepted

Crash ==
  /\ pending' = [c \in Channels |-> <<>>]
  /\ UNCHANGED <<accepted, stored>>

Next ==
  \/ \E c \in Channels, m \in Msgs : Accept(c, m)
  \/ \E c \in Channels : Settle(c)
  \/ Crash

Spec == Init /\ [][Next]_vars
=============================================================================
