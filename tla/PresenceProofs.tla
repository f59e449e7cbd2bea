--------------------------- MODULE PresenceProofs ---------------------------
(***************************************************************************)
(* Proofs about Presence, for any users, connections and terminals.         *)
(* PresenceInv is the inductive invariant: the three safety invariants need *)
(* to know what a handler that runs on behind a close leaves behind         *)
(* (LateLogin), that a connection past bindUser is in the index while it is *)
(* open (BoundWhileOpen), and what a fresh connection's entry reads         *)
(* (FreshIsOffline).                                                        *)
(***************************************************************************)
EXTENDS Presence, TLAPS

BoundWhileOpen ==
  \A c \in Channels :
    conn[c] = "open" /\ login[c] \in {"bound", "online", "done"} => c \in bound

LateLogin ==
  \A c \in Channels : conn[c] # "open" /\ LoggingIn(c) => c \in raced

FreshIsOffline ==
  DistinctTerminals /\ errs = 0 /\ crashes = 0 =>
    \A c \in Channels \ raced :
      conn[c] = "open" /\ login[c] = "none" => status[UserOf[c]][TerminalOf[c]] # "online"

PresenceInv ==
  /\ PresenceTypeOK
  /\ BoundWhileOpen
  /\ LateLogin
  /\ IndexIsConnected
  /\ LoggedInIsOnline
  /\ FreshIsOffline
  /\ GoneIsOffline
-----------------------------------------------------------------------------
(* What a write of a terminal's status does: no other entry changes, the    *)
(* entry of a bound connection takes the value unless the call failed, and  *)
(* the entry of an unbound one stays.                                       *)
LEMMA PutTerminalEffect ==
  ASSUME PresenceTypeOK, NEW c \in Channels, NEW s \in {"online", "offline"},
         PutTerminal(c, s)
  PROVE  /\ status' \in [Users -> [Terminals -> {"none", "online", "offline"}]]
         /\ errs' \in 0 .. MaxErrs /\ errs' >= errs
         /\ \A u \in Users : \A t \in Terminals :
              u # UserOf[c] \/ t # TerminalOf[c] => status'[u][t] = status[u][t]
         /\ c \in bound /\ errs' = errs => status'[UserOf[c]][TerminalOf[c]] = s
         /\ c \notin bound => status' = status
<1> USE PresenceAssumption DEF PresenceTypeOK
<1> DEFINE u0 == UserOf[c]
           t0 == TerminalOf[c]
<1>0. u0 \in Users /\ t0 \in Terminals /\ errs \in Nat
  OBVIOUS
<1>1. CASE c \in bound /\ RedisWorks /\ status' = [status EXCEPT ![u0][t0] = s]
  <2>1. errs' = errs
    BY <1>1 DEF RedisWorks
  <2>2. status' = [status EXCEPT ![u0] = [status[u0] EXCEPT ![t0] = s]]
    BY <1>1
  <2>3. [status[u0] EXCEPT ![t0] = s] \in [Terminals -> {"none", "online", "offline"}]
    BY <1>0
  <2>4. status' \in [Users -> [Terminals -> {"none", "online", "offline"}]]
    BY <1>0, <2>2, <2>3
  <2>5. \A u \in Users : u # u0 => status'[u] = status[u]
    BY <1>0, <2>2
  <2>6. status'[u0] = [status[u0] EXCEPT ![t0] = s]
    BY <1>0, <2>2
  <2>7. status'[u0][t0] = s /\ \A t \in Terminals : t # t0 => status'[u0][t] = status[u0][t]
    BY <1>0, <2>6
  <2> QED
    BY <1>0, <1>1, <2>1, <2>4, <2>5, <2>7
<1>2. CASE c \in bound /\ RedisFails /\ UNCHANGED status
  BY <1>0, <1>2 DEF RedisFails
<1>3. CASE c \notin bound /\ UNCHANGED <<status, errs>>
  BY <1>0, <1>3
<1> QED
  BY <1>1, <1>2, <1>3 DEF PutTerminal

(* Every variable keeps its type: the statuses are written for users and    *)
(* terminals that exist, and the budgets are kept.                          *)
LEMMA PresenceTyped ==
  ASSUME PresenceTypeOK, [PresenceNext]_presenceVars
  PROVE  PresenceTypeOK'
<1> USE PresenceAssumption DEF PresenceTypeOK
<1>1. CASE Crash
  BY <1>1 DEF Crash
<1>2. ASSUME NEW c \in Channels, PresenceStep(c)
      PROVE  PresenceTypeOK'
  <2>1. CASE Connect(c)
    BY <2>1 DEF Connect
  <2>2. CASE LoginStart(c)
    BY <2>2 DEF LoginStart
  <2>3. CASE LoginBind(c)
    BY <2>3 DEF LoginBind
  <2>4. CASE LoginOnline(c)
    BY <2>4, PutTerminalEffect DEF LoginOnline
  <2>5. CASE LoginDone(c)
    BY <2>5 DEF LoginDone
  <2>6. CASE CloseBefore(c)
    BY <2>6, PutTerminalEffect DEF CloseBefore
  <2>7. CASE CloseUnbind(c)
    BY <2>7 DEF CloseUnbind
  <2> QED
    BY <1>2, <2>1, <2>2, <2>3, <2>4, <2>5, <2>6, <2>7 DEF PresenceStep
<1>3. CASE UNCHANGED presenceVars
  BY <1>3 DEF presenceVars, netVars
<1> QED
  BY <1>1, <1>2, <1>3 DEF PresenceNext

LEMMA PresenceInitial == PresenceInit => PresenceInv
BY PresenceAssumption
DEF PresenceInit, PresenceInv, PresenceTypeOK, BoundWhileOpen, LateLogin, LoggingIn,
    IndexIsConnected, LoggedInIsOnline, FreshIsOffline, GoneIsOffline

(* The four steps that write neither the status nor anything a closed       *)
(* connection is judged by.                                                 *)
LEMMA QuietStep ==
  ASSUME PresenceInv, PresenceTypeOK', NEW c \in Channels,
         Connect(c) \/ LoginStart(c) \/ LoginBind(c) \/ LoginDone(c)
  PROVE  PresenceInv'
<1> USE DEF PresenceInv, PresenceTypeOK
<1> DEFINE Entry(d) == status[UserOf[d]][TerminalOf[d]]
<1>1. errs' = errs /\ crashes' = crashes /\ status' = status /\ raced' = raced
  BY DEF Connect, LoginStart, LoginBind, LoginDone
<1>2. CASE Connect(c)
  BY <1>1, <1>2 DEF Connect, LoggingIn, BoundWhileOpen, LateLogin, IndexIsConnected,
     LoggedInIsOnline, FreshIsOffline, GoneIsOffline
<1>3. CASE LoginStart(c)
  BY <1>1, <1>3 DEF LoginStart, LoggingIn, BoundWhileOpen, LateLogin, IndexIsConnected,
     LoggedInIsOnline, FreshIsOffline, GoneIsOffline
<1>4. CASE LoginBind(c)
  BY <1>1, <1>4 DEF LoginBind, LoggingIn, BoundWhileOpen, LateLogin, IndexIsConnected,
     LoggedInIsOnline, FreshIsOffline, GoneIsOffline
<1>5. CASE LoginDone(c)
  BY <1>1, <1>5 DEF LoginDone, LoggingIn, BoundWhileOpen, LateLogin, IndexIsConnected,
     LoggedInIsOnline, FreshIsOffline, GoneIsOffline
<1> QED
  BY <1>2, <1>3, <1>4, <1>5

(* onAfterUserBind writes "online": the connection is in the index while it *)
(* is open, and counted as raced when it is not.                            *)
LEMMA OnlineStep ==
  ASSUME PresenceInv, PresenceTypeOK', NEW c \in Channels, LoginOnline(c)
  PROVE  PresenceInv'
<1> USE DEF PresenceInv, PresenceTypeOK
<1>1. /\ conn' = conn /\ bound' = bound /\ grouped' = grouped /\ raced' = raced
      /\ crashes' = crashes /\ login[c] = "bound"
      /\ login' = [login EXCEPT ![c] = "online"] /\ PutTerminal(c, "online")
  BY DEF LoginOnline
<1>2. /\ errs' >= errs /\ errs \in Nat /\ errs' \in Nat
      /\ \A d \in Channels : UserOf[d] # UserOf[c] \/ TerminalOf[d] # TerminalOf[c]
           => status'[UserOf[d]][TerminalOf[d]] = status[UserOf[d]][TerminalOf[d]]
      /\ c \in bound /\ errs' = errs => status'[UserOf[c]][TerminalOf[c]] = "online"
  <2>1. /\ errs' >= errs
        /\ \A u \in Users : \A t \in Terminals :
             u # UserOf[c] \/ t # TerminalOf[c] => status'[u][t] = status[u][t]
        /\ c \in bound /\ errs' = errs => status'[UserOf[c]][TerminalOf[c]] = "online"
        /\ c \notin bound => status' = status
    BY <1>1, PutTerminalEffect, Zenon
  <2>2. \A d \in Channels : UserOf[d] \in Users /\ TerminalOf[d] \in Terminals
    BY PresenceAssumption
  <2>3. errs \in Nat /\ errs' \in Nat
    BY PresenceAssumption
  <2> QED
    BY <2>1, <2>2, <2>3
<1>3. BoundWhileOpen'
  BY <1>1 DEF BoundWhileOpen
<1>4. LateLogin' /\ IndexIsConnected'
  BY <1>1 DEF LateLogin, LoggingIn, IndexIsConnected
<1>5. LoggedInIsOnline'
  <2> SUFFICES ASSUME DistinctTerminals, errs' = 0, NEW d \in Channels, conn'[d] = "open",
                      login'[d] \in {"online", "done"}
               PROVE  status'[UserOf[d]][TerminalOf[d]] = "online"
    BY DEF LoggedInIsOnline, DistinctTerminals
  <2>1. errs = 0
    BY <1>2
  <2>2. CASE d = c
    BY <1>1, <1>2, <2>1, <2>2 DEF BoundWhileOpen
  <2>3. CASE d # c
    BY <1>1, <1>2, <2>1, <2>3 DEF LoggedInIsOnline, DistinctTerminals
  <2> QED
    BY <2>2, <2>3
<1>6. FreshIsOffline' /\ GoneIsOffline'
  <2> SUFFICES ASSUME DistinctTerminals, errs' = 0, crashes' = 0,
                      NEW d \in Channels, d \notin raced',
                      conn'[d] # "open" \/ login'[d] = "none"
               PROVE  status'[UserOf[d]][TerminalOf[d]] # "online"
    BY DEF FreshIsOffline, GoneIsOffline, DistinctTerminals
  <2>1. errs = 0 /\ d # c
    BY <1>1, <1>2 DEF LateLogin, LoggingIn
  <2> QED
    BY <1>1, <1>2, <2>1 DEF FreshIsOffline, GoneIsOffline, DistinctTerminals
<1> QED
  BY <1>3, <1>4, <1>5, <1>6

(* onBeforeClose writes "offline" for the entry of the closing connection.  *)
LEMMA CloseStep ==
  ASSUME PresenceInv, PresenceTypeOK', NEW c \in Channels, CloseBefore(c)
  PROVE  PresenceInv'
<1> USE DEF PresenceInv, PresenceTypeOK
<1>1. /\ login' = login /\ bound' = bound /\ grouped' = grouped /\ crashes' = crashes
      /\ conn[c] = "open" /\ conn' = [conn EXCEPT ![c] = "closing"]
      /\ raced' = IF LoggingIn(c) THEN raced \union {c}
                  ELSE IF c \in bound THEN raced \ {c} ELSE raced
      /\ PutTerminal(c, "offline")
  BY DEF CloseBefore
<1>2. /\ errs' >= errs /\ errs \in Nat /\ errs' \in Nat
      /\ \A d \in Channels : UserOf[d] # UserOf[c] \/ TerminalOf[d] # TerminalOf[c]
           => status'[UserOf[d]][TerminalOf[d]] = status[UserOf[d]][TerminalOf[d]]
      /\ c \in bound /\ errs' = errs => status'[UserOf[c]][TerminalOf[c]] = "offline"
      /\ c \notin bound => status' = status
  <2>1. /\ errs' >= errs
        /\ \A u \in Users : \A t \in Terminals :
             u # UserOf[c] \/ t # TerminalOf[c] => status'[u][t] = status[u][t]
        /\ c \in bound /\ errs' = errs => status'[UserOf[c]][TerminalOf[c]] = "offline"
        /\ c \notin bound => status' = status
    BY <1>1, PutTerminalEffect, Zenon
  <2>2. \A d \in Channels : UserOf[d] \in Users /\ TerminalOf[d] \in Terminals
    BY PresenceAssumption
  <2>3. errs \in Nat /\ errs' \in Nat
    BY PresenceAssumption
  <2> QED
    BY <2>1, <2>2, <2>3
<1>3. BoundWhileOpen'
  BY <1>1 DEF BoundWhileOpen
<1>4. LateLogin' /\ IndexIsConnected'
  BY <1>1 DEF LateLogin, LoggingIn, IndexIsConnected
<1>5. LoggedInIsOnline'
  <2> SUFFICES ASSUME DistinctTerminals, errs' = 0, NEW d \in Channels, conn'[d] = "open",
                      login'[d] \in {"online", "done"}
               PROVE  status'[UserOf[d]][TerminalOf[d]] = "online"
    BY DEF LoggedInIsOnline, DistinctTerminals
  <2>1. errs = 0 /\ d # c /\ conn[d] = "open" /\ login[d] = login'[d]
    BY <1>1, <1>2
  <2> QED
    BY <1>2, <2>1 DEF LoggedInIsOnline, DistinctTerminals
<1>6. FreshIsOffline'
  <2> SUFFICES ASSUME DistinctTerminals, errs' = 0, crashes' = 0,
                      NEW d \in Channels, d \notin raced', conn'[d] = "open",
                      login'[d] = "none"
               PROVE  status'[UserOf[d]][TerminalOf[d]] # "online"
    BY DEF FreshIsOffline, DistinctTerminals
  <2>1. errs = 0 /\ crashes = 0 /\ d # c /\ d \notin raced /\ conn[d] = "open" /\ login[d] = "none"
    BY <1>1, <1>2
  <2> QED
    BY <1>2, <2>1 DEF FreshIsOffline, DistinctTerminals
<1>7. GoneIsOffline'
  <2> SUFFICES ASSUME DistinctTerminals, errs' = 0, crashes' = 0,
                      NEW d \in Channels, d \notin raced', conn'[d] # "open"
               PROVE  status'[UserOf[d]][TerminalOf[d]] # "online"
    BY DEF GoneIsOffline, DistinctTerminals
  <2>1. errs = 0 /\ crashes = 0
    BY <1>1, <1>2
  <2>2. CASE d # c
    BY <1>1, <1>2, <2>1, <2>2 DEF GoneIsOffline, DistinctTerminals
  <2>3. CASE d = c /\ c \in bound
    BY <1>2, <2>1, <2>3
  <2>4. CASE d = c /\ c \notin bound
    <3>1. ~LoggingIn(c) /\ c \notin raced
      BY <1>1, <2>4
    <3>2. login[c] = "none"
      BY <1>1, <2>4, <3>1 DEF BoundWhileOpen, LoggingIn
    <3> QED
      BY <1>1, <1>2, <2>1, <2>4, <3>1, <3>2 DEF FreshIsOffline
  <2> QED
    BY <2>2, <2>3, <2>4
<1> QED
  BY <1>3, <1>4, <1>5, <1>6, <1>7

LEMMA GoneStep ==
  ASSUME PresenceInv, PresenceTypeOK',
         Crash \/ (\E c \in Channels : CloseUnbind(c)) \/ UNCHANGED presenceVars
  PROVE  PresenceInv'
<1> USE DEF PresenceInv, PresenceTypeOK
<1>1. CASE Crash
  <2>1. crashes' # 0 /\ status' = status /\ errs' = errs
    BY <1>1 DEF Crash
  <2> QED
    BY <1>1, <2>1 DEF Crash, LoggingIn, BoundWhileOpen, LateLogin, IndexIsConnected,
       LoggedInIsOnline, FreshIsOffline, GoneIsOffline
<1>2. ASSUME NEW c \in Channels, CloseUnbind(c)
      PROVE  PresenceInv'
  BY <1>2 DEF CloseUnbind, LoggingIn, BoundWhileOpen, LateLogin, IndexIsConnected,
     LoggedInIsOnline, FreshIsOffline, GoneIsOffline
<1>3. CASE UNCHANGED presenceVars
  BY <1>3 DEF presenceVars, netVars, LoggingIn, BoundWhileOpen, LateLogin, IndexIsConnected,
     LoggedInIsOnline, FreshIsOffline, GoneIsOffline
<1> QED
  BY <1>1, <1>2, <1>3

LEMMA PresencePreserved == PresenceInv /\ [PresenceNext]_presenceVars => PresenceInv'
<1> SUFFICES ASSUME PresenceInv, [PresenceNext]_presenceVars
             PROVE  PresenceInv'
  OBVIOUS
<1>1. PresenceTypeOK'
  BY PresenceTyped DEF PresenceInv
<1> QED
  BY <1>1, QuietStep, OnlineStep, CloseStep, GoneStep DEF PresenceNext, PresenceStep

THEOREM PresenceInvariant == PresenceSpec => []PresenceInv
BY PresenceInitial, PresencePreserved, PTL DEF PresenceSpec

(* Type correctness, for any number of users, connections and terminals.    *)
THEOREM PresenceTypes == PresenceSpec => []PresenceTypeOK
BY PresenceInvariant, PTL DEF PresenceInv

(* Where terminal entries are not shared, an open connection that is past   *)
(* onAfterUserBind reads "online" until Redis fails.                        *)
THEOREM LoggedInStaysOnline == PresenceSpec => []LoggedInIsOnline
BY PresenceInvariant, PTL DEF PresenceInv

(* ... and a closed one reads "online" only after a close that overtook its *)
(* own login, a crash or a failure.                                         *)
THEOREM GoneStaysOffline == PresenceSpec => []GoneIsOffline
BY PresenceInvariant, PTL DEF PresenceInv

(* t-io's index keeps a closed connection only through the same race.       *)
THEOREM IndexStaysConnected == PresenceSpec => []IndexIsConnected
BY PresenceInvariant, PTL DEF PresenceInv
=============================================================================
