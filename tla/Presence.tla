------------------------------ MODULE Presence ------------------------------
(***************************************************************************)
(* Who is online.  A connection (t-io ChannelContext) logs in with a user   *)
(* id; the server binds it in t-io's user index and writes "online" for the *)
(* user's terminal (the protocol name) to Redis.  When the connection       *)
(* closes, t-io calls onBeforeClose, which writes "offline" for that        *)
(* terminal, and then drops the binding.  The login handler and t-io's      *)
(* close task run on different threads and do not wait for one another.     *)
(*                                                                          *)
(* Every Redis call goes through RedisCache, which logs and swallows an     *)
(* exception: the effect is lost and the caller goes on.                    *)
(***************************************************************************)
EXTENDS Naturals

CONSTANTS
  Users,       \* user ids
  Channels,    \* connection slots; a closed slot can be connected again
  Terminals,   \* protocol names: "tcp", "ws", "http"
  UserOf,      \* UserOf[c]: the id doLogin answers for the connection c
  TerminalOf,  \* TerminalOf[c]: the name of the protocol c speaks
  LoginSlots,  \* the connections whose client logs in; no handler asks the others to
  MaxErrs,     \* bound on the Redis calls that fail
  MaxCrashes   \* bound on the crashes of the server process

ASSUME PresenceAssumption ==
  /\ UserOf \in [Channels -> Users]
  /\ TerminalOf \in [Channels -> Terminals]
  /\ LoginSlots \subseteq Channels
  /\ MaxErrs \in Nat
  /\ MaxCrashes \in Nat

VARIABLES
  conn,     \* conn[c]: "new", "open", or "closing" (onBeforeClose has run)
  login,    \* login[c]: "none", "started" (user known), "bound" (index
            \*   written), "online" (status written, groups to come), "done"
  bound,    \* t-io's user index: the connections bound to their user
  grouped,  \* t-io's group index: the connections bound to their user's groups
  status,   \* Redis user:<id>:terminal:<t>: "none", "online" or "offline"
  raced,    \* history: slots whose last close overtook their login handler
  errs,     \* Redis calls that failed so far
  crashes   \* crashes so far

netVars == <<conn, login, bound, grouped, status, raced, crashes>>
presenceVars == <<netVars, errs>>

PresenceTypeOK ==
  /\ conn \in [Channels -> {"new", "open", "closing"}]
  /\ login \in [Channels -> {"none", "started", "bound", "online", "done"}]
  /\ bound \in SUBSET Channels
  /\ grouped \in SUBSET Channels
  /\ status \in [Users -> [Terminals -> {"none", "online", "offline"}]]
  /\ raced \in SUBSET Channels
  /\ errs \in 0 .. MaxErrs
  /\ crashes \in 0 .. MaxCrashes

PresenceInit ==
  /\ conn = [c \in Channels |-> "new"]
  /\ login = [c \in Channels |-> "none"]
  /\ bound = {}
  /\ grouped = {}
  /\ status = [u \in Users |-> [t \in Terminals |-> "none"]]
  /\ raced = {}
  /\ errs = 0
  /\ crashes = 0
-----------------------------------------------------------------------------
(* A Redis call works, or it fails and its effect is lost. *)
RedisWorks == UNCHANGED errs
RedisFails == errs < MaxErrs /\ errs' = errs + 1

\* initUserTerminal: userCache.put(<user>:terminal:<terminal>, s), skipped
\* while the connection carries no user id (it has none unless it is bound).
\* (Mutant: the terminal is written where the status belongs.)
PutTerminal_Swapped(c, s) ==
  /\ c \in bound /\ RedisWorks
  /\ status' = [status EXCEPT ![UserOf[c]][TerminalOf[c]] = TerminalOf[c]]
PutTerminal(c, s) ==
  \/ c \in bound /\ RedisWorks /\ status' = [status EXCEPT ![UserOf[c]][TerminalOf[c]] = s]
  \/ c \in bound /\ RedisFails /\ UNCHANGED status
  \/ c \notin bound /\ UNCHANGED <<status, errs>>

\* MessageHelper.isOnline: some terminal of u reads "online".
IsOnline(u) == \E t \in Terminals : status[u][t] = "online"

\* The connections ImAio.sendToUser reaches.
LiveChannels(u) == {c \in bound : UserOf[c] = u /\ conn[c] = "open"}

LoggingIn(c) == login[c] \in {"started", "bound", "online"}
-----------------------------------------------------------------------------
(* A slot whose old context is still in the index, or whose old login       *)
(* handler still runs, is not connected again: another slot is.             *)
Connect(c) ==
  /\ conn[c] = "new" /\ ~LoggingIn(c) /\ c \notin bound \union grouped
  /\ conn' = [conn EXCEPT ![c] = "open"]
  /\ login' = [login EXCEPT ![c] = "none"]
  /\ UNCHANGED <<bound, grouped, status, raced, errs, crashes>>

\* doLogin accepts; a client may log in again on the same connection.  From
\* here the handler never looks at the connection's state.
LoginStart(c) ==
  /\ conn[c] = "open" /\ ~LoggingIn(c) /\ c \in LoginSlots
  /\ login' = [login EXCEPT ![c] = "started"]
  /\ UNCHANGED <<conn, bound, grouped, status, raced, errs, crashes>>

\* Aio.bindUser.
LoginBind(c) ==
  /\ login[c] = "started"
  /\ login' = [login EXCEPT ![c] = "bound"]
  /\ bound' = bound \union {c}
  /\ UNCHANGED <<conn, grouped, status, raced, errs, crashes>>

\* onAfterUserBind.
LoginOnline(c) ==
  /\ login[c] = "bound"
  /\ login' = [login EXCEPT ![c] = "online"]
  /\ PutTerminal(c, "online")
  /\ UNCHANGED <<conn, bound, grouped, raced, crashes>>

\* bindUnbindGroup, onSuccess and the response.
LoginDone(c) ==
  /\ login[c] = "online"
  /\ login' = [login EXCEPT ![c] = "done"]
  /\ grouped' = grouped \union {c}
  /\ UNCHANGED <<conn, bound, status, raced, errs, crashes>>

(* onBeforeClose: the peer went away, the heartbeat timed out, or a close   *)
(* request named the user.  The mutants: a close that marks every terminal  *)
(* of the user, and one that forgets to write.                              *)
CloseBefore_AllTerminals(c) ==
  /\ conn[c] = "open"
  /\ conn' = [conn EXCEPT ![c] = "closing"]
  /\ status' = [status EXCEPT ![UserOf[c]] = [t \in Terminals |-> "offline"]]
  /\ UNCHANGED <<login, bound, grouped, raced, errs, crashes>>

CloseBefore_NoWrite(c) ==
  /\ conn[c] = "open"
  /\ conn' = [conn EXCEPT ![c] = "closing"]
  /\ UNCHANGED <<login, bound, grouped, status, raced, errs, crashes>>

CloseBefore(c) ==
  /\ conn[c] = "open"
  /\ conn' = [conn EXCEPT ![c] = "closing"]
  /\ PutTerminal(c, "offline")
  /\ raced' = IF LoggingIn(c) THEN raced \union {c}
                ELSE IF c \in bound THEN raced \ {c} ELSE raced
  /\ UNCHANGED <<login, bound, grouped, crashes>>

\* t-io takes the closed connection out of its index.
\* (Mutant: the group index is forgotten.)
CloseUnbind_KeepsGroups(c) ==
  /\ conn[c] = "closing"
  /\ conn' = [conn EXCEPT ![c] = "new"]
  /\ bound' = bound \ {c}
  /\ UNCHANGED <<login, grouped, status, raced, errs, crashes>>

CloseUnbind(c) ==
  /\ conn[c] = "closing"
  /\ conn' = [conn EXCEPT ![c] = "new"]
  /\ bound' = bound \ {c}
  /\ grouped' = grouped \ {c}
  /\ UNCHANGED <<login, status, raced, errs, crashes>>

\* The process dies: connections and index go with it, Redis stays.
Crash ==
  /\ crashes < MaxCrashes
  /\ crashes' = crashes + 1
  /\ conn' = [c \in Channels |-> "new"]
  /\ login' = [c \in Channels |-> "none"]
  /\ bound' = {}
  /\ grouped' = {}
  /\ UNCHANGED <<status, raced, errs>>

PresenceStep(c) ==
  \/ Connect(c) \/ LoginStart(c) \/ LoginBind(c) \/ LoginOnline(c) \/ LoginDone(c)
  \/ CloseBefore(c) \/ CloseUnbind(c)

PresenceNext == Crash \/ \E c \in Channels : PresenceStep(c)

PresenceSpec == PresenceInit /\ [][PresenceNext]_presenceVars
-----------------------------------------------------------------------------
(* No two connections share a user's terminal entry in Redis. *)
DistinctTerminals ==
  \A c, d \in Channels :
    c # d => <<UserOf[c], TerminalOf[c]>> # <<UserOf[d], TerminalOf[d]>>

(* When no two connections share a terminal entry and no Redis call fails,  *)
(* the entry of a connection that is open and past onAfterUserBind reads    *)
(* "online", so a message to its user is never taken for an offline one.    *)
(* (LoginReqHandler.handler against ImServerAioListener.onBeforeClose.)     *)
LoggedInIsOnline ==
  DistinctTerminals /\ errs = 0 =>
    \A c \in Channels :
      conn[c] = "open" /\ login[c] \in {"online", "done"}
        => status[UserOf[c]][TerminalOf[c]] = "online"

(* Under the same conditions an entry reads "online" for a closed           *)
(* connection only when its close overtook its own login handler or the     *)
(* process crashed: nothing else leaves a ghost that mail is withheld for.  *)
GoneIsOffline ==
  DistinctTerminals /\ errs = 0 /\ crashes = 0 =>
    \A c \in Channels \ raced :
      conn[c] # "open" => status[UserOf[c]][TerminalOf[c]] # "online"

(* t-io's index holds a closed connection only through that same race:      *)
(* bindUser on a context whose close task has already unbound it.           *)
IndexIsConnected == \A c \in (bound \union grouped) \ raced : conn[c] # "new"

(* What isOnline promises of a user: with no failure and no crash, one who  *)
(* has no connection and no handler at work is not online.                  *)
AbsentUserIsOffline ==
  errs = 0 /\ crashes = 0 =>
    \A u \in Users :
      (\A c \in Channels : UserOf[c] = u => conn[c] = "new" /\ ~LoggingIn(c))
        => ~IsOnline(u)
=============================================================================
