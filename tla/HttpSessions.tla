---------------------------- MODULE HttpSessions ----------------------------
(***************************************************************************)
(* The session cookie of DefaultHttpRequestHandler: what a request's        *)
(* handler finds as its session before it runs, and what cookie and store   *)
(* hold afterwards.  Requests of one browser share its cookie; they may     *)
(* overlap and their answers come in any order.  The store drops a session  *)
(* that has not been used for the session timeout.  The browser drops the   *)
(* cookie when its Max-Age, the same time, has passed since it was set,     *)
(* however much it was used: it is not set again while the store knows it.  *)
(* Both times are left open: either may come at any point.                  *)
(***************************************************************************)
EXTENDS Integers, FiniteSets

CONSTANTS
  Visitors,     \* browsers
  Requests,     \* slots for requests at work
  VisitorOf,    \* VisitorOf[r]
  MaxSessions,  \* bound on the sessions made
  NoCookie

ASSUME SessionAssumption ==
  /\ VisitorOf \in [Requests -> Visitors]
  /\ MaxSessions \in Nat
  /\ NoCookie \notin Nat

VARIABLES
  store,    \* sessionStore: the ids in it
  made,     \* sessions made so far; ids are numbers
  cookie,   \* cookie[v]: the id v keeps, or NoCookie
  keeps,    \* browsers that take the cookie: its Domain is their Host header,
            \*   which they refuse when there is a port in it
  visit,    \* visit[r]: the request at work, see NoVisit
  used,     \* history: used[v]: the session of v's last request, or NoCookie
  timedOut, \* history: ids that were in the store and are not any more
  ended,    \* history: browsers whose cookie has ended since it was last set
  overlaps  \* history: browsers that have had two requests at work at once

sessionVars == <<store, made, cookie, keeps, visit, used, timedOut, ended, overlaps>>

\* sent: the cookie that came with it, mine: its session, set: Set-Cookie.
NoVisit == [pc |-> "idle", sent |-> NoCookie, mine |-> NoCookie, set |-> NoCookie]
Ids == 1 .. MaxSessions

SessionTypeOK ==
  /\ made \in 0 .. MaxSessions
  /\ store \in SUBSET (1 .. made) /\ timedOut \in SUBSET ((1 .. made) \ store)
  /\ cookie \in [Visitors -> Ids \union {NoCookie}]
  /\ used \in [Visitors -> Ids \union {NoCookie}]
  /\ overlaps \in SUBSET Visitors /\ keeps \in SUBSET Visitors /\ ended \in SUBSET keeps
  /\ \A r \in Requests :
       /\ visit[r].pc \in {"idle", "before", "handler", "back"}
       /\ {visit[r].sent, visit[r].mine, visit[r].set} \subseteq Ids \union {NoCookie}

SessionInit ==
  /\ store = {} /\ made = 0
  /\ cookie = [v \in Visitors |-> NoCookie]
  /\ visit = [r \in Requests |-> NoVisit]
  /\ used = [v \in Visitors |-> NoCookie]
  /\ keeps \in SUBSET Visitors
  /\ timedOut = {} /\ ended = {} /\ overlaps = {}
-----------------------------------------------------------------------------
AtWork(v) == {r \in Requests : VisitorOf[r] = v /\ visit[r].pc # "idle"}

SendRequest(r) ==
  LET v == VisitorOf[r] IN
  /\ visit[r].pc = "idle"
  /\ visit' = [visit EXCEPT ![r].pc = "before", ![r].sent = cookie[v]]
  /\ overlaps' = IF AtWork(v) = {} THEN overlaps ELSE overlaps \union {v}
  /\ UNCHANGED <<store, made, cookie, keeps, used, timedOut, ended>>

\* processCookieBeforeHandler; createSession.
BeforeHandler(r) ==
  LET v == VisitorOf[r]
      s == IF visit[r].sent \in store THEN visit[r].sent ELSE made + 1
  IN  /\ visit[r].pc = "before"
      /\ s \in Ids
      /\ made' = IF s > made THEN s ELSE made
      /\ visit' = [visit EXCEPT ![r].pc = "handler", ![r].mine = s]
      /\ used' = [used EXCEPT ![v] = s]
      /\ UNCHANGED <<store, cookie, keeps, timedOut, ended, overlaps>>

Stored(s) == store' = store \union {s} /\ timedOut' = timedOut \ {s}

\* HttpSession.setAttribute, removeAttribute and clear put the session.
SetAttribute(r) ==
  /\ visit[r].pc = "handler"
  /\ Stored(visit[r].mine)
  /\ UNCHANGED <<made, cookie, keeps, visit, used, ended, overlaps>>

\* processCookieAfterHandler.
\* (Mutant: a session that replaces one timed out is not stored.)
AfterHandler_NotStored(r) ==
  /\ visit[r].pc = "handler"
  /\ \/ /\ visit[r].sent = NoCookie
        /\ Stored(visit[r].mine)
        /\ visit' = [visit EXCEPT ![r].pc = "back", ![r].set = visit[r].mine]
     \/ /\ visit[r].sent # NoCookie
        /\ visit' = [visit EXCEPT ![r].pc = "back",
                       ![r].set = IF visit[r].sent \in store THEN NoCookie ELSE visit[r].mine]
        /\ UNCHANGED <<store, timedOut>>
  /\ UNCHANGED <<made, cookie, keeps, used, ended, overlaps>>

AfterHandler(r) ==
  /\ visit[r].pc = "handler"
  /\ \/ /\ visit[r].sent \notin store  \* no cookie, or none that is known by now
        /\ Stored(visit[r].mine)
        /\ visit' = [visit EXCEPT ![r].pc = "back", ![r].set = visit[r].mine]
     \/ /\ visit[r].sent \in store
        /\ visit' = [visit EXCEPT ![r].pc = "back"]
        /\ UNCHANGED <<store, timedOut>>
  /\ UNCHANGED <<made, cookie, keeps, used, ended, overlaps>>

ReceiveAnswer(r) ==
  LET v == VisitorOf[r] IN
  /\ visit[r].pc = "back"
  /\ IF visit[r].set # NoCookie /\ v \in keeps
       THEN cookie' = [cookie EXCEPT ![v] = visit[r].set] /\ ended' = ended \ {v}
       ELSE UNCHANGED <<cookie, ended>>
  /\ visit' = [visit EXCEPT ![r] = NoVisit]
  /\ UNCHANGED <<store, made, keeps, used, timedOut, overlaps>>

\* Max-Age has passed, whether the session lives on or not.
CookieEnds(v) ==
  /\ cookie[v] # NoCookie
  /\ cookie' = [cookie EXCEPT ![v] = NoCookie] /\ ended' = ended \union {v}
  /\ UNCHANGED <<store, made, keeps, visit, used, timedOut, overlaps>>

TimeOut(s) ==
  /\ s \in store
  /\ store' = store \ {s} /\ timedOut' = timedOut \union {s}
  /\ UNCHANGED <<made, cookie, keeps, visit, used, ended, overlaps>>

SessionNext ==
  \/ \E r \in Requests :
       \/ SendRequest(r) \/ BeforeHandler(r) \/ SetAttribute(r)
       \/ AfterHandler(r) \/ ReceiveAnswer(r)
  \/ \E v \in Visitors : CookieEnds(v)
  \/ \E s \in Ids : TimeOut(s)

SessionSpec == SessionInit /\ [][SessionNext]_sessionVars
-----------------------------------------------------------------------------
\* The cookie names the session of v's last request, unless it has ended or v
\* has never taken one.
Named(v) ==
  \/ cookie[v] = used[v]
  \/ cookie[v] = NoCookie /\ (v \in ended \/ v \notin keeps)

(* Between its requests a browser's cookie names the session its last       *)
(* request worked in, and the store has it or has dropped it since: what a  *)
(* handler leaves in the session the next request finds, though the session *)
(* may time out before, while and after a handler runs, and the cookie end. *)
(* What the code does not promise is in the two ways out: a browser that    *)
(* stays active loses its living session when Max-Age has passed, and one   *)
(* that refuses the cookie has a new session with every request.  Requests  *)
(* that overlap may end with the cookie of one and the session of another   *)
(* lost.  (DefaultHttpRequestHandler, the two processCookie methods.)       *)
SessionFollows ==
  \A v \in Visitors : AtWork(v) = {} /\ v \notin overlaps =>
    /\ Named(v)
    /\ used[v] # NoCookie => used[v] \in store \union timedOut
=============================================================================
