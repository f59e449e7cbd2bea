--------------------------- MODULE ProtocolChoice ---------------------------
(***************************************************************************)
(* A connection from its first bytes on: the first call of decode chooses   *)
(* TCP, HTTP or WebSocket by what has arrived by then and never again, a    *)
(* WebSocket connection shakes hands before its frames are taken for        *)
(* frames.  Decoding runs on the reading thread, handlers run on another.   *)
(* The client opens with one of the texts below and, when it speaks         *)
(* WebSocket, waits for the answer before it sends frames.  The network     *)
(* cuts what is sent anywhere.                                              *)
(***************************************************************************)
EXTENDS Integers, SequencesExt

CONSTANT MaxWsFrames  \* bound on the frames

ASSUME ChoiceAssumption == MaxWsFrames \in Nat

\* What a client sends, in tokens: "nl" ends a line.
Line(s) == <<s, "nl">>
RequestText == Line("request") \o Line("host")
Opening ==
  [tcp  |-> <<"version", "rest">>,
   http |-> RequestText \o <<"nl">>,
   ws   |-> RequestText \o Line("key") \o <<"nl">>]
Protocols == DOMAIN Opening

VARIABLES
  speaks,      \* the protocol of the client
  under,       \* tokens on their way
  arrived,     \* tokens that have arrived and are not decoded
  first,       \* how many had arrived at the first call of decode; 0 before it
  toDecode,    \* the reading thread has yet to decode: a read, or what a
               \*   packet left over
  session,     \* the session context: "none" or a protocol
  handshaked,  \* WsSessionContext.isHandshaked
  jobs,        \* packets that wait for their handler, the first at work
  answered,    \* answers the client was sent: packets
  framesSent,
  shut         \* closed by the server

choiceVars == <<speaks, under, arrived, first, toDecode, session, handshaked, jobs, answered,
                framesSent, shut>>

ChoiceInit ==
  /\ speaks \in Protocols
  /\ under = Opening[speaks] /\ arrived = <<>>
  /\ first = 0 /\ toDecode = FALSE
  /\ session = "none" /\ handshaked = FALSE
  /\ jobs = <<>> /\ answered = <<>>
  /\ framesSent = 0 /\ shut = FALSE
-----------------------------------------------------------------------------
(* HttpRequestDecoder.decode: the lines of b as far as it looks at them, in *)
(* a request without a body.                                                *)

Ends(b) == {i \in DOMAIN b : b[i] = "nl"}
\* The place of the empty line, 0 without.
EmptyLine(b) ==
  LET E == {i \in Ends(b) : i > 1 /\ b[i - 1] = "nl"} IN IF E = {} THEN 0 ELSE Min(E)

\* With isBody FALSE: the tokens of the request, {} for null or an exception.
\* It need not have an empty line, but must not end within a line.
Headers(b) ==
  LET e == IF EmptyLine(b) > 0 THEN EmptyLine(b) ELSE Len(b)
      T == {b[i] : i \in 1 .. e}
  IN  IF e > 0 /\ b[1] = "request" /\ b[e] = "nl" /\ "host" \in T THEN T ELSE {}

\* isProtocolByBuffer of the three protocols; "none" when all refuse.
\* (Mutant: a line that is not at its end counts, too.)
Choice_AnyText(b) ==
  CASE b # <<>> /\ b[1] = "version" -> "tcp"
    [] b # <<>> /\ "key" \in ToSet(b) -> "ws"
    [] b # <<>> /\ b[1] # "version" /\ "key" \notin ToSet(b) -> "http"
    [] OTHER -> "none"
Choice(b) ==
  CASE b # <<>> /\ b[1] = "version" -> "tcp"
    [] "key" \in Headers(b) -> "ws"
    [] Headers(b) # {} /\ "key" \notin Headers(b) -> "http"
    [] OTHER -> "none"
-----------------------------------------------------------------------------
ReadSome(n) ==
  /\ ~shut /\ n \in DOMAIN under
  /\ arrived' = arrived \o SubSeq(under, 1, n)
  /\ under' = SubSeq(under, n + 1, Len(under))
  /\ toDecode' = TRUE
  /\ UNCHANGED <<speaks, first, session, handshaked, jobs, answered, framesSent, shut>>

\* A packet of the first n tokens, or none: then decode waits for more.
Decoded(packet, n) ==
  /\ jobs' = Append(jobs, packet)
  /\ arrived' = SubSeq(arrived, n + 1, Len(arrived))
  /\ UNCHANGED toDecode
NotYet == toDecode' = FALSE /\ UNCHANGED <<jobs, arrived>>

\* TcpServerDecoder, HttpProtocolHandler.decode and WsProtocolHandler.decode.
DecodeAs(s) ==
  LET e == EmptyLine(arrived) IN
  CASE s = "tcp" /\ Len(arrived) >= 2 -> Decoded("command", 2)
    [] s = "http" /\ e > 0 -> Decoded("request", e)
    [] s = "ws" /\ ~handshaked /\ e > 0 -> Decoded("handshake", e)
    [] s = "ws" /\ handshaked /\ arrived # <<>> -> Decoded("frame", 1)
    [] OTHER -> NotYet

\* ImServerAioHandler.decode: with no session the protocol is chosen first.
ReadDecode ==
  /\ toDecode /\ ~shut
  /\ IF session = "none"
     THEN session' = Choice(arrived) /\ first' = Len(arrived)
     ELSE UNCHANGED <<session, first>>
  /\ IF session' = "none"
     THEN shut' = TRUE /\ UNCHANGED <<jobs, arrived, toDecode>>
     ELSE DecodeAs(session') /\ UNCHANGED shut
  /\ UNCHANGED <<speaks, under, handshaked, answered, framesSent>>

\* WsHandshakeProcessor.handshake lets frames in, then HandshakeReqHandler
\* sends the answer.
Shake ==
  /\ jobs # <<>> /\ Head(jobs) = "handshake" /\ ~handshaked
  /\ handshaked' = TRUE
  /\ UNCHANGED <<speaks, under, arrived, first, toDecode, session, jobs, answered, framesSent, shut>>

\* A handler sends its answer and returns.
AnswerJob ==
  /\ jobs # <<>> /\ (Head(jobs) = "handshake" => handshaked)
  /\ answered' = Append(answered, Head(jobs))
  /\ jobs' = Tail(jobs)
  /\ UNCHANGED <<speaks, under, arrived, first, toDecode, session, handshaked, framesSent, shut>>

SendFrame ==
  /\ "handshake" \in ToSet(answered) /\ framesSent < MaxWsFrames /\ ~shut
  /\ framesSent' = framesSent + 1
  /\ under' = Append(under, "frame")
  /\ UNCHANGED <<speaks, arrived, first, toDecode, session, handshaked, jobs, answered, shut>>

ChoiceNext ==
  \/ \E n \in DOMAIN under : ReadSome(n)
  \/ ReadDecode \/ Shake \/ AnswerJob \/ SendFrame

ChoiceSpec == ChoiceInit /\ [][ChoiceNext]_choiceVars
-----------------------------------------------------------------------------
\* Nothing is on its way, half done or waiting for its handler.
Quiet == under = <<>> /\ ~toDecode /\ jobs = <<>>

FirstPacket == [tcp |-> "command", http |-> "request", ws |-> "handshake"]

(* What the first decode finds decides.  With the whole opening in it, or   *)
(* the first byte of a TCP packet, a connection is not closed, gets the     *)
(* protocol it speaks and, once it is quiet, has had all its packets        *)
(* answered.  With less, an HTTP or WebSocket client may be shut out, and   *)
(* one that asks for a WebSocket is taken for an HTTP client when it ended  *)
(* after the Host line.  (ImServerAioHandler.decode, ImKit.protocol,        *)
(* HandshakeReqHandler.handler.)                                            *)
FirstReadDecides ==
  LET whole == first = Len(Opening[speaks]) \/ speaks = "tcp"
      wrong == speaks = "ws" /\ session = "http"
      lucky == first > 0 /\ SubSeq(Opening[speaks], 1, first) = RequestText
  IN  /\ shut => ~whole
      /\ session \notin {"none", speaks} => wrong /\ lucky
      /\ Quiet /\ ~shut /\ ~wrong =>
           answered = <<FirstPacket[speaks]>> \o [i \in 1 .. framesSent |-> "frame"]
=============================================================================
