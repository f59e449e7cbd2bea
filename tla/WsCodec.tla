------------------------------- MODULE WsCodec -------------------------------
(***************************************************************************)
(* The WebSocket side of a connection: WsServerDecoder puts a message's     *)
(* fragments together in lastParts, WsProtocolHandler makes a command of    *)
(* the body, WsServerEncoder writes the head of an answer.  Frames come in  *)
(* the order the client sent them.  A payload is an abstract piece; a body  *)
(* is the sequence of the pieces in it, and a command can be read from it   *)
(* exactly when they are those of one message.                              *)
(***************************************************************************)
EXTENDS NetBytes

CONSTANTS
  WsMsgs,     \* messages the client sends, each once
  MaxParts,   \* bound on a message's fragments with a payload
  MaxFrames,  \* bound on the frames
  Lengths,    \* lengths of the answers
  MaxBody     \* WsPacket.MAX_BODY_LENGTH

ASSUME WsAssumption ==
  /\ MaxParts \in Nat \ {0} /\ MaxFrames \in Nat
  /\ MaxBody \in 0 .. MaxInt
  /\ Lengths \subseteq 0 .. MaxBody

Nothing == <<>>
Control == <<"control">>  \* the payload of a ping or pong

VARIABLES
  pieces,     \* payloads of the message being sent, as far as it is
  sending,    \* a set: that message, if any
  lastParts,  \* WsSessionContext.lastParts; <<>> for null
  sent,       \* history: messages sent to the end, in order
  harmed,     \* history: those, or the one being sent, that cannot be read
  left,       \* history: parts are left over from a message that has ended
  handed,     \* messages given to their command handlers, in order
  wsOpen,     \* no close frame yet
  head,       \* the head of the last answer, its bytes from the second on
  answer,     \* the length of that answer
  frames

wsVars == <<pieces, sending, lastParts, sent, harmed, left, handed, wsOpen, head, answer, frames>>

WsTypeOK ==
  /\ sending \in SUBSET WsMsgs
  /\ pieces \in Seq(WsMsgs \X (1 .. MaxParts)) /\ Len(pieces) <= MaxParts
  /\ lastParts \in Seq((WsMsgs \X (1 .. MaxParts)) \union {Control})
  /\ sent \in Seq(WsMsgs) /\ handed \in Seq(WsMsgs)
  /\ harmed \in SUBSET WsMsgs
  /\ left \in BOOLEAN /\ wsOpen \in BOOLEAN
  /\ head \in Seq(0 .. 255)
  /\ answer \in 0 .. MaxBody
  /\ frames \in 0 .. MaxFrames

WsInit ==
  /\ sending = {} /\ pieces = <<>> /\ lastParts = <<>>
  /\ sent = <<>> /\ harmed = {} /\ left = FALSE /\ handed = <<>>
  /\ wsOpen = TRUE
  /\ head = <<0>> /\ answer = 0
  /\ frames = 0
-----------------------------------------------------------------------------
(* WsServerDecoder.decode of a whole frame.                                 *)

\* What lastParts is afterwards; an empty payload leaves before it is looked at.
\* (Mutant: they are not cleared.)
LastParts_Kept(payload, fin) ==
  IF payload = Nothing THEN lastParts
  ELSE IF fin THEN lastParts
  ELSE Append(lastParts, payload)
LastParts(payload, fin) ==
  IF payload = Nothing THEN lastParts
  ELSE IF fin THEN <<>>
  ELSE Append(lastParts, payload)

\* The body, or Nothing for null.
Body(payload, fin) ==
  IF payload = Nothing \/ ~fin THEN Nothing ELSE Append(lastParts, payload)

\* WsProtocolHandler: decode reads the command, handler gives it to its
\* handler; what cannot be read is answered COMMAND_UNKNOW or not at all.
Handed(body, m, own) == IF body = own /\ body # Nothing THEN Append(handed, m) ELSE handed

Decode(payload, fin) ==
  /\ wsOpen /\ frames < MaxFrames
  /\ frames' = frames + 1
  /\ lastParts' = LastParts(payload, fin)
  /\ UNCHANGED <<wsOpen, head, answer>>

Payloads(m) ==
  {Nothing} \union (IF Len(pieces) < MaxParts THEN {<<m, Len(pieces) + 1>>} ELSE {})
With(payload) == IF payload = Nothing THEN pieces ELSE Append(pieces, payload)
-----------------------------------------------------------------------------
\* A frame of m that is not its last.
Fragment(m, payload) ==
  /\ sending \in {{}, {m}} /\ \A i \in DOMAIN sent : sent[i] # m
  /\ Decode(payload, FALSE)
  /\ sending' = {m}
  /\ pieces' = With(payload)
  /\ harmed' = IF left /\ payload # Nothing THEN harmed \union {m} ELSE harmed
  /\ UNCHANGED <<sent, left, handed>>

\* The last frame of m.
LastFrame(m, payload) ==
  /\ sending \in {{}, {m}} /\ \A i \in DOMAIN sent : sent[i] # m
  /\ Decode(payload, TRUE)
  /\ sending' = {} /\ pieces' = <<>>
  /\ sent' = Append(sent, m)
  /\ handed' = Handed(Body(payload, TRUE), m, With(payload))
  /\ harmed' = IF left \/ payload = Nothing THEN harmed \union {m} ELSE harmed
  /\ left' = (payload = Nothing /\ lastParts # <<>>)

\* A ping or pong, between two frames of a message perhaps: taken for the end
\* of what there is in lastParts.
ControlFrame(payload) ==
  /\ Decode(payload, TRUE)
  /\ IF payload = Nothing THEN UNCHANGED <<harmed, left>>
     ELSE /\ harmed' = IF pieces # <<>> THEN harmed \union sending ELSE harmed
          /\ left' = FALSE
  /\ UNCHANGED <<sending, pieces, sent, handed>>

\* A close frame becomes COMMAND_CLOSE_REQ whatever its body.
CloseFrame(payload) ==
  /\ wsOpen /\ frames < MaxFrames
  /\ frames' = frames + 1
  /\ lastParts' = LastParts(payload, TRUE)
  /\ wsOpen' = FALSE
  /\ UNCHANGED <<sending, pieces, sent, harmed, left, handed, head, answer>>
-----------------------------------------------------------------------------
(* The length in the head, bytes as numbers.                                *)

\* WsServerEncoder.encode.  (Mutant: 126 is taken for a length.)
EncodeHead_126(n) ==
  IF n <= 126 THEN <<n>>
  ELSE IF n < 65535 THEN <<126>> \o UB2(n)
  ELSE <<127, 0, 0, 0, 0>> \o UB4(n)
EncodeHead(n) ==
  IF n < 126 THEN <<n>>
  ELSE IF n < 65535 THEN <<126>> \o UB2(n)
  ELSE <<127, 0, 0, 0, 0>> \o UB4(n)

\* WsServerDecoder.decode, without a mask: null while bytes are missing, and an
\* error for a length above the limit.  The eight bytes are cut to an int.
Incomplete == -1
Invalid == -2
DecodeHead(s) ==
  LET low == FromUB4(SubSeq(s, 6, 9)) IN
  IF Len(s) < 1 THEN Incomplete
  ELSE IF s[1] % 128 = 126
    THEN IF Len(s) < 3 THEN Incomplete ELSE FromUB2(SubSeq(s, 2, 3))
  ELSE IF s[1] % 128 # 127 THEN s[1] % 128
  ELSE IF Len(s) < 9 THEN Incomplete
  ELSE IF low < 0 \/ low > MaxBody THEN Invalid
  ELSE low

Answer(n) ==
  /\ wsOpen
  /\ answer' = n
  /\ head' = EncodeHead(n)
  /\ UNCHANGED <<sending, pieces, lastParts, sent, harmed, left, handed, wsOpen, frames>>
-----------------------------------------------------------------------------
WsNext ==
  \/ \E m \in WsMsgs : \E payload \in Payloads(m) : Fragment(m, payload) \/ LastFrame(m, payload)
  \/ \E payload \in {Nothing, Control} : ControlFrame(payload) \/ CloseFrame(payload)
  \/ \E n \in Lengths : Answer(n)

WsSpec == WsInit /\ [][WsNext]_wsVars
-----------------------------------------------------------------------------
(* The messages handed on are those sent to the end, whole, once and in     *)
(* order, except the ones harmed: those that ended in an empty frame, those  *)
(* sent while parts of such a one were left over, and those with a control  *)
(* frame's payload in between.  (WsServerDecoder.decode: lastParts.)        *)
HandedWhole ==
  /\ {handed[i] : i \in DOMAIN handed} = {sent[p] : p \in DOMAIN sent} \ harmed
  /\ \A i \in DOMAIN handed, j \in DOMAIN handed, p \in DOMAIN sent, q \in DOMAIN sent :
       i < j /\ handed[i] = sent[p] /\ handed[j] = sent[q] => p < q

(* The length an answer's head gives is the answer's, and cannot be read    *)
(* from less than the head.  (WsServerEncoder.encode against                *)
(* WsServerDecoder.decode.)                                                 *)
LengthSurvives ==
  /\ DecodeHead(head) = answer
  /\ \A i \in 0 .. Len(head) - 1 : DecodeHead(SubSeq(head, 1, i)) = Incomplete
=============================================================================
