------------------------------ MODULE TcpFraming ------------------------------
(***************************************************************************)
(* The TCP side of a connection: TcpServerEncoder's packets, a stream that   *)
(* cuts them anywhere, and TcpServerDecoder, which is asked again with more  *)
(* bytes when it answers null.  Of a body only the length counts.           *)
(***************************************************************************)
EXTENDS NetBytes

CONSTANTS
  TcpPackets,  \* packets sent, see TcpRec
  Commands,    \* the numbers of Command
  MaxSent      \* bound on the packets

TcpRec == [synSeq: 0 .. MaxInt, cmd: Commands, bodyLen: 0 .. MaxInt]

ASSUME TcpAssumption ==
  /\ Commands \subseteq 0 .. 127
  /\ TcpPackets \subseteq TcpRec
  /\ MaxSent \in Nat

VARIABLES
  out,     \* packets encoded, in order
  wire,    \* bytes on their way
  buffer,  \* bytes that have arrived and are not decoded
  in,      \* packets decoded, in order
  refused  \* AioDecodeException or BufferUnderflowException: t-io closes

tcpVars == <<out, wire, buffer, in, refused>>

TcpTypeOK ==
  /\ out \in Seq(TcpPackets) /\ Len(out) <= MaxSent
  /\ wire \in Seq(0 .. 255) /\ buffer \in Seq(0 .. 255)
  /\ in \in Seq(TcpRec)
  /\ refused \in BOOLEAN

TcpInit == out = <<>> /\ wire = <<>> /\ buffer = <<>> /\ in = <<>> /\ refused = FALSE
-----------------------------------------------------------------------------
VERSION == 1

\* The flags: encodeHasSynSeq(_, FALSE) clears the encryption bit as well.
MaskByte(hasSynSeq) ==
  LET encrypted == SetBit(VERSION, 128)
      compressed == SetBit(encrypted, 64)
      syn == IF hasSynSeq THEN SetBit(compressed, 32)
             ELSE ClearBit(ClearBit(compressed, 32), 128)
  IN  SetBit(syn, 16)
DecodeHasSynSeq(maskByte) == HasBit(maskByte, 32)

\* For a packet with a body, which may be empty.  A null body, which the count of
\* its length allows for, throws when it is put: that packet never gets to the
\* wire, and is none of TcpPackets.
Encode(p) ==
  <<VERSION, MaskByte(p.synSeq > 0)>>
    \o (IF p.synSeq > 0 THEN UB4(p.synSeq) ELSE <<>>)
    \o <<p.cmd>> \o UB4(p.bodyLen)
    \o [i \in 1 .. p.bodyLen |-> VERSION]

\* isHeaderLength: whether the head is there.
\* (Mutant: the sequence number's four bytes are not counted.)
IsHeaderLength_Short(b) == Len(b) >= 7
IsHeaderLength(b) ==
  Len(b) >= 2 /\ Len(b) >= 7 + (IF DecodeHasSynSeq(b[2]) THEN 4 ELSE 0)

\* decode: null, an exception, or a packet and the bytes it took.
Null == [kind |-> "null"]
Error == [kind |-> "error"]
Packet(p, taken) == [kind |-> "packet", packet |-> p, taken |-> taken]

TcpDecode(b) ==
  IF ~IsHeaderLength(b) THEN Null
  ELSE LET syn == DecodeHasSynSeq(b[2])
           at == IF syn THEN 7 ELSE 3  \* of the command's byte
       IN  IF b[1] # VERSION \/ Len(b) < at + 4 THEN Error
           ELSE LET bodyLen == FromUB4(SubSeq(b, at + 1, at + 4)) IN
                IF b[at] \notin Commands \/ bodyLen < 0 THEN Error
                ELSE IF Len(b) < at + 4 + bodyLen THEN Null
                ELSE Packet([synSeq |-> IF syn THEN FromUB4(SubSeq(b, 3, 6)) ELSE 0,
                             cmd |-> b[at], bodyLen |-> bodyLen],
                            at + 4 + bodyLen)
-----------------------------------------------------------------------------
Send(p) ==
  /\ Len(out) < MaxSent
  /\ out' = Append(out, p)
  /\ wire' = wire \o Encode(p)
  /\ UNCHANGED <<buffer, in, refused>>

Arrive(n) ==
  /\ ~refused /\ n \in DOMAIN wire
  /\ buffer' = buffer \o SubSeq(wire, 1, n)
  /\ wire' = SubSeq(wire, n + 1, Len(wire))
  /\ UNCHANGED <<out, in, refused>>

DecodeNext ==
  LET r == TcpDecode(buffer) IN
  /\ ~refused /\ r.kind # "null"
  /\ IF r.kind = "error"
     THEN refused' = TRUE /\ UNCHANGED <<buffer, in>>
     ELSE /\ in' = Append(in, r.packet)
          /\ buffer' = SubSeq(buffer, r.taken + 1, Len(buffer))
          /\ UNCHANGED refused
  /\ UNCHANGED <<out, wire>>

TcpNext ==
  \/ \E p \in TcpPackets : Send(p)
  \/ \E n \in DOMAIN wire : Arrive(n)
  \/ DecodeNext

TcpSpec == TcpInit /\ [][TcpNext]_tcpVars
-----------------------------------------------------------------------------
(* However the stream is cut, the packets decoded are those encoded, in      *)
(* order; when everything has arrived, all of them; and none is refused.     *)
(* (TcpServerEncoder.encode against TcpServerDecoder.decode.)               *)
StreamIsPackets ==
  /\ ~refused
  /\ in = SubSeq(out, 1, Len(in))
  /\ wire = <<>> /\ TcpDecode(buffer) = Null => in = out
=============================================================================
