----------------------------- MODULE WireProofs -----------------------------
(***************************************************************************)
(* What goes over the wire: the numbers of NetBytes, the WebSocket codec    *)
(* (WsCodec), the TCP framing (TcpFraming), the choice of the protocol      *)
(* (ProtocolChoice) and the answers of the HTTP server: "not modified"      *)
(* (StaticRes) and the session cookie (HttpSessions).  Each part states its *)
(* inductive invariant, proves it action by action and concludes its        *)
(* theorems.                                                                *)
(***************************************************************************)
EXTENDS WsCodec, TcpFraming, ProtocolChoice, StaticRes, HttpSessions, SequenceTheorems, TLAPS
-----------------------------------------------------------------------------
(* Numbers on the wire.                                                     *)

LEMMA MaxIntNat == MaxInt \in Nat
BY SMT DEF MaxInt

LEMMA MaxIntIs == MaxInt < 2147483648
BY SMT DEF MaxInt

LEMMA UB2Bytes ==
  ASSUME NEW n \in Nat, n < 65536
  PROVE  /\ UB2(n) = <<n \div 256, n % 256>>
         /\ n \div 256 \in 0 .. 255 /\ n % 256 \in 0 .. 255
         /\ (n \div 256) * 256 + (n % 256) = n
<1>1. n \div 256 \in 0 .. 255 /\ n % 256 \in 0 .. 255 /\ (n \div 256) * 256 + (n % 256) = n
  BY SMT
<1>. QED  BY <1>1, SMT DEF UB2

\* What four bytes stand for.
Value4(a, b, c, d) == a * 16777216 + b * 65536 + c * 256 + d

LEMMA UB4Bytes ==
  ASSUME NEW n \in 0 .. MaxInt
  PROVE  /\ UB4(n) \in Seq(0 .. 255) /\ Len(UB4(n)) = 4
         /\ UB4(n)[1] < 128
         /\ Value4(UB4(n)[1], UB4(n)[2], UB4(n)[3], UB4(n)[4]) = n
<1>. DEFINE h == n \div 65536
           l == n % 65536
<1>1. n \in Nat /\ n <= MaxInt
  BY MaxIntNat, SMT
<1>2. n < 2147483648
  BY <1>1, MaxIntNat, MaxIntIs, SMT
<1>3. h \in Nat /\ h < 32768 /\ l \in Nat /\ l < 65536 /\ h * 65536 + l = n
  BY <1>1, <1>2, SMT
<1>4. UB4(n) = UB2(h) \o UB2(l)
  BY SMT DEF UB4
<1>. HIDE DEF h, l
<1>. DEFINE a == h \div 256
           b == h % 256
           c == l \div 256
           d == l % 256
<1>5. UB2(h) = <<a, b>> /\ a \in 0 .. 127 /\ b \in 0 .. 255 /\ a * 256 + b = h
  <2>1. h < 65536
    BY <1>3, SMT
  <2>2. UB2(h) = <<a, b>> /\ a \in 0 .. 255 /\ b \in 0 .. 255 /\ a * 256 + b = h
    BY <1>3, <2>1, UB2Bytes, SMT
  <2>3. a \in 0 .. 127
    BY <1>3, SMT
  <2>. QED  BY <2>2, <2>3, SMT
<1>6. UB2(l) = <<c, d>> /\ c \in 0 .. 255 /\ d \in 0 .. 255 /\ c * 256 + d = l
  BY <1>3, UB2Bytes, SMT
<1>. HIDE DEF a, b, c, d
<1>7. /\ UB4(n) \in Seq(0 .. 255) /\ Len(UB4(n)) = 4
      /\ UB4(n)[1] = a /\ UB4(n)[2] = b /\ UB4(n)[3] = c /\ UB4(n)[4] = d
  <2>. DEFINE s == <<a, b>> \o <<c, d>>
  <2>1. <<a, b>> \in Seq(0 .. 255) /\ <<c, d>> \in Seq(0 .. 255)
    BY <1>5, <1>6, SMT
  <2>2. s \in Seq(0 .. 255) /\ Len(s) = 4 /\ s[1] = a /\ s[2] = b /\ s[3] = c /\ s[4] = d
    BY <2>1, SMT
  <2>. QED  BY <1>4, <1>5, <1>6, <2>2
<1>8. Value4(a, b, c, d) = n
  BY <1>3, <1>5, <1>6, SMT DEF Value4
<1>9. a < 128
  BY <1>5, SMT
<1>. QED  BY <1>7, <1>8, <1>9

\* What FromUB4 reads where UB4 wrote.
LEMMA FromUB4Bytes ==
  ASSUME NEW n \in 0 .. MaxInt, NEW s, \A i \in 1 .. 4 : s[i] = UB4(n)[i]
  PROVE  FromUB4(s) = n
<1>. DEFINE u == UB4(n)
<1>1. /\ u \in Seq(0 .. 255) /\ Len(u) = 4 /\ u[1] < 128
      /\ Value4(u[1], u[2], u[3], u[4]) = n
  BY UB4Bytes
<1>2. s[1] = u[1] /\ s[2] = u[2] /\ s[3] = u[3] /\ s[4] = u[4]
  BY SMT
<1>. HIDE DEF u
<1>. QED  BY <1>1, <1>2, SMT DEF FromUB4, Value4
-----------------------------------------------------------------------------
(* Sequences.                                                               *)

\* w is s and then t.
Joined(w, s, t) ==
  /\ Len(w) = Len(s) + Len(t)
  /\ \A i \in 1 .. Len(s) : w[i] = s[i]
  /\ \A i \in 1 .. Len(t) : w[Len(s) + i] = t[i]

LEMMA ConcatJoins ==
  ASSUME NEW S, NEW s \in Seq(S), NEW t \in Seq(S)
  PROVE  s \o t \in Seq(S) /\ Joined(s \o t, s, t)
BY SMT DEF Joined

LEMMA RestParts ==
  ASSUME NEW S, NEW s \in Seq(S), NEW a \in 0 .. Len(s)
  PROVE  /\ SubSeq(s, a + 1, Len(s)) \in Seq(S)
         /\ Len(SubSeq(s, a + 1, Len(s))) = Len(s) - a
         /\ \A j \in 1 .. Len(s) - a : SubSeq(s, a + 1, Len(s))[j] = s[a + j]
BY SMT

LEMMA RestInSeq ==
  ASSUME NEW S, NEW s \in Seq(S), NEW a \in Nat
  PROVE  SubSeq(s, a + 1, Len(s)) \in Seq(S)
BY SMT

LEMMA PrefixParts ==
  ASSUME NEW S, NEW s \in Seq(S), NEW a \in 0 .. Len(s)
  PROVE  /\ SubSeq(s, 1, a) \in Seq(S) /\ Len(SubSeq(s, 1, a)) = a
         /\ \A j \in 1 .. a : SubSeq(s, 1, a)[j] = s[j]
BY SMT

LEMMA RestOfConcat ==
  ASSUME NEW S, NEW s \in Seq(S), NEW t \in Seq(S), NEW a \in 0 .. Len(s)
  PROVE  SubSeq(s, a + 1, Len(s)) \o t = SubSeq(s \o t, a + 1, Len(s \o t))
<1>. DEFINE r == SubSeq(s, a + 1, Len(s))
           w == s \o t
           v == SubSeq(w, a + 1, Len(w))
           u == r \o t
<1>1. w \in Seq(S) /\ Joined(w, s, t)
  BY ConcatJoins
<1>2. r \in Seq(S) /\ Len(r) = Len(s) - a /\ \A j \in 1 .. Len(s) - a : r[j] = s[a + j]
  BY RestParts
<1>. HIDE DEF r
<1>3. u \in Seq(S) /\ Joined(u, r, t)
  BY <1>2, ConcatJoins
<1>. HIDE DEF w, u
<1>4. Len(s) \in Nat /\ Len(t) \in Nat /\ Len(w) = Len(s) + Len(t) /\ a \in 0 .. Len(w) /\ a \in Nat
  BY <1>1 DEF Joined
<1>5. v \in Seq(S) /\ Len(v) = Len(w) - a /\ \A j \in 1 .. Len(w) - a : v[j] = w[a + j]
  BY <1>1, <1>4, RestParts
<1>. HIDE DEF v
<1>6. Len(u) = Len(v)
  BY <1>2, <1>3, <1>4, <1>5 DEF Joined
<1>7. \A j \in 1 .. Len(u) : u[j] = v[j]
  <2>. SUFFICES ASSUME NEW j \in 1 .. Len(u) PROVE u[j] = v[j]
    OBVIOUS
  <2>1. j \in 1 .. Len(w) - a /\ v[j] = w[a + j] /\ Len(u) = Len(r) + Len(t)
    BY <1>3, <1>5, <1>6 DEF Joined
  <2>2. CASE j <= Len(s) - a
    <3>1. j \in 1 .. Len(r) /\ a + j \in 1 .. Len(s)
      BY <1>2, <1>4, <2>1, <2>2
    <3>2. u[j] = r[j] /\ r[j] = s[a + j] /\ w[a + j] = s[a + j]
      BY <1>1, <1>2, <1>3, <2>2, <3>1 DEF Joined
    <3>. QED  BY <2>1, <3>2
  <2>3. CASE j > Len(s) - a
    <3>. DEFINE i == j - Len(r)
    <3>1. i \in 1 .. Len(t) /\ j = Len(r) + i /\ a + j = Len(s) + i
      BY <1>2, <1>4, <2>1, <2>3
    <3>. HIDE DEF i
    <3>2. u[Len(r) + i] = t[i] /\ w[Len(s) + i] = t[i]
      BY <1>1, <1>3, <3>1 DEF Joined
    <3>. QED  BY <2>1, <3>1, <3>2
  <2>. QED  BY <1>4, <2>1, <2>2, <2>3
<1>8. u = v
  BY <1>3, <1>5, <1>6, <1>7, SeqEqual
<1>. QED  BY <1>8 DEF u, v, r, w
-----------------------------------------------------------------------------
(* WsCodec: the head of an answer.                                          *)

LEMMA LengthsFit == MaxBody \in Nat /\ MaxBody <= MaxInt /\ \A n \in Lengths : n \in 0 .. MaxBody
BY WsAssumption, MaxIntNat

LEMMA HeadOfShort ==
  ASSUME NEW n \in Nat, n < 126
  PROVE  /\ EncodeHead(n) \in Seq(0 .. 255)
         /\ DecodeHead(EncodeHead(n)) = n
         /\ \A i \in 0 .. Len(EncodeHead(n)) - 1 : DecodeHead(SubSeq(EncodeHead(n), 1, i)) = Incomplete
<1>. DEFINE h == <<n>>
<1>1. EncodeHead(n) = h /\ n \in 0 .. 255 /\ n % 128 = n /\ n # 126 /\ n # 127
  BY SMT DEF EncodeHead
<1>2. h \in Seq(0 .. 255) /\ Len(h) = 1 /\ h[1] = n
  BY <1>1, SMT
<1>3. DecodeHead(h) = n
  BY <1>1, <1>2, SMT DEF DecodeHead
<1>4. \A i \in 0 .. Len(h) - 1 : Len(SubSeq(h, 1, i)) = 0
  BY <1>2, SMT
<1>5. \A i \in 0 .. Len(h) - 1 : DecodeHead(SubSeq(h, 1, i)) = Incomplete
  BY <1>4, SMT DEF DecodeHead
<1>. QED  BY <1>1, <1>2, <1>3, <1>5, SMT

LEMMA HeadOfMiddle ==
  ASSUME NEW n \in Nat, 126 <= n, n < 65535
  PROVE  /\ EncodeHead(n) \in Seq(0 .. 255)
         /\ DecodeHead(EncodeHead(n)) = n
         /\ \A i \in 0 .. Len(EncodeHead(n)) - 1 : DecodeHead(SubSeq(EncodeHead(n), 1, i)) = Incomplete
<1>. DEFINE a == n \div 256
           b == n % 256
           h == <<126>> \o UB2(n)
<1>1. a \in 0 .. 255 /\ b \in 0 .. 255 /\ UB2(n) = <<a, b>> /\ a * 256 + b = n
  <2>1. n < 65536
    BY SMT
  <2>. QED  BY <2>1, UB2Bytes, SMT
<1>. HIDE DEF a, b
<1>2. EncodeHead(n) = h
  BY SMT DEF EncodeHead
<1>3. h \in Seq(0 .. 255) /\ Len(h) = 3 /\ h[1] = 126 /\ h[2] = a /\ h[3] = b
  <2>1. <<126>> \in Seq(0 .. 255) /\ <<a, b>> \in Seq(0 .. 255)
    BY <1>1, SMT
  <2>. QED  BY <1>1, <2>1, SMT
<1>. HIDE DEF h
<1>4. DecodeHead(h) = n
  <2>1. SubSeq(h, 2, 3)[1] = a /\ SubSeq(h, 2, 3)[2] = b
    BY <1>3, SMT
  <2>2. FromUB2(SubSeq(h, 2, 3)) = n
    BY <1>1, <2>1, SMT DEF FromUB2
  <2>. QED  BY <1>3, <2>2, SMT DEF DecodeHead
<1>5. \A i \in 0 .. Len(h) - 1 : Len(SubSeq(h, 1, i)) = i /\ (i > 0 => SubSeq(h, 1, i)[1] = 126)
  BY <1>3, SMT
<1>6. \A i \in 0 .. Len(h) - 1 : DecodeHead(SubSeq(h, 1, i)) = Incomplete
  BY <1>3, <1>5, SMT DEF DecodeHead
<1>. QED  BY <1>2, <1>3, <1>4, <1>6, SMT

\* The head's five bytes and the four after them.
LEMMA LongHead ==
  ASSUME NEW w, NEW z, NEW s, Joined(w, z, s), Len(z) = 5, Len(s) = 4
  PROVE  /\ Len(w) = 9 /\ w[1] = z[1]
         /\ w[6] = s[1] /\ w[7] = s[2] /\ w[8] = s[3] /\ w[9] = s[4]
<1>1. Len(w) = 9 /\ w[1] = z[1]
  BY SMT DEF Joined
<1>2. \A i \in 1 .. 4 : w[5 + i] = s[i]
  BY SMT DEF Joined
<1>3. w[5 + 1] = s[1] /\ w[5 + 2] = s[2] /\ w[5 + 3] = s[3] /\ w[5 + 4] = s[4]
  BY <1>2, SMT
<1>. QED  BY <1>1, <1>3, SMT

LEMMA HeadOfLong ==
  ASSUME NEW n \in 0 .. MaxBody, 65535 <= n
  PROVE  /\ EncodeHead(n) \in Seq(0 .. 255)
         /\ DecodeHead(EncodeHead(n)) = n
         /\ \A i \in 0 .. Len(EncodeHead(n)) - 1 : DecodeHead(SubSeq(EncodeHead(n), 1, i)) = Incomplete
<1>. DEFINE s == UB4(n)
           h == <<127, 0, 0, 0, 0>> \o s
<1>1. n \in 0 .. MaxInt
  BY LengthsFit, MaxIntNat, SMT
<1>2. s \in Seq(0 .. 255) /\ Len(s) = 4
  BY <1>1, UB4Bytes
<1>3. EncodeHead(n) = h
  BY <1>1, MaxIntNat, SMT DEF EncodeHead
<1>4. FromUB4(s) = n
  BY <1>1, FromUB4Bytes
<1>. HIDE DEF s
<1>5. /\ h \in Seq(0 .. 255) /\ Len(h) = 9 /\ h[1] = 127
      /\ h[6] = s[1] /\ h[7] = s[2] /\ h[8] = s[3] /\ h[9] = s[4]
  <2>. DEFINE z == <<127, 0, 0, 0, 0>>
  <2>1. z \in Seq(0 .. 255) /\ Len(z) = 5 /\ z[1] = 127
    BY SMT
  <2>. HIDE DEF z
  <2>. DEFINE B == 0 .. 255
  <2>2. z \in Seq(B) /\ s \in Seq(B)
    BY <1>2, <2>1
  <2>. HIDE DEF B, h
  <2>3. h = z \o s
    BY DEF h, z
  <2>4. h \in Seq(B) /\ Joined(h, z, s)
    BY <2>2, <2>3, ConcatJoins
  <2>. QED  BY <1>2, <2>1, <2>4, LongHead DEF B
<1>. HIDE DEF h
<1>6. FromUB4(SubSeq(h, 6, 9)) = n
  <2>1. /\ SubSeq(h, 6, 9)[1] = s[1] /\ SubSeq(h, 6, 9)[2] = s[2]
        /\ SubSeq(h, 6, 9)[3] = s[3] /\ SubSeq(h, 6, 9)[4] = s[4]
    BY <1>5, SMT
  <2>. QED  BY <1>4, <2>1, SMT DEF FromUB4
<1>7. \A i \in 0 .. Len(h) - 1 : Len(SubSeq(h, 1, i)) = i /\ (i > 0 => SubSeq(h, 1, i)[1] = 127)
  BY <1>5, SMT
<1>8. DecodeHead(h) = n
  BY <1>5, <1>6, LengthsFit, SMT DEF DecodeHead
<1>9. \A i \in 0 .. Len(h) - 1 : DecodeHead(SubSeq(h, 1, i)) = Incomplete
  BY <1>5, <1>7, SMT DEF DecodeHead
<1>. QED  BY <1>3, <1>5, <1>8, <1>9, SMT

\* What a head holds, whichever of its three forms it has.
LEMMA HeadOfAll ==
  ASSUME NEW n \in 0 .. MaxBody
  PROVE  /\ EncodeHead(n) \in Seq(0 .. 255)
         /\ DecodeHead(EncodeHead(n)) = n
         /\ \A i \in 0 .. Len(EncodeHead(n)) - 1 : DecodeHead(SubSeq(EncodeHead(n), 1, i)) = Incomplete
<1>1. n \in Nat
  BY LengthsFit, SMT
<1>2. n < 126 \/ (126 <= n /\ n < 65535) \/ 65535 <= n
  BY <1>1, SMT
<1>3. CASE n < 126
  BY <1>1, <1>3, HeadOfShort
<1>4. CASE 126 <= n /\ n < 65535
  BY <1>1, <1>4, HeadOfMiddle, SMT
<1>5. CASE 65535 <= n
  BY <1>5, HeadOfLong, SMT
<1>. QED  BY <1>2, <1>3, <1>4, <1>5, SMT

LEMMA HeadBytes == \A n \in Lengths : EncodeHead(n) \in Seq(0 .. 255)
BY HeadOfAll, LengthsFit
-----------------------------------------------------------------------------
(* WsCodec: the parts.                                                      *)

LEMMA WithTypes ==
  ASSUME WsTypeOK, NEW m \in WsMsgs, NEW payload \in Payloads(m)
  PROVE  With(payload) \in Seq(WsMsgs \X (1 .. MaxParts)) /\ Len(With(payload)) <= MaxParts
<1>1. CASE payload = Nothing
  BY <1>1 DEF With, WsTypeOK
<1>2. CASE payload # Nothing
  <2>1. payload = <<m, Len(pieces) + 1>> /\ Len(pieces) < MaxParts
    BY <1>2 DEF Payloads
  <2>2. Len(pieces) \in Nat /\ MaxParts \in Nat
    BY WsAssumption DEF WsTypeOK
  <2>3. payload \in WsMsgs \X (1 .. MaxParts)
    BY <2>1, <2>2
  <2>. QED  BY <1>2, <2>1, <2>2, <2>3 DEF With, WsTypeOK
<1>. QED  BY <1>1, <1>2

LEMMA LastPartsTypes ==
  ASSUME WsTypeOK
  PROVE  /\ \A payload, fin : payload = Nothing =>
              LastParts(payload, fin) \in Seq((WsMsgs \X (1 .. MaxParts)) \union {Control})
         /\ \A m \in WsMsgs : \A payload \in Payloads(m) : \A fin \in BOOLEAN :
              LastParts(payload, fin) \in Seq((WsMsgs \X (1 .. MaxParts)) \union {Control})
         /\ \A payload : LastParts(payload, TRUE) \in Seq((WsMsgs \X (1 .. MaxParts)) \union {Control})
<1>. DEFINE P == (WsMsgs \X (1 .. MaxParts)) \union {Control}
<1>1. lastParts \in Seq(P)
  BY DEF WsTypeOK
<1>2. ASSUME NEW m \in WsMsgs, NEW payload \in Payloads(m), payload # Nothing PROVE payload \in P
  <2>1. payload = <<m, Len(pieces) + 1>> /\ Len(pieces) < MaxParts
    BY <1>2 DEF Payloads
  <2>2. Len(pieces) \in Nat /\ MaxParts \in Nat
    BY WsAssumption DEF WsTypeOK
  <2>. QED  BY <2>1, <2>2
<1>. HIDE DEF P
<1>3. \A payload, fin : payload = Nothing => LastParts(payload, fin) \in Seq(P)
  BY <1>1 DEF LastParts
<1>4. \A m \in WsMsgs : \A payload \in Payloads(m) : \A fin \in BOOLEAN : LastParts(payload, fin) \in Seq(P)
  BY <1>1, <1>2 DEF LastParts
<1>5. \A payload : LastParts(payload, TRUE) \in Seq(P)
  BY <1>1 DEF LastParts
<1>. QED  BY <1>3, <1>4, <1>5 DEF P

LEMMA AppendIsOneToOne ==
  ASSUME NEW S, NEW T, NEW s \in Seq(S), NEW t \in Seq(T), NEW e
  PROVE  Append(s, e) = Append(t, e) => s = t
<1>. SUFFICES ASSUME Append(s, e) = Append(t, e) PROVE s = t
  OBVIOUS
<1>. DEFINE U == S \union T \union {e}
<1>1. s \in Seq(U) /\ t \in Seq(U) /\ e \in U
  OBVIOUS
<1>. HIDE DEF U
<1>2. /\ Len(Append(s, e)) = Len(s) + 1 /\ Len(Append(t, e)) = Len(t) + 1
      /\ \A i \in 1 .. Len(s) : Append(s, e)[i] = s[i]
      /\ \A i \in 1 .. Len(t) : Append(t, e)[i] = t[i]
  BY <1>1, AppendProperties
<1>3. Len(s) = Len(t)
  BY <1>1, <1>2
<1>4. \A i \in 1 .. Len(s) : s[i] = t[i]
  BY <1>2, <1>3
<1>. QED  BY <1>1, <1>3, <1>4, SeqEqual

LEMMA AppendIsSome == ASSUME NEW S, NEW s \in Seq(S), NEW e PROVE Append(s, e) # <<>>
<1>. DEFINE U == S \union {e}
<1>1. s \in Seq(U) /\ e \in U
  OBVIOUS
<1>. HIDE DEF U
<1>. QED  BY <1>1, AppendProperties
-----------------------------------------------------------------------------
(* WsCodec: types.                                                          *)

(* Whatever is sent, the parts and messages have the types of               *)
(* WsServerDecoder's lists, and a head is bytes.                            *)
THEOREM WsTypes == WsSpec => []WsTypeOK
<1>1. WsInit => WsTypeOK
  <2>. SUFFICES ASSUME WsInit PROVE WsTypeOK
    OBVIOUS
  <2>1. head \in Seq(0 .. 255)
    BY SMT DEF WsInit
  <2>2. pieces \in Seq(WsMsgs \X (1 .. MaxParts)) /\ Len(pieces) <= MaxParts
    BY WsAssumption, SMT DEF WsInit
  <2>3. answer \in 0 .. MaxBody /\ frames \in 0 .. MaxFrames
    BY LengthsFit, WsAssumption, SMT DEF WsInit
  <2>4. lastParts \in Seq((WsMsgs \X (1 .. MaxParts)) \union {Control})
    BY SMT DEF WsInit
  <2>5. sent \in Seq(WsMsgs) /\ handed \in Seq(WsMsgs)
    BY SMT DEF WsInit
  <2>. QED  BY <2>1, <2>2, <2>3, <2>4, <2>5 DEF WsInit, WsTypeOK
<1>2. WsTypeOK /\ [WsNext]_wsVars => WsTypeOK'
  <2>. SUFFICES ASSUME WsTypeOK, [WsNext]_wsVars PROVE WsTypeOK'
    OBVIOUS
  <2>1. ASSUME NEW m \in WsMsgs, NEW payload \in Payloads(m) PROVE Fragment(m, payload) => WsTypeOK'
    <3>. SUFFICES ASSUME Fragment(m, payload) PROVE WsTypeOK'
      OBVIOUS
    <3>1. pieces' \in Seq(WsMsgs \X (1 .. MaxParts)) /\ Len(pieces') <= MaxParts
      BY <2>1, WsAssumption, WithTypes DEF Fragment
    <3>2. lastParts' \in Seq((WsMsgs \X (1 .. MaxParts)) \union {Control})
      BY <2>1, LastPartsTypes DEF Fragment, Decode
    <3>3. harmed' \in SUBSET WsMsgs /\ sending' \in SUBSET WsMsgs
      BY DEF Fragment, WsTypeOK
    <3>4. frames' \in 0 .. MaxFrames
      BY WsAssumption DEF Fragment, Decode, WsTypeOK
    <3>. QED  BY <3>1, <3>2, <3>3, <3>4 DEF Fragment, Decode, WsTypeOK
  <2>2. ASSUME NEW m \in WsMsgs, NEW payload \in Payloads(m) PROVE LastFrame(m, payload) => WsTypeOK'
    <3>. SUFFICES ASSUME LastFrame(m, payload) PROVE WsTypeOK'
      OBVIOUS
    <3>1. pieces' \in Seq(WsMsgs \X (1 .. MaxParts)) /\ Len(pieces') <= MaxParts
      BY WsAssumption, SMT DEF LastFrame
    <3>2. lastParts' \in Seq((WsMsgs \X (1 .. MaxParts)) \union {Control})
      BY <2>2, LastPartsTypes DEF LastFrame, Decode
    <3>3. harmed' \in SUBSET WsMsgs /\ sending' \in SUBSET WsMsgs /\ left' \in BOOLEAN
      BY DEF LastFrame, WsTypeOK
    <3>4. frames' \in 0 .. MaxFrames
      BY WsAssumption DEF LastFrame, Decode, WsTypeOK
    <3>5. sent' \in Seq(WsMsgs) /\ handed' \in Seq(WsMsgs)
      <4>1. Append(sent, m) \in Seq(WsMsgs) /\ Append(handed, m) \in Seq(WsMsgs)
        BY DEF WsTypeOK
      <4>2. handed' = Append(handed, m) \/ handed' = handed
        BY DEF LastFrame, Handed
      <4>. QED  BY <4>1, <4>2 DEF LastFrame, WsTypeOK
    <3>. QED  BY <3>1, <3>2, <3>3, <3>4, <3>5 DEF LastFrame, Decode, WsTypeOK
  <2>3. ASSUME NEW payload \in {Nothing, Control} PROVE ControlFrame(payload) => WsTypeOK'
    <3>. SUFFICES ASSUME ControlFrame(payload) PROVE WsTypeOK'
      OBVIOUS
    <3>1. lastParts' \in Seq((WsMsgs \X (1 .. MaxParts)) \union {Control})
      BY <2>3, LastPartsTypes DEF ControlFrame, Decode
    <3>2. harmed' \in SUBSET WsMsgs /\ left' \in BOOLEAN
      BY DEF ControlFrame, WsTypeOK
    <3>3. frames' \in 0 .. MaxFrames
      BY WsAssumption DEF ControlFrame, Decode, WsTypeOK
    <3>. QED  BY <3>1, <3>2, <3>3 DEF ControlFrame, Decode, WsTypeOK
  <2>4. ASSUME NEW payload \in {Nothing, Control} PROVE CloseFrame(payload) => WsTypeOK'
    <3>. SUFFICES ASSUME CloseFrame(payload) PROVE WsTypeOK'
      OBVIOUS
    <3>1. lastParts' \in Seq((WsMsgs \X (1 .. MaxParts)) \union {Control})
      BY <2>4, LastPartsTypes DEF CloseFrame
    <3>2. frames' \in 0 .. MaxFrames
      BY WsAssumption DEF CloseFrame, WsTypeOK
    <3>. QED  BY <3>1, <3>2 DEF CloseFrame, WsTypeOK
  <2>5. ASSUME NEW n \in Lengths PROVE Answer(n) => WsTypeOK'
    <3>. SUFFICES ASSUME Answer(n) PROVE WsTypeOK'
      OBVIOUS
    <3>1. answer' \in 0 .. MaxBody
      BY LengthsFit DEF Answer
    <3>2. head' \in Seq(0 .. 255)
      BY HeadBytes DEF Answer
    <3>. QED  BY <3>1, <3>2 DEF Answer, WsTypeOK
  <2>6. CASE UNCHANGED wsVars
    BY <2>6 DEF wsVars, WsTypeOK
  <2>. QED  BY <2>1, <2>2, <2>3, <2>4, <2>5, <2>6 DEF WsNext
<1>. QED  BY <1>1, <1>2, PTL DEF WsSpec
-----------------------------------------------------------------------------
(* WsCodec: what an answer's head says.                                     *)

HeadKept == answer \in 0 .. MaxBody /\ head = EncodeHead(answer)

(* For every limit an int can hold and every answer below it, the head      *)
(* written by WsServerEncoder gives its length and nothing shorter does.    *)
THEOREM WsLengthSurvives == WsSpec => []LengthSurvives
<1>1. WsInit => HeadKept
  BY LengthsFit, SMT DEF WsInit, HeadKept, EncodeHead
<1>2. HeadKept /\ [WsNext]_wsVars => HeadKept'
  <2>. SUFFICES ASSUME HeadKept, [WsNext]_wsVars PROVE HeadKept'
    OBVIOUS
  <2>1. ASSUME NEW n \in Lengths PROVE Answer(n) => HeadKept'
    BY LengthsFit DEF Answer, HeadKept
  <2>2. CASE UNCHANGED <<head, answer>>
    BY <2>2 DEF HeadKept
  <2>3. ASSUME NEW m, NEW payload
        PROVE  Fragment(m, payload) \/ LastFrame(m, payload) \/ ControlFrame(payload) \/ CloseFrame(payload)
                 => UNCHANGED <<head, answer>>
    BY DEF Fragment, LastFrame, ControlFrame, CloseFrame, Decode
  <2>4. UNCHANGED wsVars => UNCHANGED <<head, answer>>
    BY DEF wsVars
  <2>. QED  BY <2>1, <2>2, <2>3, <2>4 DEF WsNext
<1>3. HeadKept => LengthSurvives
  BY HeadOfAll DEF HeadKept, LengthSurvives
<1>. QED  BY <1>1, <1>2, <1>3, PTL DEF WsSpec
-----------------------------------------------------------------------------
(* WsCodec: the messages handed on.                                         *)

Unsent(m) == \A i \in DOMAIN sent : sent[i] # m

\* A message is sent once, one at a time, and harmed while it is or was sent.
MessagesOnce ==
  /\ \A i \in DOMAIN sent, j \in DOMAIN sent : sent[i] = sent[j] => i = j
  /\ \A m \in sending : Unsent(m)
  /\ \A m \in sending, n \in sending : m = n
  /\ \A m \in harmed : m \in sending \/ ~Unsent(m)

\* lastParts against the pieces of the message being sent: the same, too few
\* since a control frame took them, or more by what a message has left over.
PartsKept ==
  /\ sending = {} => pieces = <<>>
  /\ ~left => \/ lastParts = pieces /\ sending \cap harmed = {}
              \/ Len(lastParts) < Len(pieces) /\ sending \subseteq harmed
  /\ left => /\ Len(lastParts) > Len(pieces)
             /\ pieces = <<>> => sending \cap harmed = {}
             /\ pieces # <<>> => sending \subseteq harmed

WsInv == WsTypeOK /\ MessagesOnce /\ (wsOpen => PartsKept) /\ HandedWhole

LEMMA HarmedAreKnown ==
  ASSUME MessagesOnce, NEW m, sending \in {{}, {m}}, Unsent(m), m \notin sending
  PROVE  m \notin harmed
BY DEF MessagesOnce

LEMMA FragmentKeepsWs ==
  ASSUME WsInv, WsTypeOK', NEW m \in WsMsgs, NEW payload \in Payloads(m), Fragment(m, payload)
  PROVE  WsInv'
<1>1. /\ sent' = sent /\ handed' = handed /\ left' = left /\ wsOpen' = wsOpen /\ wsOpen
      /\ sending' = {m} /\ pieces' = With(payload) /\ lastParts' = LastParts(payload, FALSE)
      /\ sending \in {{}, {m}}
      /\ harmed' = IF left /\ payload # Nothing THEN harmed \union {m} ELSE harmed
  BY DEF Fragment, Decode
<1>2. Unsent(m)
  BY DEF Fragment, Unsent
<1>3. m \notin sending => m \notin harmed
  BY <1>1, <1>2, HarmedAreKnown DEF WsInv
<1>4. MessagesOnce'
  <2>1. \A n : Unsent(n)' <=> Unsent(n)
    BY <1>1 DEF Unsent
  <2>2. (\A i \in DOMAIN sent, j \in DOMAIN sent : sent[i] = sent[j] => i = j)'
    BY <1>1 DEF WsInv, MessagesOnce
  <2>3. (\A n \in harmed : n \in sending \/ ~Unsent(n))'
    BY <1>1, <2>1 DEF WsInv, MessagesOnce
  <2>4. (\A n \in sending : Unsent(n))'
    BY <1>1, <1>2, <2>1
  <2>5. (\A n \in sending, k \in sending : n = k)'
    BY <1>1
  <2>. QED  BY <2>2, <2>3, <2>4, <2>5 DEF MessagesOnce
<1>5. PartsKept'
  <2>. USE DEF PartsKept
  <2>1. PartsKept
    BY <1>1 DEF WsInv
  <2>2. CASE payload = Nothing
    <3>1. pieces' = pieces /\ lastParts' = lastParts /\ harmed' = harmed
      BY <1>1, <2>2 DEF With, LastParts
    <3>2. sending = {} => pieces = <<>> /\ m \notin harmed
      BY <1>3, <2>1
    <3>3. Len(pieces) \in Nat /\ Len(lastParts) \in Nat /\ (pieces = <<>> => Len(pieces) = 0)
      BY DEF WsInv, WsTypeOK
    <3>4. CASE sending = {m}
      BY <1>1, <2>1, <3>1, <3>4
    <3>5. CASE sending = {}
      <4>1. pieces = <<>> /\ sending' \cap harmed' = {}
        BY <1>1, <3>1, <3>2, <3>5
      <4>2. ~left => lastParts = pieces
        BY <2>1, <3>3, <4>1
      <4>3. left => Len(lastParts) > Len(pieces)
        BY <2>1
      <4>4. sending' # {} /\ pieces' = <<>> /\ left' = left
        BY <1>1, <3>1, <4>1
      <4>5. ~left' => lastParts' = pieces' /\ sending' \cap harmed' = {}
        BY <3>1, <4>1, <4>2, <4>4
      <4>6. left' => Len(lastParts') > Len(pieces') /\ sending' \cap harmed' = {}
        BY <3>1, <4>1, <4>3, <4>4
      <4>. QED  BY <4>4, <4>5, <4>6
    <3>. QED  BY <1>1, <3>4, <3>5
  <2>3. CASE payload # Nothing
    <3>1. pieces' = Append(pieces, payload) /\ lastParts' = Append(lastParts, payload)
      BY <1>1, <2>3 DEF With, LastParts
    <3>2. /\ Len(pieces) \in Nat /\ Len(lastParts) \in Nat
          /\ Len(pieces') = Len(pieces) + 1 /\ Len(lastParts') = Len(lastParts) + 1
          /\ pieces' # <<>>
      <4>1. pieces \in Seq(WsMsgs \X (1 .. MaxParts)) /\ lastParts \in Seq((WsMsgs \X (1 .. MaxParts)) \union {Control})
        BY DEF WsInv, WsTypeOK
      <4>. QED  BY <3>1, <4>1
    <3>3. CASE left
      <4>1. Len(lastParts') > Len(pieces')
        BY <2>1, <3>2, <3>3
      <4>2. left' /\ sending' # {} /\ sending' \subseteq harmed'
        BY <1>1, <2>3, <3>3
      <4>. QED  BY <3>2, <4>1, <4>2
    <3>4. CASE ~left
      <4>1. harmed' = harmed
        BY <1>1, <3>4
      <4>2. CASE lastParts = pieces /\ sending \cap harmed = {}
        <5>1. m \notin harmed
          BY <1>1, <1>3, <4>2
        <5>2. lastParts' = pieces'
          BY <3>1, <4>2
        <5>3. ~left' /\ sending' # {} /\ sending' \cap harmed' = {}
          BY <1>1, <3>4, <4>1, <5>1
        <5>. QED  BY <5>2, <5>3
      <4>3. CASE Len(lastParts) < Len(pieces) /\ sending \subseteq harmed
        <5>1. sending = {m}
          BY <1>1, <2>1, <3>2, <4>3
        <5>2. Len(lastParts') < Len(pieces')
          BY <3>2, <4>3
        <5>3. ~left' /\ sending' # {} /\ sending' \subseteq harmed'
          BY <1>1, <3>4, <4>1, <4>3, <5>1
        <5>. QED  BY <5>2, <5>3
      <4>. QED  BY <2>1, <3>4, <4>2, <4>3
    <3>. QED  BY <3>3, <3>4
  <2>. QED  BY <2>2, <2>3
<1>6. HandedWhole'
  <2>1. {sent[p] : p \in DOMAIN sent} \ harmed' = {sent[p] : p \in DOMAIN sent} \ harmed
    BY <1>1, <1>2 DEF Unsent
  <2>. QED  BY <1>1, <2>1 DEF WsInv, HandedWhole
<1>. QED  BY <1>4, <1>5, <1>6 DEF WsInv

LEMMA LastFrameKeepsWs ==
  ASSUME WsInv, WsTypeOK', NEW m \in WsMsgs, NEW payload \in Payloads(m), LastFrame(m, payload)
  PROVE  WsInv'
<1>1. /\ sent' = Append(sent, m) /\ wsOpen' = wsOpen /\ wsOpen
      /\ sending' = {} /\ pieces' = <<>> /\ lastParts' = LastParts(payload, TRUE)
      /\ sending \in {{}, {m}}
      /\ harmed' = IF left \/ payload = Nothing THEN harmed \union {m} ELSE harmed
      /\ left' = (payload = Nothing /\ lastParts # <<>>)
      /\ handed' = Handed(Body(payload, TRUE), m, With(payload))
  BY DEF LastFrame, Decode
<1>2. Unsent(m)
  BY DEF LastFrame, Unsent
<1>3. m \notin sending => m \notin harmed
  BY <1>1, <1>2, HarmedAreKnown DEF WsInv
<1>4. PartsKept
  BY <1>1 DEF WsInv
<1>5. /\ Len(pieces) \in Nat /\ Len(lastParts) \in Nat
      /\ pieces \in Seq(WsMsgs \X (1 .. MaxParts)) /\ lastParts \in Seq((WsMsgs \X (1 .. MaxParts)) \union {Control})
      /\ sent \in Seq(WsMsgs) /\ handed \in Seq(WsMsgs)
  BY DEF WsInv, WsTypeOK
<1>6. /\ DOMAIN sent' = 1 .. Len(sent) + 1 /\ DOMAIN sent = 1 .. Len(sent) /\ Len(sent) \in Nat
      /\ \A i \in DOMAIN sent : sent'[i] = sent[i]
      /\ sent'[Len(sent) + 1] = m
  BY <1>1, <1>5
<1>7. MessagesOnce'
  <2>1. \A n : Unsent(n)' <=> Unsent(n) /\ n # m
    BY <1>6 DEF Unsent
  <2>2. (\A i \in DOMAIN sent, j \in DOMAIN sent : sent[i] = sent[j] => i = j)'
    <3>1. \A i \in DOMAIN sent, j \in DOMAIN sent : sent[i] = sent[j] => i = j
      BY DEF WsInv, MessagesOnce
    <3>. QED  BY <1>2, <1>6, <3>1 DEF Unsent
  <2>3. (\A n \in harmed : n \in sending \/ ~Unsent(n))'
    <3>1. \A n \in harmed : n \in sending \/ ~Unsent(n)
      BY DEF WsInv, MessagesOnce
    <3>2. \A n \in harmed' : n \in harmed \/ n = m
      BY <1>1
    <3>3. \A n \in sending : n = m
      BY <1>1
    <3>. QED  BY <2>1, <3>1, <3>2, <3>3
  <2>4. (\A n \in sending : Unsent(n))'
    BY <1>1
  <2>5. (\A n \in sending, k \in sending : n = k)'
    BY <1>1
  <2>. QED  BY <2>2, <2>3, <2>4, <2>5 DEF MessagesOnce
<1>8. PartsKept'
  <2>1. sending' \cap harmed' = {} /\ pieces' = <<>> /\ sending' = {} /\ Len(pieces') = 0
    BY <1>1
  <2>2. CASE payload = Nothing
    <3>1. lastParts' = lastParts /\ left' = (lastParts # <<>>)
      BY <1>1, <2>2 DEF LastParts
    <3>2. lastParts # <<>> => Len(lastParts) > 0
      BY <1>5
    <3>3. ~left' => lastParts' = pieces'
      BY <2>1, <3>1
    <3>4. left' => Len(lastParts') > Len(pieces')
      BY <2>1, <3>1, <3>2
    <3>. QED  BY <2>1, <3>3, <3>4 DEF PartsKept
  <2>3. CASE payload # Nothing
    <3>1. lastParts' = pieces' /\ ~left'
      BY <1>1, <2>1, <2>3 DEF LastParts
    <3>. QED  BY <2>1, <3>1 DEF PartsKept
  <2>. QED  BY <2>2, <2>3
<1>9. HandedWhole'
  <2>. DEFINE whole == payload # Nothing /\ lastParts = pieces
  <2>1. handed' = IF whole THEN Append(handed, m) ELSE handed
    <3>1. CASE payload = Nothing
      BY <1>1, <3>1 DEF Body, Handed
    <3>2. CASE payload # Nothing
      <4>. DEFINE P == WsMsgs \X (1 .. MaxParts)
                 Q == P \union {Control}
      <4>1. pieces \in Seq(P) /\ lastParts \in Seq(Q)
        BY <1>5
      <4>. HIDE DEF P, Q
      <4>2. Append(lastParts, payload) = Append(pieces, payload) => lastParts = pieces
        BY <4>1, AppendIsOneToOne
      <4>3. Append(lastParts, payload) # Nothing
        BY <4>1, AppendIsSome DEF Nothing
      <4>. QED  BY <1>1, <3>2, <4>2, <4>3 DEF Body, Handed, With
    <3>. QED  BY <3>1, <3>2
  <2>2. whole <=> m \notin harmed'
    <3>1. CASE payload = Nothing
      BY <1>1, <3>1
    <3>2. CASE payload # Nothing /\ left
      <4>1. Len(lastParts) > Len(pieces)
        BY <1>4, <3>2 DEF PartsKept
      <4>. QED  BY <1>1, <1>5, <3>2, <4>1
    <3>3. CASE payload # Nothing /\ ~left
      <4>1. harmed' = harmed
        BY <1>1, <3>3
      <4>2. CASE lastParts = pieces /\ sending \cap harmed = {}
        BY <1>1, <1>3, <3>3, <4>1, <4>2
      <4>3. CASE Len(lastParts) < Len(pieces) /\ sending \subseteq harmed
        <5>1. sending = {m} /\ lastParts # pieces
          BY <1>1, <1>4, <1>5, <4>3 DEF PartsKept
        <5>. QED  BY <1>1, <3>3, <4>1, <4>3, <5>1
      <4>. QED  BY <1>4, <3>3, <4>2, <4>3 DEF PartsKept
    <3>. QED  BY <3>1, <3>2, <3>3
  <2>. HIDE DEF whole
  <2>3. \A n \in WsMsgs : n # m => (n \in harmed' <=> n \in harmed)
    BY <1>1
  <2>4. /\ {handed[i] : i \in DOMAIN handed} = {sent[p] : p \in DOMAIN sent} \ harmed
        /\ \A i \in DOMAIN handed, j \in DOMAIN handed, p \in DOMAIN sent, q \in DOMAIN sent :
             i < j /\ handed[i] = sent[p] /\ handed[j] = sent[q] => p < q
    BY DEF WsInv, HandedWhole
  <2>5. \A i \in DOMAIN handed : handed[i] # m /\ \E p \in DOMAIN sent : handed[i] = sent[p]
    BY <1>2, <2>4 DEF Unsent
  <2>6. {sent'[p] : p \in DOMAIN sent'} = {sent[p] : p \in DOMAIN sent} \union {m}
    BY <1>6
  <2>7. m \notin {sent[p] : p \in DOMAIN sent} /\ {sent[p] : p \in DOMAIN sent} \subseteq WsMsgs
    BY <1>2, <1>5 DEF Unsent
  <2>8. CASE whole
    <3>1. handed' = Append(handed, m) /\ m \notin harmed'
      BY <2>1, <2>2, <2>8
    <3>2. /\ DOMAIN handed' = 1 .. Len(handed) + 1 /\ DOMAIN handed = 1 .. Len(handed) /\ Len(handed) \in Nat
          /\ \A i \in DOMAIN handed : handed'[i] = handed[i]
          /\ handed'[Len(handed) + 1] = m
      BY <1>5, <3>1
    <3>3. {handed'[i] : i \in DOMAIN handed'} = {handed[i] : i \in DOMAIN handed} \union {m}
      BY <3>2
    <3>4. {handed'[i] : i \in DOMAIN handed'} = {sent'[p] : p \in DOMAIN sent'} \ harmed'
      BY <2>3, <2>4, <2>6, <2>7, <3>1, <3>3
    <3>5. ASSUME NEW i \in DOMAIN handed', NEW j \in DOMAIN handed', NEW p \in DOMAIN sent', NEW q \in DOMAIN sent',
                 i < j, handed'[i] = sent'[p], handed'[j] = sent'[q]
          PROVE  p < q
      <4>1. i \in DOMAIN handed /\ handed'[i] = handed[i]
        BY <3>2, <3>5
      <4>2. p \in DOMAIN sent /\ sent'[p] = sent[p]
        <5>1. sent'[p] # m
          BY <2>5, <3>5, <4>1
        <5>2. p # Len(sent) + 1
          BY <1>6, <5>1
        <5>3. p \in DOMAIN sent
          BY <1>6, <3>5, <5>2
        <5>. QED  BY <1>6, <5>3
      <4>3. CASE j \in DOMAIN handed
        <5>1. handed'[j] = handed[j]
          BY <3>2, <4>3
        <5>2. q \in DOMAIN sent /\ sent'[q] = sent[q]
          <6>1. sent'[q] # m
            BY <2>5, <3>5, <4>3, <5>1
          <6>2. q # Len(sent) + 1
            BY <1>6, <6>1
          <6>3. q \in DOMAIN sent
            BY <1>6, <3>5, <6>2
          <6>. QED  BY <1>6, <6>3
        <5>. QED  BY <2>4, <3>5, <4>1, <4>2, <4>3, <5>1, <5>2
      <4>4. CASE j = Len(handed) + 1
        <5>1. sent'[q] = m
          BY <3>2, <3>5, <4>4
        <5>2. q = Len(sent) + 1
          BY <1>2, <1>6, <5>1 DEF Unsent
        <5>. QED  BY <1>6, <4>2, <5>2
      <4>. QED  BY <3>2, <4>3, <4>4
    <3>. QED  BY <3>4, <3>5 DEF HandedWhole
  <2>9. CASE ~whole
    <3>1. handed' = handed /\ m \in harmed'
      BY <2>1, <2>2, <2>9
    <3>2. {handed'[i] : i \in DOMAIN handed'} = {sent'[p] : p \in DOMAIN sent'} \ harmed'
      BY <2>3, <2>4, <2>6, <2>7, <3>1
    <3>3. ASSUME NEW i \in DOMAIN handed', NEW j \in DOMAIN handed', NEW p \in DOMAIN sent', NEW q \in DOMAIN sent',
                 i < j, handed'[i] = sent'[p], handed'[j] = sent'[q]
          PROVE  p < q
      <4>1. p \in DOMAIN sent /\ sent'[p] = sent[p] /\ q \in DOMAIN sent /\ sent'[q] = sent[q]
        BY <1>6, <2>5, <3>1, <3>3
      <4>. QED  BY <2>4, <3>1, <3>3, <4>1
    <3>. QED  BY <3>2, <3>3 DEF HandedWhole
  <2>. QED  BY <2>8, <2>9
<1>. QED  BY <1>1, <1>7, <1>8, <1>9 DEF WsInv

LEMMA ControlFrameKeepsWs ==
  ASSUME WsInv, WsTypeOK', NEW payload \in {Nothing, Control}, ControlFrame(payload)
  PROVE  WsInv'
<1>1. /\ sent' = sent /\ wsOpen' = wsOpen /\ wsOpen /\ sending' = sending /\ pieces' = pieces
      /\ handed' = handed /\ lastParts' = LastParts(payload, TRUE)
      /\ payload = Nothing => harmed' = harmed /\ left' = left
      /\ payload # Nothing =>
           left' = FALSE /\ harmed' = IF pieces # <<>> THEN harmed \union sending ELSE harmed
  BY DEF ControlFrame, Decode
<1>2. PartsKept
  BY <1>1 DEF WsInv
<1>3. MessagesOnce'
  <2>1. \A n : Unsent(n)' <=> Unsent(n)
    BY <1>1 DEF Unsent
  <2>2. (\A i \in DOMAIN sent, j \in DOMAIN sent : sent[i] = sent[j] => i = j)'
    BY <1>1 DEF WsInv, MessagesOnce
  <2>3. (\A n \in harmed : n \in sending \/ ~Unsent(n))'
    BY <1>1, <2>1 DEF WsInv, MessagesOnce
  <2>4. (\A n \in sending : Unsent(n))'
    BY <1>1, <2>1 DEF WsInv, MessagesOnce
  <2>5. (\A n \in sending, k \in sending : n = k)'
    BY <1>1 DEF WsInv, MessagesOnce
  <2>. QED  BY <2>2, <2>3, <2>4, <2>5 DEF MessagesOnce
<1>4. PartsKept'
  <2>1. CASE payload = Nothing
    <3>1. lastParts' = lastParts
      BY <1>1, <2>1 DEF LastParts
    <3>2. UNCHANGED <<sending, pieces, lastParts, harmed, left>>
      BY <1>1, <2>1, <3>1
    <3>. QED  BY <1>2, <3>2 DEF PartsKept
  <2>2. CASE payload # Nothing
    <3>1. lastParts' = <<>> /\ ~left'
      BY <1>1, <2>2 DEF LastParts
    <3>2. CASE pieces = <<>>
      <4>1. harmed' = harmed
        BY <1>1, <2>2, <3>2
      <4>2. sending \cap harmed = {}
        <5>1. Len(pieces) = 0 /\ Len(lastParts) \in Nat
          BY <3>2 DEF WsInv, WsTypeOK
        <5>. QED  BY <1>2, <3>2, <5>1 DEF PartsKept
      <4>3. lastParts' = pieces' /\ sending' \cap harmed' = {}
        BY <1>1, <3>1, <3>2, <4>1, <4>2
      <4>. QED  BY <1>1, <3>1, <3>2, <4>3 DEF PartsKept
    <3>3. CASE pieces # <<>>
      <4>1. Len(lastParts') < Len(pieces')
        <5>1. pieces' \in Seq(WsMsgs \X (1 .. MaxParts)) /\ pieces' # <<>>
          BY <1>1, <3>3 DEF WsInv, WsTypeOK
        <5>. QED  BY <3>1, <5>1
      <4>2. sending' \subseteq harmed' /\ sending' # {}
        BY <1>1, <1>2, <2>2, <3>3 DEF PartsKept
      <4>. QED  BY <3>1, <4>1, <4>2 DEF PartsKept
    <3>. QED  BY <3>2, <3>3
  <2>. QED  BY <2>1, <2>2
<1>5. HandedWhole'
  <2>1. \A n \in sending : n \notin {sent[p] : p \in DOMAIN sent}
    BY DEF WsInv, MessagesOnce, Unsent
  <2>2. harmed \subseteq harmed' /\ harmed' \subseteq harmed \union sending
    BY <1>1
  <2>3. {sent[p] : p \in DOMAIN sent} \ harmed' = {sent[p] : p \in DOMAIN sent} \ harmed
    BY <2>1, <2>2
  <2>. QED  BY <1>1, <2>3 DEF WsInv, HandedWhole
<1>. QED  BY <1>3, <1>4, <1>5 DEF WsInv

LEMMA CloseFrameKeepsWs ==
  ASSUME WsInv, WsTypeOK', NEW payload, CloseFrame(payload)
  PROVE  WsInv'
<1>1. UNCHANGED <<sending, sent, harmed, handed>> /\ ~wsOpen'
  BY DEF CloseFrame
<1>2. MessagesOnce'
  BY <1>1 DEF WsInv, MessagesOnce, Unsent
<1>3. HandedWhole'
  BY <1>1 DEF WsInv, HandedWhole
<1>. QED  BY <1>1, <1>2, <1>3 DEF WsInv

(* However a client cuts its messages and whatever control frames it sends  *)
(* in between, the handlers get exactly the messages that are not harmed,   *)
(* whole, once and in order.                                                *)
THEOREM WsHandedWhole == WsSpec => []HandedWhole
<1>1. WsInit /\ WsTypeOK => WsInv
  <2>. SUFFICES ASSUME WsInit, WsTypeOK PROVE WsInv
    OBVIOUS
  <2>1. sent = <<>> /\ handed = <<>> /\ harmed = {} /\ sending = {} /\ pieces = <<>> /\ lastParts = <<>> /\ ~left
    BY DEF WsInit
  <2>2. MessagesOnce
    BY <2>1 DEF MessagesOnce
  <2>3. PartsKept
    BY <2>1 DEF PartsKept
  <2>4. HandedWhole
    BY <2>1 DEF HandedWhole
  <2>. QED  BY <2>2, <2>3, <2>4 DEF WsInv
<1>2. WsInv /\ [WsNext]_wsVars /\ WsTypeOK' => WsInv'
  <2>. SUFFICES ASSUME WsInv, [WsNext]_wsVars, WsTypeOK' PROVE WsInv'
    OBVIOUS
  <2>1. ASSUME NEW n, Answer(n) PROVE WsInv'
    <3>1. UNCHANGED <<sending, pieces, lastParts, sent, harmed, left, handed, wsOpen>>
      BY <2>1 DEF Answer
    <3>. QED  BY <3>1 DEF WsInv, MessagesOnce, PartsKept, HandedWhole, Unsent
  <2>2. CASE UNCHANGED wsVars
    <3>1. UNCHANGED <<sending, pieces, lastParts, sent, harmed, left, handed, wsOpen>>
      BY <2>2 DEF wsVars
    <3>. QED  BY <3>1 DEF WsInv, MessagesOnce, PartsKept, HandedWhole, Unsent
  <2>. QED
    BY <2>1, <2>2, FragmentKeepsWs, LastFrameKeepsWs, ControlFrameKeepsWs, CloseFrameKeepsWs DEF WsNext
<1>3. WsInv => HandedWhole
  BY DEF WsInv
<1>. QED  BY <1>1, <1>2, <1>3, WsTypes, PTL DEF WsSpec
-----------------------------------------------------------------------------
(* TcpFraming: the bytes of a packet.                                       *)

LEMMA MaskBytes ==
  /\ MaskByte(TRUE) = 241 /\ MaskByte(FALSE) = 81
  /\ DecodeHasSynSeq(241) /\ ~DecodeHasSynSeq(81)
<1>1. SetBit(1, 128) = 129
  BY SMT DEF SetBit, HasBit
<1>2. SetBit(129, 64) = 193
  BY SMT DEF SetBit, HasBit
<1>3. SetBit(193, 32) = 225
  BY SMT DEF SetBit, HasBit
<1>4. SetBit(225, 16) = 241
  BY SMT DEF SetBit, HasBit
<1>5. ClearBit(193, 32) = 193 /\ ClearBit(193, 128) = 65
  BY SMT DEF ClearBit, HasBit
<1>6. SetBit(65, 16) = 81
  BY SMT DEF SetBit, HasBit
<1>7. DecodeHasSynSeq(241) /\ ~DecodeHasSynSeq(81)
  BY SMT DEF DecodeHasSynSeq, HasBit
<1>. QED  BY <1>1, <1>2, <1>3, <1>4, <1>5, <1>6, <1>7 DEF MaskByte, VERSION

LEMMA MaskOf ==
  ASSUME NEW q \in BOOLEAN
  PROVE  /\ q => MaskByte(q) = 241
         /\ ~q => MaskByte(q) = 81
<1>1. CASE q = TRUE
  BY <1>1, MaskBytes, Zenon
<1>2. CASE q = FALSE
  BY <1>2, MaskBytes, Zenon
<1>. QED  BY <1>1, <1>2, Zenon

\* Where the byte of the command is.
CmdAt(p) == IF p.synSeq > 0 THEN 7 ELSE 3

\* b begins like the packet's encoding.
Encodes(b, p) ==
  /\ b[1] = VERSION /\ b[2] = MaskByte(p.synSeq > 0)
  /\ p.synSeq > 0 => \A i \in 1 .. 4 : b[2 + i] = UB4(p.synSeq)[i]
  /\ b[CmdAt(p)] = p.cmd
  /\ \A i \in 1 .. 4 : b[CmdAt(p) + i] = UB4(p.bodyLen)[i]

LEMMA PacketTypes ==
  ASSUME NEW p \in TcpRec
  PROVE  /\ p.synSeq \in 0 .. MaxInt /\ p.bodyLen \in 0 .. MaxInt /\ p.cmd \in Commands
         /\ p.synSeq \in Nat /\ p.bodyLen \in Nat /\ p.cmd \in 0 .. 127
         /\ CmdAt(p) \in {3, 7}
<1>1. p.synSeq \in 0 .. MaxInt /\ p.bodyLen \in 0 .. MaxInt /\ p.cmd \in Commands
  BY DEF TcpRec
<1>2. p.synSeq \in Nat /\ p.bodyLen \in Nat
  BY <1>1, MaxIntNat
<1>. QED  BY <1>1, <1>2, TcpAssumption DEF CmdAt

LEMMA EncodeBytes ==
  ASSUME NEW p \in TcpRec
  PROVE  /\ Encode(p) \in Seq(0 .. 255)
         /\ Len(Encode(p)) = CmdAt(p) + 4 + p.bodyLen
         /\ Encodes(Encode(p), p)
<1>. DEFINE B == 0 .. 255
           h == <<VERSION, MaskByte(p.synSeq > 0)>>
           y == IF p.synSeq > 0 THEN UB4(p.synSeq) ELSE <<>>
           c == <<p.cmd>>
           l == UB4(p.bodyLen)
           z == [i \in 1 .. p.bodyLen |-> VERSION]
           hy == h \o y
           hyc == hy \o c
           hycl == hyc \o l
           e == hycl \o z
<1>1. Encode(p) = e
  BY DEF Encode
<1>2. h \in Seq(B) /\ Len(h) = 2 /\ h[1] = VERSION /\ h[2] = MaskByte(p.synSeq > 0)
  <2>. DEFINE q == p.synSeq > 0
  <2>1. q \in BOOLEAN
    BY PacketTypes, SMT
  <2>. HIDE DEF q
  <2>2. MaskByte(q) = 241 \/ MaskByte(q) = 81
    BY <2>1, MaskOf
  <2>3. MaskByte(q) \in B /\ VERSION \in B
    BY <2>2, SMT DEF VERSION
  <2>. HIDE DEF B
  <2>4. h \in Seq(B) /\ Len(h) = 2 /\ h[1] = VERSION /\ h[2] = MaskByte(q)
    BY <2>3 DEF q
  <2>. QED  BY <2>4 DEF q
<1>3. y \in Seq(B) /\ Len(y) = CmdAt(p) - 3 /\ (p.synSeq > 0 => y = UB4(p.synSeq))
  <2>1. CASE p.synSeq > 0
    <3>. DEFINE u == UB4(p.synSeq)
    <3>1. u \in Seq(B) /\ Len(u) = 4
      BY PacketTypes, UB4Bytes
    <3>2. y = u /\ CmdAt(p) = 7
      BY <2>1 DEF CmdAt
    <3>. HIDE DEF u, y, B
    <3>. QED  BY <2>1, <3>1, <3>2 DEF u
  <2>2. CASE ~(p.synSeq > 0)
    BY <2>2 DEF CmdAt
  <2>. QED  BY <2>1, <2>2
<1>4. c \in Seq(B) /\ Len(c) = 1 /\ c[1] = p.cmd
  <2>1. p.cmd \in B
    BY PacketTypes
  <2>. HIDE DEF B
  <2>. QED  BY <2>1
<1>5. l \in Seq(B) /\ Len(l) = 4
  BY PacketTypes, UB4Bytes
<1>6. z \in Seq(B) /\ Len(z) = p.bodyLen
  <2>1. p.bodyLen \in Nat /\ VERSION \in B
    BY PacketTypes DEF VERSION
  <2>. HIDE DEF B
  <2>. QED  BY <2>1
<1>. HIDE DEF B, h, y, c, l, z, e
<1>7. hy \in Seq(B) /\ Joined(hy, h, y)
  BY <1>2, <1>3, ConcatJoins
<1>. HIDE DEF hy
<1>8. hyc \in Seq(B) /\ Joined(hyc, hy, c)
  BY <1>4, <1>7, ConcatJoins
<1>. HIDE DEF hyc
<1>9. hycl \in Seq(B) /\ Joined(hycl, hyc, l)
  BY <1>5, <1>8, ConcatJoins
<1>. HIDE DEF hycl
<1>10. e \in Seq(B) /\ Joined(e, hycl, z)
  BY <1>6, <1>9, ConcatJoins DEF e
<1>11. CmdAt(p) \in {3, 7} /\ p.bodyLen \in Nat /\ (p.synSeq > 0 => CmdAt(p) = 7)
  BY PacketTypes DEF CmdAt
<1>12. Len(hy) = CmdAt(p) - 1 /\ hy[1] = h[1] /\ hy[2] = h[2] /\ \A i \in 1 .. Len(y) : hy[2 + i] = y[i]
  BY <1>2, <1>3, <1>7, <1>11, SMT DEF Joined
<1>13. /\ Len(hyc) = CmdAt(p) /\ \A i \in 1 .. CmdAt(p) - 1 : hyc[i] = hy[i]
       /\ hyc[CmdAt(p)] = c[1]
  <2>1. Len(hyc) = CmdAt(p) /\ \A i \in 1 .. CmdAt(p) - 1 : hyc[i] = hy[i]
    BY <1>4, <1>8, <1>11, <1>12, SMT DEF Joined
  <2>2. hyc[(CmdAt(p) - 1) + 1] = c[1]
    BY <1>4, <1>8, <1>12, SMT DEF Joined
  <2>3. (CmdAt(p) - 1) + 1 = CmdAt(p)
    BY <1>11
  <2>. QED  BY <2>1, <2>2, <2>3
<1>14. /\ Len(hycl) = CmdAt(p) + 4 /\ \A i \in 1 .. CmdAt(p) : hycl[i] = hyc[i]
       /\ \A i \in 1 .. 4 : hycl[CmdAt(p) + i] = l[i]
  BY <1>5, <1>9, <1>11, <1>13, SMT DEF Joined
<1>15. Len(e) = CmdAt(p) + 4 + p.bodyLen /\ \A i \in 1 .. CmdAt(p) + 4 : e[i] = hycl[i]
  BY <1>6, <1>10, <1>11, <1>14, SMT DEF Joined
<1>16. e[1] = VERSION /\ e[2] = MaskByte(p.synSeq > 0)
  BY <1>2, <1>11, <1>12, <1>13, <1>14, <1>15, SMT
<1>17. p.synSeq > 0 => \A i \in 1 .. 4 : e[2 + i] = UB4(p.synSeq)[i]
  <2>. SUFFICES ASSUME p.synSeq > 0, NEW i \in 1 .. 4 PROVE e[2 + i] = UB4(p.synSeq)[i]
    OBVIOUS
  <2>1. CmdAt(p) = 7 /\ Len(y) = 4 /\ y = UB4(p.synSeq)
    BY <1>3, <1>11
  <2>2. hy[2 + i] = y[i]
    BY <1>12, <2>1
  <2>3. 2 + i \in 1 .. 6
    OBVIOUS
  <2>4. hyc[2 + i] = hy[2 + i] /\ hycl[2 + i] = hyc[2 + i] /\ e[2 + i] = hycl[2 + i]
    BY <1>13, <1>14, <1>15, <2>1, <2>3
  <2>. QED  BY <2>1, <2>2, <2>4
<1>18. e[CmdAt(p)] = p.cmd
  BY <1>4, <1>11, <1>13, <1>14, <1>15, SMT
<1>19. \A i \in 1 .. 4 : e[CmdAt(p) + i] = UB4(p.bodyLen)[i]
  <2>. SUFFICES ASSUME NEW i \in 1 .. 4 PROVE e[CmdAt(p) + i] = UB4(p.bodyLen)[i]
    OBVIOUS
  <2>1. CmdAt(p) + i \in 1 .. CmdAt(p) + 4
    BY <1>11
  <2>2. e[CmdAt(p) + i] = hycl[CmdAt(p) + i]
    BY <1>15, <2>1
  <2>. QED  BY <1>14, <2>2 DEF l
<1>. QED  BY <1>1, <1>10, <1>15, <1>16, <1>17, <1>18, <1>19 DEF B, Encodes

\* What TcpServerDecoder makes of bytes that begin like a packet's: nothing
\* before it is whole, and then the packet.
LEMMA DecodeOfPrefix ==
  ASSUME NEW p \in TcpRec, NEW b \in Seq(0 .. 255),
         \A i \in 1 .. Len(Encode(p)) : i <= Len(b) => b[i] = Encode(p)[i]
  PROVE  /\ Len(b) < Len(Encode(p)) => TcpDecode(b) = Null
         /\ Len(b) >= Len(Encode(p)) => TcpDecode(b) = Packet(p, Len(Encode(p)))
<1>. DEFINE e == Encode(p)
           at == CmdAt(p)
           syn == DecodeHasSynSeq(b[2])
<1>1. Len(e) = at + 4 + p.bodyLen /\ Encodes(e, p) /\ e \in Seq(0 .. 255)
  BY EncodeBytes
<1>2. /\ at \in {3, 7} /\ p.bodyLen \in Nat /\ p.bodyLen \in 0 .. MaxInt
      /\ p.synSeq \in 0 .. MaxInt /\ p.synSeq \in Nat /\ p.cmd \in Commands
      /\ p.synSeq > 0 => at = 7
      /\ ~(p.synSeq > 0) => at = 3
  BY PacketTypes DEF CmdAt
<1>3. \A i \in 1 .. Len(e) : i <= Len(b) => b[i] = e[i]
  OBVIOUS
<1>4. Len(b) \in Nat
  OBVIOUS
<1>5. Len(b) >= 2 => (syn <=> p.synSeq > 0)
  <2>. SUFFICES ASSUME Len(b) >= 2 PROVE syn <=> p.synSeq > 0
    OBVIOUS
  <2>. DEFINE q == p.synSeq > 0
  <2>1. q \in BOOLEAN
    BY <1>2, SMT
  <2>2. b[2] = MaskByte(q)
    <3>1. 2 \in 1 .. Len(e)
      BY <1>1, <1>2
    <3>. QED  BY <1>1, <1>3, <3>1 DEF Encodes
  <2>. HIDE DEF q
  <2>3. CASE q
    <3>1. b[2] = 241
      BY <2>1, <2>2, <2>3, MaskOf
    <3>. QED  BY <2>3, <3>1, MaskBytes DEF q
  <2>4. CASE ~q
    <3>1. b[2] = 81
      BY <2>1, <2>2, <2>4, MaskOf
    <3>2. ~syn
      BY <3>1, MaskBytes
    <3>. QED  BY <2>4, <3>2 DEF q
  <2>. QED  BY <2>1, <2>3, <2>4
<1>. HIDE DEF e, at
<1>6. IsHeaderLength(b) <=> Len(b) >= at + 4
  <2>1. CASE Len(b) < 2
    BY <1>2, <1>4, <2>1, SMT DEF IsHeaderLength
  <2>2. CASE Len(b) >= 2
    <3>1. CASE p.synSeq > 0
      BY <1>2, <1>4, <1>5, <2>2, <3>1, SMT DEF IsHeaderLength
    <3>2. CASE ~(p.synSeq > 0)
      BY <1>2, <1>4, <1>5, <2>2, <3>2, SMT DEF IsHeaderLength
    <3>. QED  BY <3>1, <3>2
  <2>. QED  BY <1>4, <2>1, <2>2
<1>7. CASE Len(b) < at + 4
  <2>1. TcpDecode(b) = Null
    BY <1>2, <1>4, <1>6, <1>7 DEF TcpDecode
  <2>2. Len(b) < Len(e)
    BY <1>1, <1>2, <1>4, <1>7
  <2>. QED  BY <1>1, <1>4, <2>1, <2>2 DEF e
<1>8. CASE Len(b) >= at + 4
  <2>1. \A i \in 1 .. at + 4 : b[i] = e[i]
    BY <1>1, <1>2, <1>3, <1>4, <1>8
  <2>2. b[1] = VERSION /\ b[at] = p.cmd
    <3>1. 1 \in 1 .. at + 4 /\ at \in 1 .. at + 4
      BY <1>2
    <3>. QED  BY <1>1, <2>1, <3>1 DEF Encodes, at
  <2>3. FromUB4(SubSeq(b, at + 1, at + 4)) = p.bodyLen
    <3>1. \A i \in 1 .. 4 : b[at + i] = UB4(p.bodyLen)[i]
      <4>1. \A i \in 1 .. 4 : e[at + i] = UB4(p.bodyLen)[i]
        BY <1>1 DEF Encodes, at
      <4>2. \A i \in 1 .. 4 : at + i \in 1 .. at + 4
        BY <1>2
      <4>. QED  BY <2>1, <4>1, <4>2
    <3>. DEFINE s == SubSeq(b, at + 1, at + 4)
    <3>2. \A i \in 1 .. 4 : s[i] = b[at + i]
      BY <1>2, <1>4, <1>8, SMT
    <3>. HIDE DEF s
    <3>. DEFINE n == p.bodyLen
    <3>3. n \in 0 .. MaxInt /\ \A i \in 1 .. 4 : s[i] = UB4(n)[i]
      BY <1>2, <3>1, <3>2
    <3>. HIDE DEF n
    <3>4. FromUB4(s) = n
      BY <3>3, FromUB4Bytes
    <3>. QED  BY <3>4 DEF s, n
  <2>4. p.synSeq > 0 => FromUB4(SubSeq(b, 3, 6)) = p.synSeq
    <3>. SUFFICES ASSUME p.synSeq > 0 PROVE FromUB4(SubSeq(b, 3, 6)) = p.synSeq
      OBVIOUS
    <3>1. \A i \in 1 .. 4 : b[2 + i] = UB4(p.synSeq)[i]
      <4>1. \A i \in 1 .. 4 : e[2 + i] = UB4(p.synSeq)[i]
        BY <1>1 DEF Encodes
      <4>2. \A i \in 1 .. 4 : 2 + i \in 1 .. at + 4
        BY <1>2
      <4>. QED  BY <2>1, <4>1, <4>2
    <3>. DEFINE s == SubSeq(b, 3, 6)
    <3>2. Len(b) >= 6
      BY <1>2, <1>4, <1>8
    <3>3. \A i \in 1 .. 4 : s[i] = b[2 + i]
      BY <3>2, SMT
    <3>. HIDE DEF s
    <3>. DEFINE n == p.synSeq
    <3>4. n \in 0 .. MaxInt /\ \A i \in 1 .. 4 : s[i] = UB4(n)[i]
      BY <1>2, <3>1, <3>3
    <3>. HIDE DEF n
    <3>5. FromUB4(s) = n
      BY <3>4, FromUB4Bytes
    <3>. QED  BY <3>5 DEF s, n
  <2>5. (syn <=> p.synSeq > 0) /\ (IF syn THEN 7 ELSE 3) = at
    BY <1>2, <1>4, <1>5, <1>8
  <2>6. [synSeq |-> IF syn THEN FromUB4(SubSeq(b, 3, 6)) ELSE 0, cmd |-> b[at], bodyLen |-> p.bodyLen] = p
    <3>1. (IF syn THEN FromUB4(SubSeq(b, 3, 6)) ELSE 0) = p.synSeq
      BY <1>2, <2>4, <2>5
    <3>2. p = [synSeq |-> p.synSeq, cmd |-> p.cmd, bodyLen |-> p.bodyLen]
      BY DEF TcpRec
    <3>. QED  BY <2>2, <3>1, <3>2
  <2>7. TcpDecode(b) = IF Len(b) < at + 4 + p.bodyLen THEN Null ELSE Packet(p, at + 4 + p.bodyLen)
    <3>1. ~(b[1] # VERSION \/ Len(b) < at + 4)
      BY <1>2, <1>4, <1>8, <2>2
    <3>2. ~(b[at] \notin Commands \/ p.bodyLen < 0)
      BY <1>2, <2>2
    <3>. QED  BY <1>6, <1>8, <2>3, <2>5, <2>6, <3>1, <3>2 DEF TcpDecode
  <2>. QED  BY <1>1, <1>2, <1>4, <2>7 DEF e
<1>. QED  BY <1>2, <1>4, <1>7, <1>8
-----------------------------------------------------------------------------
(* TcpFraming: the stream.                                                  *)

\* f says where in s each packet of o after the first i ends.
Cut(f, s, o, i) ==
  /\ f \in [i .. Len(o) -> Nat] /\ f[i] = 0 /\ f[Len(o)] = Len(s)
  /\ \A k \in i .. Len(o), l \in i .. Len(o) : k <= l => f[k] <= f[l]
  /\ \A k \in i + 1 .. Len(o) : f[k] = f[k - 1] + Len(Encode(o[k]))
  /\ \A k \in i + 1 .. Len(o) : \A j \in 1 .. Len(Encode(o[k])) : s[f[k - 1] + j] = Encode(o[k])[j]

LEMMA EncodeLen == \A p \in TcpRec : Len(Encode(p)) \in Nat
BY EncodeBytes

LEMMA CutSend ==
  ASSUME NEW S, NEW s \in Seq(S), NEW o \in Seq(TcpRec), NEW i \in 0 .. Len(o), NEW f, Cut(f, s, o, i),
         NEW p \in TcpRec, NEW w, Joined(w, s, Encode(p)), NEW q, q = Append(o, p)
  PROVE  \E g : Cut(g, w, q, i)
<1>. DEFINE n == Len(o)
           g == [k \in i .. n + 1 |-> IF k = n + 1 THEN Len(w) ELSE f[k]]
<1>1. n \in Nat /\ i \in Nat /\ i <= n /\ Len(s) \in Nat
  OBVIOUS
<1>2. Len(q) = n + 1 /\ q[n + 1] = p /\ \A k \in 1 .. n : q[k] = o[k]
  BY AppendProperties
<1>3. Len(w) = Len(s) + Len(Encode(p)) /\ Len(w) \in Nat /\ Len(Encode(p)) \in Nat
  BY <1>1, EncodeLen DEF Joined
<1>4. /\ \A k \in 1 .. Len(s) : w[k] = s[k]
      /\ \A k \in 1 .. Len(Encode(p)) : w[Len(s) + k] = Encode(p)[k]
  BY DEF Joined
<1>5. /\ f \in [i .. n -> Nat] /\ f[i] = 0 /\ f[n] = Len(s)
      /\ \A k \in i .. n, l \in i .. n : k <= l => f[k] <= f[l]
      /\ \A k \in i + 1 .. n : f[k] = f[k - 1] + Len(Encode(o[k]))
      /\ \A k \in i + 1 .. n : \A j \in 1 .. Len(Encode(o[k])) : s[f[k - 1] + j] = Encode(o[k])[j]
  BY DEF Cut
<1>6. \A k \in i .. n : f[k] \in Nat /\ f[k] <= Len(s)
  <2>. SUFFICES ASSUME NEW k \in i .. n PROVE f[k] \in Nat /\ f[k] <= Len(s)
    OBVIOUS
  <2>1. n \in i .. n /\ k <= n
    BY <1>1
  <2>2. f[k] <= f[n]
    BY <1>5, <2>1
  <2>. QED  BY <1>5, <2>2
<1>7. g[n + 1] = Len(w) /\ \A k \in i .. n : g[k] = f[k]
  BY <1>1
<1>8. g \in [i .. n + 1 -> Nat] /\ g[i] = 0
  BY <1>1, <1>3, <1>5, <1>6
<1>. HIDE DEF g, n
<1>9. \A k \in i .. n + 1, l \in i .. n + 1 : k <= l => g[k] <= g[l]
  <2>. SUFFICES ASSUME NEW k \in i .. n + 1, NEW l \in i .. n + 1, k <= l PROVE g[k] <= g[l]
    OBVIOUS
  <2>1. CASE l = n + 1 /\ k = n + 1
    BY <1>3, <1>7, <2>1
  <2>2. CASE l = n + 1 /\ k # n + 1
    <3>1. k \in i .. n
      BY <1>1, <2>2
    <3>. QED  BY <1>1, <1>3, <1>6, <1>7, <2>2, <3>1
  <2>3. CASE l # n + 1
    <3>1. k \in i .. n /\ l \in i .. n
      BY <1>1, <2>3
    <3>. QED  BY <1>5, <1>7, <3>1
  <2>. QED  BY <2>1, <2>2, <2>3
<1>10. ASSUME NEW k \in i + 1 .. n + 1
       PROVE  /\ g[k] = g[k - 1] + Len(Encode(q[k]))
              /\ \A j \in 1 .. Len(Encode(q[k])) : w[g[k - 1] + j] = Encode(q[k])[j]
  <2>1. CASE k = n + 1
    <3>1. k - 1 = n /\ n \in i .. n /\ q[k] = p
      BY <1>1, <1>2, <2>1
    <3>2. g[k - 1] = Len(s) /\ g[k] = Len(w)
      BY <1>5, <1>7, <2>1, <3>1
    <3>. QED  BY <1>3, <1>4, <3>1, <3>2
  <2>2. CASE k # n + 1
    <3>1. k \in i + 1 .. n /\ k \in i .. n /\ k - 1 \in i .. n /\ k \in 1 .. n
      BY <1>1, <2>2
    <3>2. g[k] = f[k] /\ g[k - 1] = f[k - 1] /\ q[k] = o[k] /\ o[k] \in TcpRec
      BY <1>2, <1>7, <3>1 DEF n
    <3>3. f[k] = f[k - 1] + Len(Encode(o[k])) /\ f[k] <= Len(s) /\ f[k - 1] \in Nat /\ Len(Encode(o[k])) \in Nat
      BY <1>5, <1>6, <3>1, <3>2, EncodeLen
    <3>4. \A j \in 1 .. Len(Encode(o[k])) : w[f[k - 1] + j] = Encode(o[k])[j]
      <4>. SUFFICES ASSUME NEW j \in 1 .. Len(Encode(o[k])) PROVE w[f[k - 1] + j] = Encode(o[k])[j]
        OBVIOUS
      <4>1. f[k - 1] + j \in 1 .. Len(s)
        BY <1>1, <3>3
      <4>2. s[f[k - 1] + j] = Encode(o[k])[j]
        BY <1>5, <3>1
      <4>. QED  BY <1>4, <4>1, <4>2
    <3>. QED  BY <3>2, <3>3, <3>4
  <2>. QED  BY <2>1, <2>2
<1>11. Cut(g, w, q, i)
  BY <1>2, <1>7, <1>8, <1>9, <1>10 DEF Cut
<1>. QED  BY <1>11

LEMMA ShiftFits ==
  ASSUME NEW a \in Nat, NEW c \in Nat, NEW d \in Nat, a + c <= d, NEW j \in 1 .. c
  PROVE  a + j \in 1 .. d
OBVIOUS

LEMMA CutTake ==
  ASSUME NEW S, NEW s \in Seq(S), NEW o \in Seq(TcpRec), NEW i \in Nat, i < Len(o), NEW f, Cut(f, s, o, i),
         NEW e, e = Encode(o[i + 1])
  PROVE  /\ Len(e) \in Nat /\ Len(e) <= Len(s)
         /\ \A j \in 1 .. Len(e) : s[j] = e[j]
         /\ \E g : Cut(g, SubSeq(s, Len(e) + 1, Len(s)), o, i + 1)
<1>. DEFINE n == Len(o)
           t == SubSeq(s, Len(e) + 1, Len(s))
           g == [k \in i + 1 .. n |-> f[k] - Len(e)]
<1>1. n \in Nat /\ i + 1 \in 1 .. n /\ Len(s) \in Nat
  OBVIOUS
<1>2. \A k \in 1 .. n : o[k] \in TcpRec /\ Len(Encode(o[k])) \in Nat
  BY EncodeLen
<1>3. Len(e) \in Nat
  BY <1>1, <1>2
<1>4. /\ f \in [i .. n -> Nat] /\ f[i] = 0 /\ f[n] = Len(s)
      /\ \A k \in i .. n, l \in i .. n : k <= l => f[k] <= f[l]
      /\ \A k \in i + 1 .. n : f[k] = f[k - 1] + Len(Encode(o[k]))
      /\ \A k \in i + 1 .. n : \A j \in 1 .. Len(Encode(o[k])) : s[f[k - 1] + j] = Encode(o[k])[j]
  BY DEF Cut
<1>. HIDE DEF n
<1>5. i \in i .. n /\ i + 1 \in i .. n /\ i + 1 \in i + 1 .. n /\ n \in i .. n /\ n \in i + 1 .. n /\ (i + 1) - 1 = i
  BY <1>1
<1>6. f[i + 1] = Len(e)
  <2>1. f[i + 1] = f[(i + 1) - 1] + Len(Encode(o[i + 1]))
    BY <1>4, <1>5
  <2>. QED  BY <1>3, <1>4, <1>5, <2>1
<1>7. Len(e) <= Len(s)
  <2>1. f[i + 1] <= f[n]
    BY <1>1, <1>4, <1>5
  <2>. QED  BY <1>4, <1>6, <2>1
<1>8. \A j \in 1 .. Len(e) : s[j] = e[j]
  <2>. SUFFICES ASSUME NEW j \in 1 .. Len(e) PROVE s[j] = e[j]
    OBVIOUS
  <2>1. s[f[(i + 1) - 1] + j] = e[j]
    BY <1>4, <1>5
  <2>2. f[(i + 1) - 1] + j = j
    BY <1>4, <1>5
  <2>. QED  BY <2>1, <2>2
<1>9. Len(t) = Len(s) - Len(e) /\ \A j \in 1 .. Len(s) - Len(e) : t[j] = s[Len(e) + j]
  <2>. DEFINE a == Len(e)
  <2>1. a \in 0 .. Len(s)
    BY <1>1, <1>3, <1>7
  <2>. HIDE DEF a
  <2>2. /\ Len(SubSeq(s, a + 1, Len(s))) = Len(s) - a
        /\ \A j \in 1 .. Len(s) - a : SubSeq(s, a + 1, Len(s))[j] = s[a + j]
    BY <2>1, RestParts
  <2>. QED  BY <2>2 DEF a
<1>10. \A k \in i + 1 .. n : g[k] = f[k] - Len(e)
  OBVIOUS
<1>11. \A k \in i + 1 .. n : f[k] \in Nat /\ f[k] >= Len(e) /\ f[k] <= Len(s)
  <2>. SUFFICES ASSUME NEW k \in i + 1 .. n PROVE f[k] \in Nat /\ f[k] >= Len(e) /\ f[k] <= Len(s)
    OBVIOUS
  <2>1. k \in i .. n /\ i + 1 <= k /\ k <= n
    BY <1>1
  <2>2. f[i + 1] <= f[k] /\ f[k] <= f[n]
    BY <1>4, <1>5, <2>1
  <2>. QED  BY <1>3, <1>4, <1>6, <2>1, <2>2
<1>12. g \in [i + 1 .. n -> Nat] /\ g[i + 1] = 0 /\ g[n] = Len(t)
  <2>1. g[i + 1] = 0
    BY <1>3, <1>5, <1>6, <1>10
  <2>2. g[n] = Len(s) - Len(e)
    BY <1>4, <1>5, <1>10
  <2>3. g[n] = Len(t)
    BY <1>9, <2>2
  <2>. QED  BY <1>3, <1>11, <2>1, <2>3
<1>. HIDE DEF g, t
<1>13. \A k \in i + 1 .. n, l \in i + 1 .. n : k <= l => g[k] <= g[l]
  <2>. SUFFICES ASSUME NEW k \in i + 1 .. n, NEW l \in i + 1 .. n, k <= l PROVE g[k] <= g[l]
    OBVIOUS
  <2>1. k \in i .. n /\ l \in i .. n
    BY <1>1
  <2>2. f[k] <= f[l]
    BY <1>4, <2>1
  <2>. QED  BY <1>3, <1>10, <1>11, <2>2
<1>14. ASSUME NEW k \in (i + 1) + 1 .. n
       PROVE  /\ g[k] = g[k - 1] + Len(Encode(o[k]))
              /\ \A j \in 1 .. Len(Encode(o[k])) : t[g[k - 1] + j] = Encode(o[k])[j]
  <2>1. k \in i + 1 .. n /\ k - 1 \in i + 1 .. n /\ k \in 1 .. n
    BY <1>1
  <2>2. /\ f[k] = f[k - 1] + Len(Encode(o[k])) /\ Len(Encode(o[k])) \in Nat
        /\ g[k] = f[k] - Len(e) /\ g[k - 1] = f[k - 1] - Len(e)
        /\ f[k] \in Nat /\ f[k - 1] \in Nat /\ f[k - 1] >= Len(e) /\ f[k] <= Len(s)
    BY <1>2, <1>4, <1>10, <1>11, <2>1
  <2>3. ASSUME NEW j \in 1 .. Len(Encode(o[k])) PROVE t[g[k - 1] + j] = Encode(o[k])[j]
    <3>1. g[k - 1] + j \in 1 .. Len(s) - Len(e) /\ Len(e) + (g[k - 1] + j) = f[k - 1] + j
      <4>1. g[k - 1] \in Nat /\ g[k - 1] + Len(Encode(o[k])) <= Len(s) - Len(e)
        BY <1>1, <1>3, <2>2
      <4>2. Len(s) - Len(e) \in Nat
        BY <1>1, <1>3, <1>7
      <4>3. g[k - 1] + j \in 1 .. Len(s) - Len(e)
        BY <2>2, <4>1, <4>2, ShiftFits
      <4>4. Len(e) + ((f[k - 1] - Len(e)) + j) = f[k - 1] + j
        BY <1>3, <2>2
      <4>. QED  BY <2>2, <4>3, <4>4
    <3>2. t[g[k - 1] + j] = s[Len(e) + (g[k - 1] + j)]
      BY <1>9, <3>1
    <3>3. s[f[k - 1] + j] = Encode(o[k])[j]
      BY <1>4, <2>1
    <3>. QED  BY <3>1, <3>2, <3>3
  <2>. QED  BY <1>3, <2>2, <2>3
<1>15. Cut(g, t, o, i + 1)
  BY <1>12, <1>13, <1>14 DEF Cut, n
<1>. QED  BY <1>3, <1>7, <1>8, <1>15 DEF t
-----------------------------------------------------------------------------
(* TcpFraming: types and the stream's invariant.                            *)

TcpInv ==
  /\ ~refused
  /\ Len(in) <= Len(out)
  /\ \A k \in 1 .. Len(in) : in[k] = out[k]
  /\ \E f : Cut(f, buffer \o wire, out, Len(in))

LEMMA ByteSeqs ==
  ASSUME TcpTypeOK
  PROVE  /\ out \in Seq(TcpRec) /\ in \in Seq(TcpRec) /\ Len(in) \in Nat /\ Len(out) \in Nat
         /\ buffer \in Seq(0 .. 255) /\ wire \in Seq(0 .. 255) /\ buffer \o wire \in Seq(0 .. 255)
<1>1. buffer \in Seq(0 .. 255) /\ wire \in Seq(0 .. 255)
  BY DEF TcpTypeOK
<1>2. buffer \o wire \in Seq(0 .. 255)
  <2>. DEFINE B == 0 .. 255
  <2>1. buffer \in Seq(B) /\ wire \in Seq(B)
    BY <1>1
  <2>. HIDE DEF B
  <2>2. buffer \o wire \in Seq(B)
    BY <2>1
  <2>. QED  BY <2>2 DEF B
<1>3. out \in Seq(TcpRec) /\ in \in Seq(TcpRec)
  BY TcpAssumption DEF TcpTypeOK
<1>. QED  BY <1>1, <1>2, <1>3

LEMMA SendKeepsTcp ==
  ASSUME TcpTypeOK, TcpInv, NEW p \in TcpPackets, Send(p)
  PROVE  TcpTypeOK' /\ TcpInv'
<1>. DEFINE B == 0 .. 255
           e == Encode(p)
           s == buffer \o wire
           w == s \o e
           q == Append(out, p)
<1>1. p \in TcpRec
  BY TcpAssumption
<1>2. e \in Seq(B)
  BY <1>1, EncodeBytes
<1>3. buffer \in Seq(B) /\ wire \in Seq(B) /\ s \in Seq(B) /\ out \in Seq(TcpRec) /\ Len(in) \in Nat /\ Len(out) \in Nat
  BY ByteSeqs
<1>4. out' = q /\ wire' = wire \o e /\ UNCHANGED <<buffer, in, refused>> /\ Len(out) < MaxSent
  BY DEF Send
<1>. HIDE DEF B, e
<1>5. buffer \o (wire \o e) = w
  <2>1. buffer \in Seq(B) /\ wire \in Seq(B) /\ e \in Seq(B)
    BY <1>2, <1>3
  <2>2. (buffer \o wire) \o e = buffer \o (wire \o e)
    BY <2>1, ConcatAssociative
  <2>. QED  BY <2>2
<1>6. wire \o e \in Seq(B)
  BY <1>2, <1>3
<1>7. TcpTypeOK'
  <2>1. q \in Seq(TcpPackets) /\ Len(q) = Len(out) + 1
    BY <1>3 DEF TcpTypeOK
  <2>2. Len(q) <= MaxSent
    BY <1>3, <1>4, <2>1, TcpAssumption
  <2>. QED  BY <1>4, <1>6, <2>1, <2>2 DEF TcpTypeOK, B
<1>. HIDE DEF s
<1>8. Joined(w, s, e)
  BY <1>2, <1>3, ConcatJoins
<1>9. PICK f : Cut(f, s, out, Len(in))
  BY DEF TcpInv, s
<1>10. Len(in) \in 0 .. Len(out)
  BY <1>3 DEF TcpInv
<1>. HIDE DEF w, q
<1>11. \E g : Cut(g, w, q, Len(in))
  BY <1>1, <1>3, <1>8, <1>9, <1>10, CutSend DEF q, e
<1>12. Len(q) = Len(out) + 1 /\ \A k \in 1 .. Len(out) : q[k] = out[k]
  BY <1>1, <1>3 DEF q
<1>13. Len(in) <= Len(q) /\ \A k \in 1 .. Len(in) : in[k] = q[k]
  BY <1>3, <1>10, <1>12 DEF TcpInv
<1>14. (buffer \o wire)' = w
  BY <1>4, <1>5
<1>15. TcpInv'
  BY <1>4, <1>11, <1>13, <1>14 DEF TcpInv
<1>. QED  BY <1>7, <1>15

LEMMA ArriveKeepsTcp ==
  ASSUME TcpTypeOK, TcpInv, NEW n \in DOMAIN wire, Arrive(n)
  PROVE  TcpTypeOK' /\ TcpInv'
<1>. DEFINE B == 0 .. 255
           a == SubSeq(wire, 1, n)
           z == SubSeq(wire, n + 1, Len(wire))
<1>1. buffer \in Seq(B) /\ wire \in Seq(B)
  BY ByteSeqs
<1>. HIDE DEF B
<1>2. Len(wire) \in Nat /\ n \in 1 .. Len(wire)
  BY <1>1
<1>3. a \in Seq(B) /\ z \in Seq(B)
  BY <1>1, <1>2
<1>4. a \o z = wire
  <2>1. 1 \in 1 .. Len(wire) + 1 /\ n \in 1 - 1 .. Len(wire) /\ Len(wire) \in n .. Len(wire)
    BY <1>2
  <2>2. a \o z = SubSeq(wire, 1, Len(wire))
    BY <1>1, <2>1, ConcatAdjacentSubSeq
  <2>3. SubSeq(wire, 1, Len(wire)) = wire
    BY <1>1, SubSeqFull
  <2>. QED  BY <2>2, <2>3
<1>5. buffer' = buffer \o a /\ wire' = z /\ UNCHANGED <<out, in, refused>>
  BY DEF Arrive
<1>. HIDE DEF a, z
<1>6. (buffer \o a) \o z = buffer \o (a \o z)
  BY <1>1, <1>3, ConcatAssociative
<1>7. (buffer \o wire)' = buffer \o wire
  BY <1>4, <1>5, <1>6
<1>8. TcpTypeOK'
  <2>1. buffer' \in Seq(B) /\ wire' \in Seq(B)
    BY <1>1, <1>3, <1>5
  <2>. QED  BY <1>5, <2>1 DEF TcpTypeOK, B
<1>9. TcpInv'
  BY <1>5, <1>7 DEF TcpInv
<1>. QED  BY <1>8, <1>9

\* What has arrived begins like the next packet that was sent.
LEMMA NextPacket ==
  ASSUME TcpTypeOK, TcpInv, Len(in) < Len(out)
  PROVE  LET p == out[Len(in) + 1]  e == Encode(p) IN
         /\ p \in TcpRec
         /\ Len(e) \in Nat /\ Len(e) <= Len(buffer \o wire)
         /\ Len(buffer) < Len(e) => TcpDecode(buffer) = Null
         /\ Len(buffer) >= Len(e) => TcpDecode(buffer) = Packet(p, Len(e))
         /\ \E g : Cut(g, SubSeq(buffer \o wire, Len(e) + 1, Len(buffer \o wire)), out, Len(in) + 1)
<1>. DEFINE B == 0 .. 255
           p == out[Len(in) + 1]
           e == Encode(p)
           s == buffer \o wire
<1>1. buffer \in Seq(B) /\ wire \in Seq(B) /\ s \in Seq(B) /\ out \in Seq(TcpRec) /\ Len(in) \in Nat /\ Len(out) \in Nat
  BY ByteSeqs
<1>. HIDE DEF B
<1>2. p \in TcpRec
  BY <1>1
<1>3. PICK f : Cut(f, s, out, Len(in))
  BY DEF TcpInv
<1>4. Joined(s, buffer, wire)
  BY <1>1, ConcatJoins
<1>. HIDE DEF s
<1>5. /\ Len(e) \in Nat /\ Len(e) <= Len(s)
      /\ \A j \in 1 .. Len(e) : s[j] = e[j]
      /\ \E g : Cut(g, SubSeq(s, Len(e) + 1, Len(s)), out, Len(in) + 1)
  BY <1>1, <1>3, CutTake
<1>6. \A j \in 1 .. Len(e) : j <= Len(buffer) => buffer[j] = e[j]
  <2>1. \A j \in 1 .. Len(buffer) : s[j] = buffer[j]
    BY <1>4 DEF Joined
  <2>. HIDE DEF e
  <2>. QED  BY <1>1, <1>5, <2>1
<1>7. /\ Len(buffer) < Len(e) => TcpDecode(buffer) = Null
      /\ Len(buffer) >= Len(e) => TcpDecode(buffer) = Packet(p, Len(e))
  <2>1. buffer \in Seq(0 .. 255)
    BY <1>1 DEF B
  <2>. HIDE DEF p
  <2>. QED  BY <1>2, <1>6, <2>1, DecodeOfPrefix
<1>. QED  BY <1>2, <1>5, <1>7 DEF s

\* With no packet on its way there is nothing to decode.
LEMMA NothingLeft ==
  ASSUME TcpTypeOK, TcpInv, Len(in) = Len(out)
  PROVE  TcpDecode(buffer) = Null
<1>1. buffer \in Seq(0 .. 255) /\ wire \in Seq(0 .. 255) /\ Len(in) \in Nat
  BY ByteSeqs
<1>2. PICK f : Cut(f, buffer \o wire, out, Len(in))
  BY DEF TcpInv
<1>3. Len(buffer \o wire) = 0
  BY <1>2 DEF Cut
<1>4. Len(buffer) = 0
  <2>. DEFINE B == 0 .. 255
  <2>1. buffer \in Seq(B) /\ wire \in Seq(B)
    BY <1>1
  <2>. HIDE DEF B
  <2>2. Len(buffer \o wire) = Len(buffer) + Len(wire) /\ Len(buffer) \in Nat /\ Len(wire) \in Nat
    BY <2>1, ConcatProperties
  <2>. QED  BY <1>3, <2>2
<1>. QED  BY <1>4 DEF TcpDecode, IsHeaderLength

LEMMA DecodeKeepsTcp ==
  ASSUME TcpTypeOK, TcpInv, DecodeNext
  PROVE  TcpTypeOK' /\ TcpInv'
<1>. DEFINE B == 0 .. 255
           p == out[Len(in) + 1]
           e == Encode(p)
           s == buffer \o wire
<1>1. buffer \in Seq(B) /\ wire \in Seq(B) /\ s \in Seq(B) /\ in \in Seq(TcpRec) /\ Len(in) \in Nat /\ Len(out) \in Nat
  BY ByteSeqs
<1>2. TcpDecode(buffer).kind # "null" /\ TcpDecode(buffer) # Null
  BY DEF DecodeNext, Null
<1>3. Len(in) < Len(out)
  BY <1>1, <1>2, NothingLeft DEF TcpInv
<1>4. /\ p \in TcpRec /\ Len(e) \in Nat /\ Len(buffer) >= Len(e)
      /\ TcpDecode(buffer) = Packet(p, Len(e))
      /\ \E g : Cut(g, SubSeq(s, Len(e) + 1, Len(s)), out, Len(in) + 1)
  <2>. HIDE DEF p
  <2>1. Len(buffer) \in Nat
    BY <1>1
  <2>. QED  BY <1>2, <1>3, <2>1, NextPacket DEF p
<1>5. /\ in' = Append(in, p) /\ buffer' = SubSeq(buffer, Len(e) + 1, Len(buffer))
      /\ UNCHANGED <<refused, out, wire>>
  <2>. HIDE DEF p, e
  <2>1. Packet(p, Len(e)).kind = "packet" /\ Packet(p, Len(e)).packet = p /\ Packet(p, Len(e)).taken = Len(e)
    BY DEF Packet
  <2>. QED  BY <1>4, <2>1 DEF DecodeNext
<1>. HIDE DEF B
<1>6. TcpTypeOK'
  <2>1. buffer' \in Seq(B)
    BY <1>1, <1>4, <1>5, RestInSeq
  <2>2. in' \in Seq(TcpRec)
    BY <1>1, <1>4, <1>5
  <2>. QED  BY <1>5, <2>1, <2>2 DEF TcpTypeOK, B
<1>7. (buffer \o wire)' = SubSeq(s, Len(e) + 1, Len(s))
  <2>. DEFINE a == Len(e)
  <2>1. a \in 0 .. Len(buffer)
    BY <1>1, <1>4
  <2>. HIDE DEF a
  <2>2. SubSeq(buffer, a + 1, Len(buffer)) \o wire = SubSeq(buffer \o wire, a + 1, Len(buffer \o wire))
    BY <1>1, <2>1, RestOfConcat
  <2>. QED  BY <1>5, <2>2 DEF a
<1>. HIDE DEF e, s
<1>8. /\ Len(in') = Len(in) + 1 /\ in'[Len(in) + 1] = p
      /\ \A k \in 1 .. Len(in) : in'[k] = in[k]
  <2>. HIDE DEF p
  <2>. QED  BY <1>1, <1>4, <1>5
<1>9. \A k \in 1 .. Len(in') : in'[k] = out'[k]
  <2>. SUFFICES ASSUME NEW k \in 1 .. Len(in') PROVE in'[k] = out'[k]
    OBVIOUS
  <2>1. CASE k \in 1 .. Len(in)
    BY <1>5, <1>8, <2>1 DEF TcpInv
  <2>2. CASE k = Len(in) + 1
    BY <1>5, <1>8, <2>2
  <2>. QED  BY <1>1, <1>8, <2>1, <2>2
<1>10. ~refused' /\ Len(in') <= Len(out')
  BY <1>1, <1>3, <1>5, <1>8 DEF TcpInv
<1>11. \E g : Cut(g, (buffer \o wire)', out', Len(in'))
  BY <1>4, <1>5, <1>7, <1>8
<1>12. TcpInv'
  BY <1>9, <1>10, <1>11 DEF TcpInv
<1>. QED  BY <1>6, <1>12

LEMMA TcpInductive == TcpSpec => [](TcpTypeOK /\ TcpInv)
<1>1. TcpInit => TcpTypeOK /\ TcpInv
  <2>. SUFFICES ASSUME TcpInit PROVE TcpTypeOK /\ TcpInv
    OBVIOUS
  <2>1. out = <<>> /\ wire = <<>> /\ buffer = <<>> /\ in = <<>> /\ ~refused
    BY DEF TcpInit
  <2>2. TcpTypeOK
    <3>. DEFINE B == 0 .. 255
    <3>. HIDE DEF B
    <3>1. <<>> \in Seq(B) /\ <<>> \in Seq(TcpPackets) /\ <<>> \in Seq(TcpRec) /\ Len(<<>>) = 0
      OBVIOUS
    <3>2. out \in Seq(TcpPackets) /\ Len(out) <= MaxSent /\ in \in Seq(TcpRec) /\ refused \in BOOLEAN
      <4>1. MaxSent \in Nat /\ Len(out) = 0
        BY <2>1, TcpAssumption
      <4>2. out \in Seq(TcpPackets) /\ in \in Seq(TcpRec)
        BY <2>1, <3>1
      <4>3. refused \in BOOLEAN
        BY DEF TcpInit
      <4>. QED  BY <4>1, <4>2, <4>3
    <3>3. wire \in Seq(B) /\ buffer \in Seq(B)
      BY <2>1, <3>1
    <3>. QED  BY <3>2, <3>3 DEF TcpTypeOK, B
  <2>3. \E f : Cut(f, buffer \o wire, out, Len(in))
    <3>. DEFINE f == [k \in 0 .. 0 |-> 0]
    <3>1. Len(in) = 0 /\ Len(out) = 0
      BY <2>1
    <3>2. Len(buffer \o wire) = 0
      BY <2>1
    <3>3. Cut(f, buffer \o wire, out, Len(in))
      BY <3>1, <3>2 DEF Cut
    <3>. QED  BY <3>3
  <2>. QED  BY <2>1, <2>2, <2>3 DEF TcpInv
<1>2. TcpTypeOK /\ TcpInv /\ [TcpNext]_tcpVars => (TcpTypeOK /\ TcpInv)'
  <2>. SUFFICES ASSUME TcpTypeOK, TcpInv, [TcpNext]_tcpVars PROVE TcpTypeOK' /\ TcpInv'
    OBVIOUS
  <2>1. CASE TcpNext
    BY <2>1, SendKeepsTcp, ArriveKeepsTcp, DecodeKeepsTcp DEF TcpNext
  <2>2. CASE UNCHANGED tcpVars
    BY <2>2 DEF tcpVars, TcpTypeOK, TcpInv
  <2>. QED  BY <2>1, <2>2
<1>. QED  BY <1>1, <1>2, PTL DEF TcpSpec

(* What is on the wire and in the buffer is bytes, what is decoded packets. *)
THEOREM TcpTypes == TcpSpec => []TcpTypeOK
BY TcpInductive, PTL

(* Whatever packets are sent and however the stream is cut, TcpServerDecoder *)
(* gets from it the packets TcpServerEncoder wrote, in order, and refuses    *)
(* none; with nothing on its way, all of them.                               *)
THEOREM TcpStreamIsPackets == TcpSpec => []StreamIsPackets
<1>1. TcpTypeOK /\ TcpInv => StreamIsPackets
  <2>. SUFFICES ASSUME TcpTypeOK, TcpInv PROVE StreamIsPackets
    OBVIOUS
  <2>1. /\ out \in Seq(TcpRec) /\ in \in Seq(TcpRec) /\ Len(in) \in Nat /\ Len(out) \in Nat
        /\ Len(in) <= Len(out) /\ buffer \in Seq(0 .. 255)
    BY ByteSeqs DEF TcpInv
  <2>2. in = SubSeq(out, 1, Len(in))
    <3>. DEFINE n == Len(in)
               t == SubSeq(out, 1, n)
    <3>1. n \in 0 .. Len(out)
      BY <2>1
    <3>2. \A k \in 1 .. n : in[k] = out[k]
      BY DEF TcpInv
    <3>. HIDE DEF n
    <3>3. t \in Seq(TcpRec) /\ Len(t) = n /\ \A k \in 1 .. n : t[k] = out[k]
      BY <2>1, <3>1, PrefixParts
    <3>. HIDE DEF t
    <3>4. in = t
      BY <2>1, <3>2, <3>3, SeqEqual DEF n
    <3>. QED  BY <3>4 DEF t, n
  <2>3. ASSUME wire = <<>>, TcpDecode(buffer) = Null PROVE in = out
    <3>1. CASE Len(in) = Len(out)
      BY <2>1, <2>2, <3>1, SubSeqFull
    <3>2. CASE Len(in) < Len(out)
      <4>. DEFINE p == out[Len(in) + 1]
                 e == Encode(p)
      <4>1. /\ Len(e) <= Len(buffer \o wire)
            /\ Len(buffer) >= Len(e) => TcpDecode(buffer) = Packet(p, Len(e))
        BY <3>2, NextPacket
      <4>2. Len(buffer \o wire) = Len(buffer)
        BY <2>1, <2>3
      <4>. HIDE DEF e, p
      <4>3. Packet(p, Len(e)) # Null
        BY DEF Packet, Null
      <4>. QED  BY <2>3, <4>1, <4>2, <4>3
    <3>. QED  BY <2>1, <3>1, <3>2
  <2>. QED  BY <2>2, <2>3 DEF StreamIsPackets, TcpInv
<1>. QED  BY <1>1, TcpInductive, PTL
-----------------------------------------------------------------------------
(* ProtocolChoice: what the client sends first.                             *)

Tokens == {"request", "nl", "host", "key", "version", "rest", "frame"}

LEMMA TokensAre ==
  /\ "request" \in Tokens /\ "nl" \in Tokens /\ "host" \in Tokens /\ "key" \in Tokens
  /\ "version" \in Tokens /\ "rest" \in Tokens /\ "frame" \in Tokens
BY DEF Tokens

LEMMA RequestTokens ==
  /\ RequestText \in Seq(Tokens) /\ Len(RequestText) = 4
  /\ RequestText[1] = "request" /\ RequestText[2] = "nl"
  /\ RequestText[3] = "host" /\ RequestText[4] = "nl"
<1>. DEFINE a == <<"request", "nl">>
           b == <<"host", "nl">>
<1>1. a \in Seq(Tokens) /\ Len(a) = 2 /\ a[1] = "request" /\ a[2] = "nl"
  BY TokensAre
<1>2. b \in Seq(Tokens) /\ Len(b) = 2 /\ b[1] = "host" /\ b[2] = "nl"
  BY TokensAre
<1>3. RequestText = a \o b
  BY DEF RequestText, Line
<1>. HIDE DEF a, b
<1>4. a \o b \in Seq(Tokens) /\ Joined(a \o b, a, b)
  BY <1>1, <1>2, ConcatJoins
<1>5. RequestText \in Seq(Tokens) /\ Joined(RequestText, a, b)
  BY <1>3, <1>4
<1>6. Len(RequestText) = 4
  BY <1>1, <1>2, <1>5 DEF Joined
<1>7. RequestText[1] = a[1] /\ RequestText[2] = a[2]
  BY <1>1, <1>5 DEF Joined
<1>8. RequestText[2 + 1] = b[1] /\ RequestText[2 + 2] = b[2]
  BY <1>1, <1>2, <1>5 DEF Joined
<1>. QED  BY <1>1, <1>2, <1>5, <1>6, <1>7, <1>8

LEMMA TcpTokens ==
  /\ Opening["tcp"] \in Seq(Tokens) /\ Len(Opening["tcp"]) = 2
  /\ Opening["tcp"][1] = "version" /\ Opening["tcp"][2] = "rest"
<1>1. Opening["tcp"] = <<"version", "rest">>
  BY DEF Opening
<1>. QED  BY <1>1, TokensAre

LEMMA HttpTokens ==
  LET o == Opening["http"] IN
  /\ o \in Seq(Tokens) /\ Len(o) = 5
  /\ o[1] = "request" /\ o[2] = "nl" /\ o[3] = "host" /\ o[4] = "nl" /\ o[5] = "nl"
<1>. DEFINE r == RequestText
           n == <<"nl">>
           o == r \o n
<1>1. Opening["http"] = o
  BY DEF Opening
<1>2. r \in Seq(Tokens) /\ Len(r) = 4 /\ r[1] = "request" /\ r[2] = "nl" /\ r[3] = "host" /\ r[4] = "nl"
  BY RequestTokens
<1>3. n \in Seq(Tokens) /\ Len(n) = 1 /\ n[1] = "nl"
  BY TokensAre
<1>. HIDE DEF r, n
<1>4. o \in Seq(Tokens) /\ Joined(o, r, n)
  BY <1>2, <1>3, ConcatJoins
<1>. HIDE DEF o
<1>5. Len(o) = 5 /\ o[1] = r[1] /\ o[2] = r[2] /\ o[3] = r[3] /\ o[4] = r[4]
  BY <1>2, <1>3, <1>4 DEF Joined
<1>6. o[4 + 1] = n[1]
  BY <1>2, <1>3, <1>4 DEF Joined
<1>. QED  BY <1>1, <1>2, <1>3, <1>4, <1>5, <1>6

LEMMA WsTokens ==
  LET o == Opening["ws"] IN
  /\ o \in Seq(Tokens) /\ Len(o) = 7
  /\ o[1] = "request" /\ o[2] = "nl" /\ o[3] = "host" /\ o[4] = "nl"
  /\ o[5] = "key" /\ o[6] = "nl" /\ o[7] = "nl"
<1>. DEFINE r == RequestText
           k == <<"key", "nl">>
           n == <<"nl">>
           rk == r \o k
           o == rk \o n
<1>1. Opening["ws"] = o
  BY DEF Opening, Line
<1>2. r \in Seq(Tokens) /\ Len(r) = 4 /\ r[1] = "request" /\ r[2] = "nl" /\ r[3] = "host" /\ r[4] = "nl"
  BY RequestTokens
<1>3. n \in Seq(Tokens) /\ Len(n) = 1 /\ n[1] = "nl"
  BY TokensAre
<1>4. k \in Seq(Tokens) /\ Len(k) = 2 /\ k[1] = "key" /\ k[2] = "nl"
  BY TokensAre
<1>. HIDE DEF r, n, k
<1>5. rk \in Seq(Tokens) /\ Joined(rk, r, k)
  BY <1>2, <1>4, ConcatJoins
<1>. HIDE DEF rk
<1>6. o \in Seq(Tokens) /\ Joined(o, rk, n)
  BY <1>3, <1>5, ConcatJoins
<1>. HIDE DEF o
<1>7. Len(rk) = 6 /\ rk[1] = r[1] /\ rk[2] = r[2] /\ rk[3] = r[3] /\ rk[4] = r[4]
  BY <1>2, <1>4, <1>5 DEF Joined
<1>8. rk[4 + 1] = k[1] /\ rk[4 + 2] = k[2]
  BY <1>2, <1>4, <1>5 DEF Joined
<1>9. Len(o) = 7 /\ \A i \in 1 .. 6 : o[i] = rk[i]
  BY <1>3, <1>6, <1>7 DEF Joined
<1>10. o[6 + 1] = n[1]
  BY <1>3, <1>6, <1>7 DEF Joined
<1>11. o[1] = rk[1] /\ o[2] = rk[2] /\ o[3] = rk[3] /\ o[4] = rk[4] /\ o[5] = rk[5] /\ o[6] = rk[6]
  BY <1>9
<1>. QED  BY <1>1, <1>2, <1>3, <1>4, <1>6, <1>7, <1>8, <1>9, <1>10, <1>11

LEMMA SomeTokens == ASSUME NEW b, Len(b) # 0 PROVE b # <<>>
<1>1. Len(<<>>) = 0
  OBVIOUS
<1>. QED  BY <1>1, Zenon

LEMMA BelowFour == ASSUME NEW n \in 1 .. 5, n < 4 PROVE n \in {1, 2, 3}
OBVIOUS

LEMMA OwnEnd == ASSUME NEW n \in Nat \ {0} PROVE n \in 1 .. n
OBVIOUS

\* b is the beginning of an opening, up to all of it.
BeginOf(b, o) == b \in Seq(Tokens) /\ Len(b) \in 1 .. Len(o) /\ \A i \in 1 .. Len(b) : b[i] = o[i]

LEMMA NoEmptyLine ==
  ASSUME NEW b, b \in Seq(Tokens), \A i \in 1 .. Len(b) : i > 1 => ~(b[i] = "nl" /\ b[i - 1] = "nl")
  PROVE  EmptyLine(b) = 0
BY DEF EmptyLine, Ends

LEMMA OneEmptyLine ==
  ASSUME NEW b, b \in Seq(Tokens), NEW n \in 2 .. Len(b), b[n] = "nl" /\ b[n - 1] = "nl",
         \A i \in 1 .. Len(b) : i > 1 /\ i # n => ~(b[i] = "nl" /\ b[i - 1] = "nl")
  PROVE  EmptyLine(b) = n
<1>. DEFINE E == {i \in Ends(b) : i > 1 /\ b[i - 1] = "nl"}
<1>1. E = {n}
  BY DEF Ends
<1>2. Min(E) = n
  BY <1>1 DEF Min
<1>. QED  BY <1>1, <1>2 DEF EmptyLine

LEMMA TcpBegins ==
  ASSUME NEW b, BeginOf(b, Opening["tcp"])
  PROVE  Choice(b) = "tcp"
<1>. DEFINE o == Opening["tcp"]
<1>1. Len(o) = 2 /\ o[1] = "version"
  BY TcpTokens
<1>2. Len(b) \in 1 .. Len(o) /\ \A i \in 1 .. Len(b) : b[i] = o[i]
  BY DEF BeginOf
<1>. HIDE DEF o
<1>3. Len(b) # 0 /\ 1 \in 1 .. Len(b)
  BY <1>1, <1>2
<1>4. b # <<>>
  BY <1>3, SomeTokens
<1>5. b[1] = "version"
  BY <1>1, <1>2, <1>3
<1>6. Headers(b) = {}
  BY <1>5 DEF Headers
<1>. QED  BY <1>4, <1>5, <1>6 DEF Choice

LEMMA HttpBegins ==
  ASSUME NEW b, BeginOf(b, Opening["http"])
  PROVE  /\ Len(b) < 5 => EmptyLine(b) = 0
         /\ Len(b) = 5 => EmptyLine(b) = 5
         /\ Len(b) < 4 => Choice(b) = "none"
         /\ Len(b) >= 4 => Choice(b) = "http"
<1>. DEFINE o == Opening["http"]
<1>1. /\ Len(o) = 5
      /\ o[1] = "request" /\ o[2] = "nl" /\ o[3] = "host" /\ o[4] = "nl" /\ o[5] = "nl"
  BY HttpTokens
<1>2. b \in Seq(Tokens) /\ Len(b) \in 1 .. 5 /\ \A i \in 1 .. Len(b) : b[i] = o[i]
  BY <1>1 DEF BeginOf
<1>. HIDE DEF o
<1>3. Len(b) < 5 => EmptyLine(b) = 0
  <2>. SUFFICES ASSUME Len(b) < 5 PROVE EmptyLine(b) = 0
    OBVIOUS
  <2>1. \A i \in 1 .. Len(b) : i > 1 => ~(b[i] = "nl" /\ b[i - 1] = "nl")
    BY <1>1, <1>2
  <2>. QED  BY <1>2, <2>1, NoEmptyLine
<1>4. Len(b) = 5 => EmptyLine(b) = 5
  <2>. SUFFICES ASSUME Len(b) = 5 PROVE EmptyLine(b) = 5
    OBVIOUS
  <2>1. \A i \in 1 .. Len(b) : i > 1 /\ i # 5 => ~(b[i] = "nl" /\ b[i - 1] = "nl")
    BY <1>1, <1>2
  <2>2. b[5] = "nl" /\ b[5 - 1] = "nl" /\ 5 \in 2 .. Len(b)
    BY <1>1, <1>2
  <2>. QED  BY <1>2, <2>1, <2>2, OneEmptyLine
<1>. DEFINE e == IF EmptyLine(b) > 0 THEN EmptyLine(b) ELSE Len(b)
           T == {b[i] : i \in 1 .. e}
<1>5. e = Len(b)
  BY <1>2, <1>3, <1>4
<1>6. "key" \notin T
  BY <1>1, <1>2, <1>5
<1>7. b # <<>> /\ b[1] = "request"
  <2>1. Len(b) # 0 /\ 1 \in 1 .. Len(b)
    BY <1>2
  <2>2. b[1] = "request"
    BY <1>1, <1>2, <2>1
  <2>. QED  BY <2>1, <2>2, SomeTokens
<1>8. Len(b) < 4 => Headers(b) = {}
  <2>. SUFFICES ASSUME Len(b) < 4 PROVE Headers(b) = {}
    OBVIOUS
  <2>1. Len(b) = 1 => b[e] # "nl"
    BY <1>1, <1>2, <1>5
  <2>2. Len(b) = 2 => "host" \notin T
    BY <1>1, <1>2, <1>5
  <2>3. Len(b) = 3 => b[e] # "nl"
    BY <1>1, <1>2, <1>5
  <2>4. ~(b[e] = "nl" /\ "host" \in T)
    <3>1. Len(b) \in {1, 2, 3}
      <4>1. Len(b) \in 1 .. 5
        BY <1>2
      <4>. HIDE DEF e, T
      <4>. QED  BY <4>1, BelowFour
    <3>. HIDE DEF e, T
    <3>. QED  BY <2>1, <2>2, <2>3, <3>1
  <2>. QED  BY <2>4 DEF Headers
<1>9. Len(b) >= 4 => Headers(b) = T /\ "host" \in T
  <2>. SUFFICES ASSUME Len(b) >= 4 PROVE Headers(b) = T /\ "host" \in T
    OBVIOUS
  <2>1. e > 0 /\ b[e] = "nl" /\ 3 \in 1 .. e /\ b[3] = "host"
    BY <1>1, <1>2, <1>5
  <2>2. "host" \in T
    BY <2>1
  <2>. QED  BY <1>7, <2>1, <2>2 DEF Headers
<1>10. Len(b) < 4 => Choice(b) = "none"
  BY <1>7, <1>8 DEF Choice
<1>11. Len(b) >= 4 => Choice(b) = "http"
  BY <1>6, <1>7, <1>9 DEF Choice
<1>. QED  BY <1>3, <1>4, <1>10, <1>11

LEMMA WsBegins ==
  ASSUME NEW b, BeginOf(b, Opening["ws"])
  PROVE  /\ Len(b) < 7 => EmptyLine(b) = 0
         /\ Len(b) = 7 => EmptyLine(b) = 7
         /\ Len(b) \in {4, 6, 7} => Choice(b) = IF Len(b) = 4 THEN "http" ELSE "ws"
         /\ Len(b) \notin {4, 6, 7} => Choice(b) = "none"
<1>. DEFINE o == Opening["ws"]
<1>1. /\ Len(o) = 7
      /\ o[1] = "request" /\ o[2] = "nl" /\ o[3] = "host" /\ o[4] = "nl"
      /\ o[5] = "key" /\ o[6] = "nl" /\ o[7] = "nl"
  BY WsTokens
<1>2. b \in Seq(Tokens) /\ Len(b) \in 1 .. 7 /\ \A i \in 1 .. Len(b) : b[i] = o[i]
  BY <1>1 DEF BeginOf
<1>. HIDE DEF o
<1>3. Len(b) < 7 => EmptyLine(b) = 0
  <2>. SUFFICES ASSUME Len(b) < 7 PROVE EmptyLine(b) = 0
    OBVIOUS
  <2>1. \A i \in 1 .. Len(b) : i > 1 => ~(b[i] = "nl" /\ b[i - 1] = "nl")
    BY <1>1, <1>2
  <2>. QED  BY <1>2, <2>1, NoEmptyLine
<1>4. Len(b) = 7 => EmptyLine(b) = 7
  <2>. SUFFICES ASSUME Len(b) = 7 PROVE EmptyLine(b) = 7
    OBVIOUS
  <2>1. \A i \in 1 .. Len(b) : i > 1 /\ i # 7 => ~(b[i] = "nl" /\ b[i - 1] = "nl")
    BY <1>1, <1>2
  <2>2. b[7] = "nl" /\ b[7 - 1] = "nl" /\ 7 \in 2 .. Len(b)
    BY <1>1, <1>2
  <2>. QED  BY <1>2, <2>1, <2>2, OneEmptyLine
<1>. DEFINE e == IF EmptyLine(b) > 0 THEN EmptyLine(b) ELSE Len(b)
           T == {b[i] : i \in 1 .. e}
<1>5. e = Len(b)
  BY <1>2, <1>3, <1>4
<1>6. b # <<>> /\ b[1] = "request"
  <2>1. Len(b) # 0 /\ 1 \in 1 .. Len(b)
    BY <1>2
  <2>2. b[1] = "request"
    BY <1>1, <1>2, <2>1
  <2>. QED  BY <2>1, <2>2, SomeTokens
<1>7. Len(b) \notin {4, 6, 7} => Headers(b) = {}
  <2>. SUFFICES ASSUME Len(b) \in {1, 2, 3, 5} PROVE Headers(b) = {}
    BY <1>2
  <2>1. Len(b) \in {1, 3, 5} => b[e] # "nl"
    <3>1. Len(b) \in {1, 3, 5} => b[Len(b)] = o[Len(b)]
      <4>1. Len(b) \in 1 .. Len(b)
        <5>1. Len(b) \in Nat \ {0}
          BY <1>2
        <5>. QED  BY <5>1, OwnEnd, Zenon
      <4>. QED  BY <1>2, <4>1, Zenon
    <3>2. Len(b) \in {1, 3, 5} => o[Len(b)] # "nl"
      BY <1>1
    <3>. QED  BY <1>5, <3>1, <3>2
  <2>2. Len(b) = 2 => "host" \notin T
    BY <1>1, <1>2, <1>5
  <2>. QED  BY <2>1, <2>2 DEF Headers
<1>8. Len(b) \in {4, 6, 7} => Headers(b) = T /\ "host" \in T
  <2>. SUFFICES ASSUME Len(b) \in {4, 6, 7} PROVE Headers(b) = T /\ "host" \in T
    OBVIOUS
  <2>1. e > 0 /\ b[e] = "nl"
    <3>1. b[Len(b)] = o[Len(b)] /\ o[Len(b)] = "nl"
      <4>1. Len(b) \in 1 .. Len(b)
        <5>1. Len(b) \in Nat \ {0}
          BY <1>2
        <5>. QED  BY <5>1, OwnEnd, Zenon
      <4>2. b[Len(b)] = o[Len(b)]
        BY <1>2, <4>1, Zenon
      <4>. QED  BY <1>1, <4>2
    <3>. QED  BY <1>2, <1>5, <3>1
  <2>2. "host" \in T
    <3>1. 3 \in 1 .. e /\ b[3] = "host"
      BY <1>1, <1>2, <1>5
    <3>. QED  BY <3>1
  <2>. QED  BY <1>6, <2>1, <2>2 DEF Headers
<1>9. Len(b) = 4 => "key" \notin T
  BY <1>1, <1>2, <1>5
<1>10. Len(b) \in {6, 7} => "key" \in T
  <2>. SUFFICES ASSUME Len(b) \in {6, 7} PROVE "key" \in T
    OBVIOUS
  <2>1. 5 \in 1 .. e /\ b[5] = "key"
    BY <1>1, <1>2, <1>5
  <2>. QED  BY <2>1
<1>11. Len(b) \notin {4, 6, 7} => Choice(b) = "none"
  BY <1>6, <1>7 DEF Choice
<1>12. Len(b) = 4 => Choice(b) = "http"
  BY <1>6, <1>8, <1>9 DEF Choice
<1>13. Len(b) \in {6, 7} => Choice(b) = "ws"
  BY <1>6, <1>8, <1>10 DEF Choice
<1>. QED  BY <1>3, <1>4, <1>11, <1>12, <1>13
-----------------------------------------------------------------------------
(* ProtocolChoice: what has happened to the opening.                        *)

OpeningPackets == {"command", "request", "handshake", "frame"}

LEMMA ProtocolsAre == Protocols = {"tcp", "http", "ws"}
BY DEF Protocols, Opening

LEMMA Openings ==
  ASSUME NEW p \in Protocols
  PROVE  Opening[p] \in Seq(Tokens) /\ Len(Opening[p]) \in 2 .. 7
<1>1. CASE p = "tcp"
  BY <1>1, TcpTokens
<1>2. CASE p = "http"
  BY <1>2, HttpTokens
<1>3. CASE p = "ws"
  BY <1>3, WsTokens
<1>. QED  BY <1>1, <1>2, <1>3, ProtocolsAre

LEMMA FirstPackets ==
  /\ FirstPacket["tcp"] = "command" /\ FirstPacket["http"] = "request" /\ FirstPacket["ws"] = "handshake"
  /\ \A p \in Protocols : FirstPacket[p] \in OpeningPackets
BY ProtocolsAre DEF FirstPacket, OpeningPackets

\* What is made of the beginning of an opening.
LEMMA ChoiceOf ==
  ASSUME NEW p \in Protocols, NEW b, BeginOf(b, Opening[p])
  PROVE  /\ Choice(b) \in {"none", p} \/ (p = "ws" /\ Choice(b) = "http" /\ Len(b) = 4)
         /\ Len(b) = Len(Opening[p]) \/ p = "tcp" => Choice(b) = p
         /\ p # "tcp" /\ Len(b) < Len(Opening[p]) => EmptyLine(b) = 0
         /\ p # "tcp" /\ Len(b) = Len(Opening[p]) => EmptyLine(b) = Len(b)
<1>1. CASE p = "tcp"
  BY <1>1, TcpBegins
<1>2. CASE p = "http"
  <2>1. Len(Opening["http"]) = 5 /\ BeginOf(b, Opening["http"]) /\ Len(b) \in 1 .. 5
    BY <1>2, HttpTokens DEF BeginOf
  <2>2. /\ Len(b) < 5 => EmptyLine(b) = 0
        /\ Len(b) = 5 => EmptyLine(b) = 5
        /\ Len(b) < 4 => Choice(b) = "none"
        /\ Len(b) >= 4 => Choice(b) = "http"
    BY <2>1, HttpBegins
  <2>3. Choice(b) \in {"none", "http"} /\ (Len(b) = 5 => Choice(b) = "http")
    BY <2>1, <2>2
  <2>. QED  BY <1>2, <2>1, <2>2, <2>3
<1>3. CASE p = "ws"
  <2>1. Len(Opening["ws"]) = 7 /\ BeginOf(b, Opening["ws"]) /\ Len(b) \in 1 .. 7
    BY <1>3, WsTokens DEF BeginOf
  <2>2. /\ Len(b) < 7 => EmptyLine(b) = 0
        /\ Len(b) = 7 => EmptyLine(b) = 7
        /\ Len(b) \in {4, 6, 7} => Choice(b) = IF Len(b) = 4 THEN "http" ELSE "ws"
        /\ Len(b) \notin {4, 6, 7} => Choice(b) = "none"
    BY <2>1, WsBegins
  <2>3. Len(b) = 4 => Choice(b) = "http"
    BY <2>2
  <2>4. Len(b) # 4 => Choice(b) \in {"none", "ws"}
    BY <2>2
  <2>5. Len(b) = 7 => Choice(b) = "ws"
    BY <2>2
  <2>. QED  BY <1>3, <2>1, <2>2, <2>3, <2>4, <2>5
<1>. QED  BY <1>1, <1>2, <1>3, ProtocolsAre

LEMMA EmptyIsLen0 == ASSUME NEW S, NEW s \in Seq(S) PROVE (s = <<>>) <=> (Len(s) = 0)
BY SMT

\* a and r are s and t after the first n of t moved to s.
Moved(n, s, t, a, r) ==
  /\ Len(a) = Len(s) + n /\ Len(r) = Len(t) - n
  /\ \A i \in 1 .. Len(s) : a[i] = s[i]
  /\ \A i \in 1 .. n : a[Len(s) + i] = t[i]
  /\ \A i \in 1 .. Len(t) - n : r[i] = t[n + i]

LEMMA MoveMoves ==
  ASSUME NEW S, NEW s \in Seq(S), NEW t \in Seq(S), NEW n \in 1 .. Len(t)
  PROVE  /\ s \o SubSeq(t, 1, n) \in Seq(S) /\ SubSeq(t, n + 1, Len(t)) \in Seq(S)
         /\ Moved(n, s, t, s \o SubSeq(t, 1, n), SubSeq(t, n + 1, Len(t)))
<1>. DEFINE m == SubSeq(t, 1, n)
           a == s \o m
           r == SubSeq(t, n + 1, Len(t))
<1>1. m \in Seq(S) /\ Len(m) = n /\ \A i \in 1 .. n : m[i] = t[i]
  BY PrefixParts
<1>. HIDE DEF m
<1>2. a \in Seq(S) /\ Joined(a, s, m)
  BY <1>1, ConcatJoins
<1>3. r \in Seq(S) /\ Len(r) = Len(t) - n /\ \A i \in 1 .. Len(t) - n : r[i] = t[n + i]
  BY RestParts
<1>. HIDE DEF a, r
<1>4. Moved(n, s, t, a, r)
  BY <1>1, <1>2, <1>3 DEF Joined, Moved
<1>. QED  BY <1>2, <1>3, <1>4 DEF a, r, m

LEMMA MoveKeepsJoined ==
  ASSUME NEW S, NEW s \in Seq(S), NEW t \in Seq(S), NEW w, Joined(w, s, t), NEW n \in 1 .. Len(t),
         NEW a \in Seq(S), NEW r \in Seq(S), Moved(n, s, t, a, r)
  PROVE  Joined(w, a, r)
<1>1. Len(s) \in Nat /\ Len(t) \in Nat /\ n \in Nat
  OBVIOUS
<1>2. /\ Len(a) = Len(s) + n /\ (\A i \in 1 .. Len(s) : a[i] = s[i])
      /\ \A i \in 1 .. n : a[Len(s) + i] = t[i]
  BY DEF Moved
<1>3. Len(r) = Len(t) - n /\ \A i \in 1 .. Len(t) - n : r[i] = t[n + i]
  BY DEF Moved
<1>4. /\ Len(w) = Len(s) + Len(t)
      /\ \A i \in 1 .. Len(s) : w[i] = s[i]
      /\ \A i \in 1 .. Len(t) : w[Len(s) + i] = t[i]
  BY DEF Joined
<1>5. \A i \in 1 .. Len(a) : w[i] = a[i]
  <2>. SUFFICES ASSUME NEW i \in 1 .. Len(a) PROVE w[i] = a[i]
    OBVIOUS
  <2>1. CASE i <= Len(s)
    BY <1>1, <1>2, <1>4, <2>1
  <2>2. CASE i > Len(s)
    <3>. DEFINE k == i - Len(s)
    <3>1. k \in 1 .. n /\ k \in 1 .. Len(t) /\ i = Len(s) + k
      BY <1>1, <1>2, <2>2
    <3>. HIDE DEF k
    <3>2. w[Len(s) + k] = t[k] /\ a[Len(s) + k] = t[k]
      BY <1>2, <1>4, <3>1
    <3>. QED  BY <3>1, <3>2
  <2>. QED  BY <1>1, <1>2, <2>1, <2>2
<1>6. \A i \in 1 .. Len(r) : w[Len(a) + i] = r[i]
  <2>. SUFFICES ASSUME NEW i \in 1 .. Len(r) PROVE w[Len(a) + i] = r[i]
    OBVIOUS
  <2>1. n + i \in 1 .. Len(t) /\ Len(a) + i = Len(s) + (n + i) /\ i \in 1 .. Len(t) - n
    BY <1>3, <1>1, <1>2
  <2>2. w[Len(s) + (n + i)] = t[n + i]
    BY <1>4, <2>1
  <2>. QED  BY <1>3, <2>1, <2>2
<1>. QED  BY <1>3, <1>1, <1>2, <1>4, <1>5, <1>6 DEF Joined

LEMMA DecodeIs ==
  ASSUME NEW s, DecodeAs(s)
  PROVE  \/ s = "tcp" /\ Len(arrived) >= 2 /\ Decoded("command", 2)
         \/ s = "http" /\ EmptyLine(arrived) > 0 /\ Decoded("request", EmptyLine(arrived))
         \/ s = "ws" /\ ~handshaked /\ EmptyLine(arrived) > 0 /\ Decoded("handshake", EmptyLine(arrived))
         \/ s = "ws" /\ handshaked /\ arrived # <<>> /\ Decoded("frame", 1)
         \/ /\ NotYet
            /\ ~(s = "tcp" /\ Len(arrived) >= 2)
            /\ ~(s = "http" /\ EmptyLine(arrived) > 0)
            /\ ~(s = "ws" /\ ~handshaked /\ EmptyLine(arrived) > 0)
            /\ ~(s = "ws" /\ handshaked /\ arrived # <<>>)
BY DEF DecodeAs, Decoded, NotYet
-----------------------------------------------------------------------------
ChoiceTypes ==
  /\ speaks \in Protocols
  /\ under \in Seq(Tokens) /\ arrived \in Seq(Tokens)
  /\ jobs \in Seq(OpeningPackets) /\ answered \in Seq(OpeningPackets)
  /\ framesSent \in Nat
  /\ toDecode \in BOOLEAN /\ handshaked \in BOOLEAN /\ shut \in BOOLEAN

\* What the first decode saw, and what it made of it.
FirstRead ==
  /\ first \in 0 .. Len(Opening[speaks])
  /\ first = 0 => session = "none" /\ ~shut
  /\ first > 0 =>
       /\ session = Choice(SubSeq(Opening[speaks], 1, first))
       /\ shut => session = "none"
       /\ ~shut => session # "none"

\* Nothing of the opening is decoded: it has arrived or is on its way.
OpeningUnread ==
  /\ Joined(Opening[speaks], arrived, under)
  /\ Len(jobs) = 0 /\ Len(answered) = 0 /\ framesSent = 0 /\ ~handshaked
Unread == OpeningUnread /\ (toDecode => Len(arrived) > 0) /\ (~toDecode => Len(arrived) = 0)
\* The reading thread stops only before the end.
Opened == OpeningUnread /\ Len(arrived) > 0 /\ (~toDecode => Len(arrived) < Len(Opening[speaks]))

\* The handler has the packet the opening was decoded to.
OpeningAtWork ==
  /\ Len(arrived) = 0 /\ Len(under) = 0
  /\ Len(jobs) = 1 /\ jobs[1] = FirstPacket[speaks]
  /\ Len(answered) = 0 /\ framesSent = 0

\* The opening is answered, and all else is frames.
AreFrames(s) == \A i \in 1 .. Len(s) : s[i] = "frame"
AnswerFirst == Len(answered) > 0 /\ answered[1] = FirstPacket[speaks] /\ \A i \in 2 .. Len(answered) : answered[i] = "frame"
Framed ==
  /\ AreFrames(under) /\ AreFrames(arrived) /\ AreFrames(jobs) /\ AnswerFirst
  /\ framesSent = Len(under) + Len(arrived) + Len(jobs) + (Len(answered) - 1)
  /\ speaks # "ws" => framesSent = 0
  /\ speaks = "ws" => handshaked
  /\ ~toDecode => Len(arrived) = 0

Progress == Opened \/ OpeningAtWork \/ Framed

\* A client that was taken for another is left out.
ChoiceInv ==
  /\ speaks \in Protocols /\ FirstRead
  /\ first = 0 => ChoiceTypes /\ Unread
  /\ session = speaks => ChoiceTypes /\ Progress
-----------------------------------------------------------------------------
LEMMA OpeningBegins ==
  ASSUME ChoiceTypes, OpeningUnread, Len(arrived) > 0
  PROVE  /\ BeginOf(arrived, Opening[speaks]) /\ Len(Opening[speaks]) = Len(arrived) + Len(under)
         /\ SubSeq(Opening[speaks], 1, Len(arrived)) = arrived
<1>. DEFINE o == Opening[speaks]
           p == SubSeq(o, 1, Len(arrived))
<1>1. o \in Seq(Tokens) /\ arrived \in Seq(Tokens) /\ under \in Seq(Tokens)
  BY Openings DEF ChoiceTypes
<1>2. Len(o) = Len(arrived) + Len(under) /\ \A i \in 1 .. Len(arrived) : o[i] = arrived[i]
  BY DEF OpeningUnread, Joined
<1>3. Len(arrived) \in 0 .. Len(o) /\ Len(under) \in Nat
  BY <1>1, <1>2
<1>. HIDE DEF o
<1>4. p \in Seq(Tokens) /\ Len(p) = Len(arrived) /\ \A i \in 1 .. Len(arrived) : p[i] = o[i]
  BY <1>1, <1>3, PrefixParts
<1>. HIDE DEF p
<1>5. p = arrived
  BY <1>1, <1>2, <1>4, SeqEqual
<1>6. BeginOf(arrived, o)
  BY <1>1, <1>2, <1>3 DEF BeginOf
<1>. QED  BY <1>2, <1>5, <1>6 DEF o, p

LEMMA NothingToSplit == ASSUME NEW s \in Seq(Tokens), Len(s) = 0 PROVE EmptyLine(s) = 0
<1>1. \A i \in 1 .. Len(s) : i > 1 => ~(s[i] = "nl" /\ s[i - 1] = "nl")
  OBVIOUS
<1>. QED  BY <1>1, NoEmptyLine, Zenon

LEMMA AllOfTwo == ASSUME NEW a \in Nat, NEW u \in Nat, a + u = 2, a >= 2 PROVE a = 2 /\ u = 0
OBVIOUS

\* What decode does with the beginning of an opening.
LEMMA DecodeOpening ==
  ASSUME ChoiceTypes, OpeningUnread, Len(arrived) > 0, DecodeAs(speaks)
  PROVE  \/ /\ Decoded(FirstPacket[speaks], Len(arrived)) /\ Len(under) = 0
         \/ /\ NotYet /\ Len(arrived) < Len(Opening[speaks])
<1>. DEFINE o == Opening[speaks]
<1>1. /\ speaks \in Protocols /\ Len(arrived) \in Nat /\ Len(under) \in Nat
      /\ Len(o) = Len(arrived) + Len(under) /\ ~handshaked
  BY OpeningBegins DEF ChoiceTypes, OpeningUnread
<1>2. /\ speaks # "tcp" /\ Len(arrived) < Len(o) => EmptyLine(arrived) = 0
      /\ speaks # "tcp" /\ Len(arrived) = Len(o) => EmptyLine(arrived) = Len(arrived)
  BY <1>1, OpeningBegins, ChoiceOf
<1>3. speaks = "tcp" => Len(o) = 2
  BY TcpTokens
<1>. HIDE DEF o
<1>4. Len(arrived) <= Len(o) /\ (Len(arrived) = Len(o) => Len(under) = 0)
  BY <1>1
<1>5. CASE speaks = "tcp"
  <2>1. \/ Len(arrived) >= 2 /\ Decoded("command", 2)
        \/ NotYet /\ ~(Len(arrived) >= 2)
    BY <1>5, DecodeIs
  <2>2. CASE Len(arrived) >= 2 /\ Decoded("command", 2)
    <3>1. Len(arrived) = 2 /\ Len(under) = 0
      <4>1. Len(arrived) + Len(under) = 2
        BY <1>1, <1>3, <1>5, Zenon
      <4>. QED  BY <1>1, <2>2, <4>1, AllOfTwo
    <3>. QED  BY <1>5, <2>2, <3>1, FirstPackets
  <2>3. CASE NotYet /\ ~(Len(arrived) >= 2)
    BY <1>1, <1>3, <1>5, <2>3 DEF o
  <2>. QED  BY <2>1, <2>2, <2>3
<1>6. CASE speaks = "http"
  <2>1. \/ EmptyLine(arrived) > 0 /\ Decoded("request", EmptyLine(arrived))
        \/ NotYet /\ ~(EmptyLine(arrived) > 0)
    BY <1>6, DecodeIs
  <2>2. CASE EmptyLine(arrived) > 0 /\ Decoded("request", EmptyLine(arrived))
    <3>1. Len(arrived) = Len(o)
      BY <1>1, <1>2, <1>6, <2>2
    <3>. QED  BY <1>2, <1>4, <1>6, <2>2, <3>1, FirstPackets
  <2>3. CASE NotYet /\ ~(EmptyLine(arrived) > 0)
    <3>1. Len(arrived) # Len(o)
      BY <1>1, <1>2, <1>6, <2>3
    <3>. QED  BY <1>1, <1>4, <2>3, <3>1 DEF o
  <2>. QED  BY <2>1, <2>2, <2>3
<1>7. CASE speaks = "ws"
  <2>1. \/ EmptyLine(arrived) > 0 /\ Decoded("handshake", EmptyLine(arrived))
        \/ NotYet /\ ~(EmptyLine(arrived) > 0)
    BY <1>1, <1>7, DecodeIs
  <2>2. CASE EmptyLine(arrived) > 0 /\ Decoded("handshake", EmptyLine(arrived))
    <3>1. Len(arrived) = Len(o)
      BY <1>1, <1>2, <1>7, <2>2
    <3>. QED  BY <1>2, <1>4, <1>7, <2>2, <3>1, FirstPackets
  <2>3. CASE NotYet /\ ~(EmptyLine(arrived) > 0)
    <3>1. Len(arrived) # Len(o)
      BY <1>1, <1>2, <1>7, <2>3
    <3>. QED  BY <1>1, <1>4, <2>3, <3>1 DEF o
  <2>. QED  BY <2>1, <2>2, <2>3
<1>. QED  BY <1>1, <1>5, <1>6, <1>7, ProtocolsAre

LEMMA TakeKeepsTypes ==
  ASSUME NEW S, NEW s \in Seq(S), NEW p \in S, NEW t \in Seq(Tokens), NEW n \in Nat
  PROVE  /\ Append(s, p) \in Seq(S) /\ SubSeq(t, n + 1, Len(t)) \in Seq(Tokens)
         /\ Len(Append(s, p)) = Len(s) + 1 /\ Append(s, p)[Len(s) + 1] = p
         /\ \A i \in 1 .. Len(s) : Append(s, p)[i] = s[i]
BY RestInSeq, AppendProperties

-----------------------------------------------------------------------------
LEMMA MovedSum ==
  ASSUME NEW a \in Nat, NEW u \in Nat, NEW n \in 1 .. u
  PROVE  (u - n) + (a + n) = u + a
OBVIOUS

LEMMA ReadSomeKeepsChoice == ASSUME ChoiceInv, NEW n, ReadSome(n) PROVE ChoiceInv'
<1>1. /\ UNCHANGED <<speaks, first, session, handshaked, jobs, answered, framesSent, shut>>
      /\ arrived' = arrived \o SubSeq(under, 1, n) /\ under' = SubSeq(under, n + 1, Len(under))
      /\ toDecode' = TRUE /\ n \in DOMAIN under
  BY DEF ReadSome
<1>2. speaks' \in Protocols /\ FirstRead'
  BY <1>1 DEF ChoiceInv, FirstRead
<1>3. ASSUME ChoiceTypes
      PROVE  /\ ChoiceTypes' /\ (OpeningUnread => OpeningUnread')
             /\ n \in 1 .. Len(under) /\ Len(under) \in Nat /\ Len(arrived) \in Nat
             /\ Moved(n, arrived, under, arrived', under')
  <2>. DEFINE a == arrived \o SubSeq(under, 1, n)
             r == SubSeq(under, n + 1, Len(under))
  <2>1. arrived \in Seq(Tokens) /\ under \in Seq(Tokens)
    BY <1>3 DEF ChoiceTypes
  <2>2. n \in 1 .. Len(under) /\ Len(under) \in Nat /\ Len(arrived) \in Nat
    BY <1>1, <2>1
  <2>3. a \in Seq(Tokens) /\ r \in Seq(Tokens) /\ Moved(n, arrived, under, a, r)
    BY <2>1, <2>2, MoveMoves
  <2>4. arrived' = a /\ under' = r
    BY <1>1
  <2>. HIDE DEF a, r
  <2>5. ChoiceTypes'
    BY <1>1, <1>3, <2>3, <2>4 DEF ChoiceTypes
  <2>6. ASSUME OpeningUnread PROVE OpeningUnread'
    <3>1. Joined(Opening[speaks], arrived, under)
      BY <2>6 DEF OpeningUnread
    <3>2. Joined(Opening[speaks], a, r)
      BY <2>1, <2>2, <2>3, <3>1, MoveKeepsJoined
    <3>3. Joined(Opening[speaks'], arrived', under')
      BY <1>1, <2>4, <3>2
    <3>. QED  BY <1>1, <2>6, <3>3 DEF OpeningUnread
  <2>7. Moved(n, arrived, under, arrived', under')
    BY <2>3, <2>4
  <2>. QED  BY <2>2, <2>5, <2>6, <2>7
<1>4. ASSUME first' = 0 PROVE ChoiceTypes' /\ Unread'
  <2>1. ChoiceTypes /\ OpeningUnread
    BY <1>1, <1>4 DEF ChoiceInv, Unread
  <2>2. Len(arrived') > 0
    BY <1>3, <2>1 DEF Moved
  <2>. QED  BY <1>1, <1>3, <2>1, <2>2 DEF Unread
<1>5. ASSUME session' = speaks' PROVE ChoiceTypes' /\ Progress'
  <2>1. ChoiceTypes /\ Progress
    BY <1>1, <1>5 DEF ChoiceInv
  <2>2. CASE Opened
    <3>1. OpeningUnread' /\ Len(arrived') > 0
      BY <1>3, <2>1, <2>2 DEF Moved, Opened
    <3>. QED  BY <1>1, <1>3, <2>1, <3>1 DEF Opened, Progress
  <2>3. CASE OpeningAtWork
    BY <1>3, <2>1, <2>3 DEF OpeningAtWork
  <2>4. CASE Framed
    <3>1. /\ \A i \in 1 .. Len(under) : under[i] = "frame"
          /\ \A i \in 1 .. Len(arrived) : arrived[i] = "frame"
      BY <2>4 DEF Framed, AreFrames
    <3>2. AreFrames(under')
      <4>. SUFFICES ASSUME NEW i \in 1 .. Len(under) - n PROVE under[n + i] = "frame"
        BY <1>3, <2>1 DEF AreFrames, Moved
      <4>1. n + i \in 1 .. Len(under)
        BY <1>3, <2>1
      <4>. QED  BY <3>1, <4>1
    <3>3. AreFrames(arrived')
      <4>. SUFFICES ASSUME NEW i \in 1 .. Len(arrived') PROVE arrived'[i] = "frame"
        BY DEF AreFrames
      <4>1. CASE i <= Len(arrived)
        BY <1>3, <2>1, <3>1, <4>1 DEF Moved
      <4>2. CASE i > Len(arrived)
        <5>. DEFINE k == i - Len(arrived)
        <5>1. k \in 1 .. n /\ k \in 1 .. Len(under) /\ i = Len(arrived) + k
          BY <1>3, <2>1, <4>2 DEF Moved
        <5>. HIDE DEF k
        <5>. QED  BY <1>3, <2>1, <3>1, <5>1 DEF Moved
      <4>. QED  BY <1>3, <2>1, <4>1, <4>2 DEF Moved
    <3>4. AnswerFirst' /\ AreFrames(jobs')
      BY <1>1, <2>4 DEF AnswerFirst, AreFrames, Framed
    <3>5. Len(under') + Len(arrived') = Len(under) + Len(arrived)
      BY <1>3, <2>1, MovedSum DEF Moved
    <3>6. framesSent' = Len(under') + Len(arrived') + Len(jobs') + (Len(answered') - 1)
      BY <1>1, <2>4, <3>5 DEF Framed
    <3>7. Framed'
      BY <1>1, <2>4, <3>2, <3>3, <3>4, <3>6 DEF Framed
    <3>. QED  BY <1>3, <2>1, <3>7 DEF Progress
  <2>. QED  BY <2>1, <2>2, <2>3, <2>4 DEF Progress
<1>. QED  BY <1>2, <1>4, <1>5 DEF ChoiceInv

\* The effect of taking a packet.
LEMMA DecodedParts ==
  ASSUME ChoiceTypes, NEW p \in OpeningPackets, NEW n \in 0 .. Len(arrived), Decoded(p, n),
         UNCHANGED <<speaks, under, handshaked, answered, framesSent>>, shut' \in BOOLEAN
  PROVE  /\ ChoiceTypes' /\ toDecode' = toDecode
         /\ Len(jobs') = Len(jobs) + 1 /\ jobs'[Len(jobs) + 1] = p /\ (\A i \in 1 .. Len(jobs) : jobs'[i] = jobs[i])
         /\ Len(arrived') = Len(arrived) - n /\ \A i \in 1 .. Len(arrived) - n : arrived'[i] = arrived[n + i]
<1>1. /\ jobs' = Append(jobs, p) /\ arrived' = SubSeq(arrived, n + 1, Len(arrived))
      /\ UNCHANGED toDecode
  BY DEF Decoded
<1>2. jobs \in Seq(OpeningPackets) /\ arrived \in Seq(Tokens)
  BY DEF ChoiceTypes
<1>3. /\ jobs' \in Seq(OpeningPackets) /\ Len(jobs') = Len(jobs) + 1 /\ jobs'[Len(jobs) + 1] = p
      /\ \A i \in 1 .. Len(jobs) : jobs'[i] = jobs[i]
  BY <1>1, <1>2, AppendProperties
<1>4. /\ arrived' \in Seq(Tokens) /\ Len(arrived') = Len(arrived) - n
      /\ \A i \in 1 .. Len(arrived) - n : arrived'[i] = arrived[n + i]
  BY <1>1, <1>2, RestParts
<1>5. ChoiceTypes'
  BY <1>1, <1>3, <1>4 DEF ChoiceTypes
<1>. QED  BY <1>1, <1>3, <1>4, <1>5

LEMMA NotYetParts ==
  ASSUME ChoiceTypes, NotYet, UNCHANGED <<speaks, under, handshaked, answered, framesSent>>, shut' \in BOOLEAN
  PROVE  ChoiceTypes' /\ toDecode' = FALSE /\ UNCHANGED <<jobs, arrived>>
BY DEF ChoiceTypes, NotYet

\* The opening is decoded, or more of it is waited for.
LEMMA DecodeOpeningKnown ==
  ASSUME ChoiceTypes, OpeningUnread, Len(arrived) > 0, DecodeAs(speaks),
         UNCHANGED <<speaks, under, handshaked, answered, framesSent, shut>>
  PROVE  ChoiceTypes' /\ Progress'
<1>1. shut' \in BOOLEAN /\ Len(arrived) \in Nat /\ Len(arrived) \in 0 .. Len(arrived) /\ FirstPacket[speaks] \in OpeningPackets
  BY FirstPackets DEF ChoiceTypes
<1>2. CASE Decoded(FirstPacket[speaks], Len(arrived)) /\ Len(under) = 0
  <2>1. /\ ChoiceTypes' /\ Len(jobs') = Len(jobs) + 1 /\ jobs'[Len(jobs) + 1] = FirstPacket[speaks]
        /\ Len(arrived') = Len(arrived) - Len(arrived)
    BY <1>1, <1>2, DecodedParts
  <2>2. Len(jobs) = 0 /\ Len(answered) = 0 /\ framesSent = 0
    BY DEF OpeningUnread
  <2>3. Len(jobs') = 1 /\ jobs'[1] = FirstPacket[speaks] /\ Len(arrived') = 0
    BY <1>1, <2>1, <2>2
  <2>4. OpeningAtWork'
    BY <1>2, <2>2, <2>3 DEF OpeningAtWork
  <2>. QED  BY <2>1, <2>4 DEF Progress
<1>3. CASE NotYet /\ Len(arrived) < Len(Opening[speaks])
  <2>1. ChoiceTypes' /\ toDecode' = FALSE /\ UNCHANGED <<jobs, arrived>>
    BY <1>1, <1>3, NotYetParts
  <2>2. OpeningUnread'
    BY <2>1 DEF OpeningUnread
  <2>3. Opened'
    BY <1>3, <2>1, <2>2 DEF Moved, Opened
  <2>. QED  BY <2>1, <2>3 DEF Progress
<1>. QED  BY <1>2, <1>3, DecodeOpening

LEMMA ReadDecodeKeepsChoice == ASSUME ChoiceInv, ReadDecode PROVE ChoiceInv'
<1>1. /\ toDecode /\ ~shut /\ UNCHANGED <<speaks, under, handshaked, answered, framesSent>>
      /\ session = "none" => session' = Choice(arrived) /\ first' = Len(arrived)
      /\ session # "none" => session' = session /\ first' = first
      /\ session' = "none" => shut' = TRUE /\ UNCHANGED <<jobs, arrived, toDecode>>
      /\ session' # "none" => DecodeAs(session') /\ UNCHANGED shut
  BY DEF ReadDecode
<1>2. speaks \in Protocols /\ FirstRead /\ speaks # "none"
  BY ProtocolsAre DEF ChoiceInv
\* The first decode.
<1>3. CASE session = "none"
  <2>1. first = 0
    BY <1>1, <1>2, <1>3, Openings DEF FirstRead
  <2>2. ChoiceTypes /\ OpeningUnread /\ Len(arrived) > 0 /\ Len(arrived) \in Nat /\ Len(under) \in Nat
    BY <1>1, <2>1 DEF ChoiceInv, Unread, ChoiceTypes
  <2>3. Len(Opening[speaks]) = Len(arrived) + Len(under) /\ SubSeq(Opening[speaks], 1, Len(arrived)) = arrived
    BY <2>2, OpeningBegins
  <2>4. first' = Len(arrived) /\ session' = Choice(SubSeq(Opening[speaks], 1, Len(arrived)))
    BY <1>1, <1>3, <2>3
  <2>5. FirstRead'
    <3>1. first' \in 0 .. Len(Opening[speaks'])
      BY <1>1, <2>2, <2>3, <2>4
    <3>2. first' # 0 /\ session' = Choice(SubSeq(Opening[speaks'], 1, first'))
      BY <1>1, <2>2, <2>4
    <3>3. (shut' => session' = "none") /\ (~shut' => session' # "none")
      BY <1>1
    <3>. QED  BY <3>1, <3>2, <3>3 DEF FirstRead
  <2>6. ASSUME session' = speaks' PROVE ChoiceTypes' /\ Progress'
    <3>1. DecodeAs(speaks) /\ UNCHANGED shut
      BY <1>1, <1>2, <2>6
    <3>. QED  BY <1>1, <2>2, <3>1, DecodeOpeningKnown
  <2>7. first' # 0
    BY <2>2, <2>4
  <2>. QED  BY <1>1, <1>2, <2>5, <2>6, <2>7 DEF ChoiceInv
\* A later one.
<1>4. CASE session # "none"
  <2>1. session' = session /\ first' = first /\ DecodeAs(session) /\ UNCHANGED shut /\ first # 0
    BY <1>1, <1>2, <1>4 DEF FirstRead
  <2>2. FirstRead'
    BY <1>1, <1>2, <2>1 DEF FirstRead
  <2>3. ASSUME session' = speaks' PROVE ChoiceTypes' /\ Progress'
    <3>1. ChoiceTypes /\ Progress /\ DecodeAs(speaks)
      BY <1>1, <2>1, <2>3 DEF ChoiceInv
    <3>2. shut' \in BOOLEAN /\ arrived \in Seq(Tokens) /\ under \in Seq(Tokens)
      BY <2>1, <3>1 DEF ChoiceTypes
    <3>3. Len(arrived) \in Nat /\ Len(under) \in Nat /\ Len(jobs) \in Nat /\ Len(answered) \in Nat
      BY <3>1 DEF ChoiceTypes
    <3>4. Len(arrived) = 0 => NotYet
      <4>. SUFFICES ASSUME Len(arrived) = 0 PROVE NotYet
        OBVIOUS
      <4>1. EmptyLine(arrived) = 0
        BY <3>2, NothingToSplit, Zenon
      <4>2. ~(EmptyLine(arrived) > 0) /\ ~(Len(arrived) >= 2)
        BY <4>1
      <4>3. arrived = <<>>
        BY <3>2, EmptyIsLen0, Zenon
      <4>. QED  BY <3>1, <4>2, <4>3, DecodeIs
    <3>5. CASE Opened
      BY <1>1, <2>1, <3>1, <3>5, DecodeOpeningKnown DEF Opened
    <3>6. CASE OpeningAtWork
      <4>1. ChoiceTypes' /\ UNCHANGED <<jobs, arrived>>
        BY <1>1, <3>1, <3>2, <3>4, <3>6, NotYetParts DEF OpeningAtWork
      <4>. QED  BY <1>1, <3>6, <4>1 DEF OpeningAtWork, Progress
    <3>7. CASE Framed
      <4>1. CASE Len(arrived) = 0
        <5>1. ChoiceTypes' /\ UNCHANGED <<jobs, arrived>>
          BY <1>1, <3>1, <3>2, <3>4, <4>1, NotYetParts
        <5>. QED  BY <1>1, <3>7, <4>1, <5>1 DEF Framed, AreFrames, AnswerFirst, Progress
      <4>2. CASE Len(arrived) # 0
        <5>1. framesSent # 0
          BY <3>3, <3>7, <4>2 DEF Framed, AnswerFirst
        <5>2. speaks = "ws" /\ handshaked
          BY <3>7, <5>1 DEF Framed
        <5>3. arrived # <<>>
          BY <3>2, <4>2, EmptyIsLen0
        <5>4. Decoded("frame", 1)
          BY <3>1, <5>2, <5>3, DecodeIs
        <5>5. "frame" \in OpeningPackets /\ 1 \in 0 .. Len(arrived)
          BY <3>3, <4>2 DEF OpeningPackets
        <5>6. /\ ChoiceTypes' /\ toDecode' = toDecode
              /\ Len(jobs') = Len(jobs) + 1 /\ jobs'[Len(jobs) + 1] = "frame" /\ (\A i \in 1 .. Len(jobs) : jobs'[i] = jobs[i])
              /\ Len(arrived') = Len(arrived) - 1 /\ \A i \in 1 .. Len(arrived) - 1 : arrived'[i] = arrived[1 + i]
          BY <1>1, <3>1, <3>2, <5>4, <5>5, DecodedParts
        <5>7. AreFrames(jobs')
          BY <3>3, <3>7, <5>6 DEF AreFrames, Framed
        <5>8. AreFrames(arrived')
          <6>. SUFFICES ASSUME NEW i \in 1 .. Len(arrived) - 1 PROVE arrived[1 + i] = "frame"
            BY <5>6 DEF AreFrames
          <6>1. 1 + i \in 1 .. Len(arrived)
            BY <3>3
          <6>. QED  BY <3>7, <6>1 DEF AreFrames, Framed
        <5>9. AreFrames(under') /\ AnswerFirst'
          BY <1>1, <3>7 DEF AreFrames, AnswerFirst, Framed
        <5>10. framesSent' = Len(under') + Len(arrived') + Len(jobs') + (Len(answered') - 1)
          BY <1>1, <3>3, <3>7, <5>6 DEF Framed
        <5>11. Framed'
          BY <1>1, <3>7, <5>2, <5>6, <5>7, <5>8, <5>9, <5>10 DEF Framed
        <5>. QED  BY <5>6, <5>11 DEF Progress
      <4>. QED  BY <4>1, <4>2
    <3>. QED  BY <3>1, <3>5, <3>6, <3>7 DEF Progress
  <2>. QED  BY <1>1, <1>2, <2>1, <2>2, <2>3 DEF ChoiceInv
<1>. QED  BY <1>3, <1>4

LEMMA ShakeKeepsChoice == ASSUME ChoiceInv, Shake PROVE ChoiceInv'
<1>1. /\ handshaked' = TRUE /\ jobs # <<>>
      /\ UNCHANGED <<speaks, under, arrived, first, toDecode, session, jobs, answered, framesSent, shut>>
  BY DEF Shake
<1>2. speaks' \in Protocols /\ FirstRead'
  BY <1>1 DEF ChoiceInv, FirstRead
<1>3. ASSUME ChoiceTypes PROVE ~OpeningUnread
  <2>1. jobs \in Seq(OpeningPackets)
    BY <1>3 DEF ChoiceTypes
  <2>. QED  BY <1>1, <2>1, EmptyIsLen0 DEF OpeningUnread
<1>4. first' # 0
  BY <1>1, <1>3 DEF ChoiceInv, Unread
<1>5. ASSUME session' = speaks' PROVE ChoiceTypes' /\ Progress'
  <2>1. ChoiceTypes /\ Progress
    BY <1>1, <1>5 DEF ChoiceInv
  <2>2. ChoiceTypes'
    BY <1>1, <2>1 DEF ChoiceTypes
  <2>3. OpeningAtWork \/ Framed
    BY <1>3, <2>1 DEF Progress, Opened
  <2>4. CASE OpeningAtWork
    BY <1>1, <2>2, <2>4 DEF OpeningAtWork, Progress
  <2>5. CASE Framed
    BY <1>1, <2>2, <2>5 DEF Framed, AreFrames, AnswerFirst, Progress
  <2>. QED  BY <2>3, <2>4, <2>5
<1>. QED  BY <1>2, <1>4, <1>5 DEF ChoiceInv

LEMMA TailParts ==
  ASSUME NEW S, NEW s \in Seq(S), Len(s) > 0
  PROVE  /\ Head(s) = s[1] /\ Head(s) \in S /\ Tail(s) \in Seq(S)
         /\ Len(Tail(s)) = Len(s) - 1 /\ \A i \in 1 .. Len(s) - 1 : Tail(s)[i] = s[i + 1]
BY EmptyIsLen0, HeadTailProperties

LEMMA AnswerJobKeepsChoice == ASSUME ChoiceInv, AnswerJob PROVE ChoiceInv'
<1>1. /\ jobs # <<>> /\ (Head(jobs) = "handshake" => handshaked)
      /\ answered' = Append(answered, Head(jobs)) /\ jobs' = Tail(jobs)
      /\ UNCHANGED <<speaks, under, arrived, first, toDecode, session, handshaked, framesSent, shut>>
  BY DEF AnswerJob
<1>2. speaks' \in Protocols /\ FirstRead'
  BY <1>1 DEF ChoiceInv, FirstRead
<1>3. ASSUME ChoiceTypes
      PROVE  /\ ~OpeningUnread /\ ChoiceTypes'
             /\ Len(jobs) \in Nat /\ Len(jobs) > 0 /\ Len(answered) \in Nat /\ Len(under) \in Nat /\ Len(arrived) \in Nat
             /\ (jobs[1] = "handshake" => handshaked)
             /\ Len(answered') = Len(answered) + 1 /\ answered'[Len(answered) + 1] = jobs[1]
             /\ \A i \in 1 .. Len(answered) : answered'[i] = answered[i]
             /\ Len(jobs') = Len(jobs) - 1 /\ \A i \in 1 .. Len(jobs) - 1 : jobs'[i] = jobs[i + 1]
  <2>1. jobs \in Seq(OpeningPackets) /\ answered \in Seq(OpeningPackets) /\ under \in Seq(Tokens) /\ arrived \in Seq(Tokens)
    BY <1>3 DEF ChoiceTypes
  <2>2. Len(jobs) > 0 /\ Len(jobs) \in Nat
    BY <1>1, <2>1, EmptyIsLen0
  <2>3. /\ Head(jobs) = jobs[1] /\ Head(jobs) \in OpeningPackets /\ Tail(jobs) \in Seq(OpeningPackets)
        /\ Len(Tail(jobs)) = Len(jobs) - 1 /\ \A i \in 1 .. Len(jobs) - 1 : Tail(jobs)[i] = jobs[i + 1]
    BY <2>1, <2>2, TailParts
  <2>4. /\ answered' \in Seq(OpeningPackets) /\ Len(answered') = Len(answered) + 1
        /\ answered'[Len(answered) + 1] = jobs[1]
        /\ \A i \in 1 .. Len(answered) : answered'[i] = answered[i]
    BY <1>1, <2>1, <2>3, AppendProperties
  <2>5. ChoiceTypes'
    BY <1>1, <1>3, <2>3, <2>4 DEF ChoiceTypes
  <2>6. ~OpeningUnread
    BY <2>2 DEF OpeningUnread
  <2>. QED  BY <1>1, <2>1, <2>2, <2>3, <2>4, <2>5, <2>6
<1>4. first' # 0
  BY <1>1, <1>3 DEF ChoiceInv, Unread
<1>5. ASSUME session' = speaks' PROVE ChoiceTypes' /\ Progress'
  <2>1. ChoiceTypes /\ Progress
    BY <1>1, <1>5 DEF ChoiceInv
  <2>2. CASE OpeningAtWork
    <3>1. Len(answered') = 1 /\ answered'[1] = FirstPacket[speaks] /\ Len(jobs') = 0
      BY <1>3, <2>1, <2>2 DEF OpeningAtWork
    <3>2. speaks = "ws" => handshaked
      BY <1>3, <2>1, <2>2, FirstPackets DEF OpeningAtWork
    <3>3. AreFrames(under') /\ AreFrames(arrived') /\ AreFrames(jobs')
      BY <1>1, <2>2, <3>1 DEF OpeningAtWork, AreFrames
    <3>4. AnswerFirst'
      BY <1>1, <3>1 DEF AnswerFirst
    <3>5. framesSent' = 0 /\ Len(under') = 0 /\ Len(arrived') = 0
      BY <1>1, <2>2 DEF OpeningAtWork
    <3>6. framesSent' = Len(under') + Len(arrived') + Len(jobs') + (Len(answered') - 1)
      BY <3>1, <3>5
    <3>7. /\ speaks' # "ws" => framesSent' = 0
          /\ speaks' = "ws" => handshaked'
          /\ ~toDecode' => Len(arrived') = 0
      BY <1>1, <3>2, <3>5
    <3>8. Framed'
      BY <3>3, <3>4, <3>6, <3>7, Zenon DEF Framed
    <3>. QED  BY <1>3, <2>1, <3>8 DEF Progress
  <2>3. CASE Framed
    <3>1. AreFrames(under') /\ AreFrames(arrived')
      BY <1>1, <2>3 DEF Framed, AreFrames
    <3>2. jobs[1] = "frame" /\ AreFrames(jobs')
      <4>1. \A i \in 1 .. Len(jobs) : jobs[i] = "frame"
        BY <2>3 DEF Framed, AreFrames
      <4>2. \A i \in 1 .. Len(jobs) - 1 : i + 1 \in 1 .. Len(jobs)
        BY <1>3, <2>1
      <4>3. \A i \in 1 .. Len(jobs) - 1 : jobs'[i] = "frame"
        BY <1>3, <2>1, <4>1, <4>2
      <4>4. 1 \in 1 .. Len(jobs)
        BY <1>3, <2>1
      <4>. QED  BY <1>3, <2>1, <4>1, <4>3, <4>4 DEF AreFrames
    <3>3. AnswerFirst'
      <4>1. /\ Len(answered) > 0 /\ answered[1] = FirstPacket[speaks]
            /\ \A i \in 2 .. Len(answered) : answered[i] = "frame"
        BY <2>3 DEF Framed, AnswerFirst
      <4>2. Len(answered') > 0 /\ answered'[1] = FirstPacket[speaks']
        BY <1>1, <1>3, <2>1, <4>1
      <4>3. \A i \in 2 .. Len(answered') : answered'[i] = "frame"
        BY <1>3, <2>1, <3>2, <4>1
      <4>. QED  BY <4>2, <4>3 DEF AnswerFirst
    <3>4. framesSent' = Len(under') + Len(arrived') + Len(jobs') + (Len(answered') - 1)
      <4>1. framesSent = Len(under) + Len(arrived) + Len(jobs) + (Len(answered) - 1)
        BY <2>3 DEF Framed
      <4>2. Len(jobs') = Len(jobs) - 1 /\ Len(answered') = Len(answered) + 1
        BY <1>3, <2>1
      <4>. QED  BY <1>1, <1>3, <2>1, <4>1, <4>2
    <3>5. Framed'
      BY <1>1, <2>3, <3>1, <3>2, <3>3, <3>4 DEF Framed
    <3>. QED  BY <1>3, <2>1, <3>5 DEF Progress
  <2>. QED  BY <1>3, <2>1, <2>2, <2>3 DEF Progress, Opened
<1>. QED  BY <1>2, <1>4, <1>5 DEF ChoiceInv

LEMMA SendFrameKeepsChoice == ASSUME ChoiceInv, SendFrame PROVE ChoiceInv'
<1>1. /\ "handshake" \in ToSet(answered) /\ framesSent' = framesSent + 1 /\ under' = Append(under, "frame")
      /\ UNCHANGED <<speaks, arrived, first, toDecode, session, handshaked, jobs, answered, shut>>
  BY DEF SendFrame
<1>2. speaks' \in Protocols /\ FirstRead'
  BY <1>1 DEF ChoiceInv, FirstRead
<1>3. ASSUME ChoiceTypes
      PROVE  /\ ChoiceTypes' /\ \E i \in 1 .. Len(answered) : answered[i] = "handshake"
             /\ Len(answered) \in Nat /\ Len(under) \in Nat /\ Len(arrived) \in Nat /\ Len(jobs) \in Nat
             /\ framesSent \in Nat
             /\ Len(under') = Len(under) + 1 /\ under'[Len(under) + 1] = "frame"
             /\ \A i \in 1 .. Len(under) : under'[i] = under[i]
  <2>1. under \in Seq(Tokens) /\ "frame" \in Tokens /\ framesSent \in Nat /\ answered \in Seq(OpeningPackets)
    BY <1>3, TokensAre DEF ChoiceTypes
  <2>2. /\ under' \in Seq(Tokens) /\ Len(under') = Len(under) + 1
        /\ under'[Len(under) + 1] = "frame"
        /\ \A i \in 1 .. Len(under) : under'[i] = under[i]
    BY <1>1, <2>1, AppendProperties
  <2>3. ChoiceTypes'
    BY <1>1, <1>3, <2>1, <2>2 DEF ChoiceTypes
  <2>4. \E i \in 1 .. Len(answered) : answered[i] = "handshake"
    BY <1>1, <2>1 DEF ToSet
  <2>. QED  BY <1>3, <2>1, <2>2, <2>3, <2>4 DEF ChoiceTypes
<1>4. first' # 0
  BY <1>1, <1>3 DEF ChoiceInv, Unread, OpeningUnread
<1>5. ASSUME session' = speaks' PROVE ChoiceTypes' /\ Progress'
  <2>1. ChoiceTypes /\ Framed
    BY <1>1, <1>3, <1>5 DEF ChoiceInv, Progress, Opened, OpeningUnread, OpeningAtWork
  <2>2. FirstPacket[speaks] = "handshake"
    BY <1>3, <2>1 DEF Framed, AnswerFirst
  <2>3. speaks = "ws"
    BY <1>1, <1>2, <2>2, ProtocolsAre, FirstPackets
  <2>4. AreFrames(under')
    <3>1. \A i \in 1 .. Len(under) : under[i] = "frame"
      BY <2>1 DEF Framed, AreFrames
    <3>. QED  BY <1>3, <2>1, <3>1 DEF AreFrames
  <2>5. AreFrames(arrived') /\ AreFrames(jobs') /\ AnswerFirst'
    BY <1>1, <2>1 DEF Framed, AreFrames, AnswerFirst
  <2>6. framesSent' = Len(under') + Len(arrived') + Len(jobs') + (Len(answered') - 1)
    <3>1. framesSent = Len(under) + Len(arrived) + Len(jobs) + (Len(answered) - 1)
      BY <2>1 DEF Framed
    <3>. QED  BY <1>1, <1>3, <2>1, <3>1
  <2>7. Framed'
    BY <1>1, <2>1, <2>3, <2>4, <2>5, <2>6 DEF Framed
  <2>. QED  BY <1>3, <2>1, <2>7 DEF Progress
<1>. QED  BY <1>2, <1>4, <1>5 DEF ChoiceInv

LEMMA ChoiceInductive == ChoiceSpec => []ChoiceInv
<1>1. ChoiceInit => ChoiceInv
  <2>. SUFFICES ASSUME ChoiceInit PROVE ChoiceInv
    OBVIOUS
  <2>1. /\ speaks \in Protocols /\ under = Opening[speaks] /\ arrived = <<>> /\ first = 0 /\ toDecode = FALSE
        /\ session = "none" /\ handshaked = FALSE /\ jobs = <<>> /\ answered = <<>> /\ framesSent = 0 /\ shut = FALSE
    BY DEF ChoiceInit
  <2>2. Opening[speaks] \in Seq(Tokens) /\ Len(Opening[speaks]) \in Nat /\ speaks # "none"
    BY <2>1, Openings, ProtocolsAre
  <2>3. ChoiceTypes
    <3>1. <<>> \in Seq(Tokens) /\ <<>> \in Seq(OpeningPackets) /\ 0 \in Nat
      OBVIOUS
    <3>2. under \in Seq(Tokens) /\ arrived \in Seq(Tokens) /\ jobs \in Seq(OpeningPackets) /\ answered \in Seq(OpeningPackets)
      BY <2>1, <2>2, <3>1, Zenon
    <3>3. framesSent \in Nat /\ toDecode \in BOOLEAN /\ handshaked \in BOOLEAN /\ shut \in BOOLEAN
      BY <2>1, <3>1, Zenon
    <3>. QED  BY <2>1, <3>2, <3>3, Zenon DEF ChoiceTypes
  <2>4. Len(arrived) = 0 /\ Len(jobs) = 0 /\ Len(answered) = 0
    BY <2>1
  <2>5. Joined(Opening[speaks], arrived, under)
    BY <2>1, <2>2, <2>4 DEF Joined
  <2>6. Unread
    BY <2>1, <2>4, <2>5 DEF Unread, OpeningUnread
  <2>7. FirstRead
    BY <2>1, <2>2 DEF FirstRead
  <2>. QED  BY <2>1, <2>2, <2>3, <2>6, <2>7 DEF ChoiceInv
<1>2. ASSUME ChoiceInv, [ChoiceNext]_choiceVars PROVE ChoiceInv'
  <2>1. CASE ChoiceNext
    BY <1>2, <2>1, ReadSomeKeepsChoice, ReadDecodeKeepsChoice, ShakeKeepsChoice, AnswerJobKeepsChoice,
       SendFrameKeepsChoice DEF ChoiceNext
  <2>2. CASE UNCHANGED choiceVars
    <3>1. UNCHANGED <<speaks, under, arrived, first, toDecode, session, handshaked, jobs, answered, framesSent, shut>>
      BY <2>2 DEF choiceVars
    <3>. QED  BY <1>2, <3>1 DEF ChoiceInv, ChoiceTypes, FirstRead, Unread, OpeningUnread, Progress, Opened,
              OpeningAtWork, Framed, AreFrames, AnswerFirst
  <2>. QED  BY <1>2, <2>1, <2>2
<1>. QED  BY <1>1, <1>2, PTL DEF ChoiceSpec

(* What the first decode finds decides, for every number of frames: with    *)
(* the whole opening in it, or the first byte of a TCP packet, a connection *)
(* is not closed, gets the protocol it speaks and, once quiet, has had all  *)
(* its packets answered; only an opening cut after the Host line is taken   *)
(* for another's.  (ImServerAioHandler.decode, ImKit.protocol,              *)
(* HandshakeReqHandler.handler.)                                            *)
THEOREM ChoiceFirstReadDecides == ChoiceSpec => []FirstReadDecides
<1>1. ASSUME ChoiceInv PROVE FirstReadDecides
  <2>. DEFINE o == Opening[speaks]
           b == SubSeq(o, 1, first)
  <2>1. /\ speaks \in Protocols /\ first \in 0 .. Len(o) /\ o \in Seq(Tokens) /\ Len(o) \in 2 .. 7
        /\ first = 0 => session = "none" /\ ~shut /\ ChoiceTypes /\ Unread
        /\ first > 0 => session = Choice(b) /\ (shut => session = "none") /\ (~shut => session # "none")
    BY <1>1, Openings DEF ChoiceInv, FirstRead
  <2>2. first > 0 => BeginOf(b, o) /\ Len(b) = first
    <3>. SUFFICES ASSUME first > 0 PROVE BeginOf(b, o) /\ Len(b) = first
      OBVIOUS
    <3>. HIDE DEF o
    <3>1. b \in Seq(Tokens) /\ Len(b) = first /\ \A i \in 1 .. first : b[i] = o[i]
      BY <2>1, PrefixParts
    <3>. HIDE DEF b
    <3>. QED  BY <2>1, <3>1 DEF BeginOf
  <2>3. /\ first > 0 => Choice(b) \in {"none", speaks} \/ (speaks = "ws" /\ Choice(b) = "http" /\ first = 4)
        /\ first > 0 /\ (first = Len(o) \/ speaks = "tcp") => Choice(b) = speaks
    BY <2>1, <2>2, ChoiceOf
  <2>4. speaks # "none" /\ (first = Len(o) => first > 0)
    <3>. HIDE DEF o, b
    <3>1. Len(o) \in 2 .. 7
      BY <2>1
    <3>. QED  BY <2>1, <3>1, ProtocolsAre
  <2>5. shut => ~(first = Len(o) \/ speaks = "tcp")
    BY <2>1, <2>3, <2>4
  <2>6. ASSUME session \notin {"none", speaks}
        PROVE  speaks = "ws" /\ session = "http" /\ first > 0 /\ b = RequestText
    <3>1. speaks = "ws" /\ session = "http" /\ first = 4 /\ first > 0
      BY <2>1, <2>3, <2>6
    <3>2. Len(b) = 4 /\ b \in Seq(Tokens) /\ \A i \in 1 .. 4 : b[i] = o[i]
      BY <2>1, <2>2, <3>1 DEF BeginOf
    <3>3. o[1] = "request" /\ o[2] = "nl" /\ o[3] = "host" /\ o[4] = "nl"
      BY <3>1, WsTokens
    <3>. HIDE DEF b, o
    <3>4. b = RequestText
      BY <3>2, <3>3, RequestTokens, SeqEqual
    <3>. QED  BY <3>1, <3>4
  <2>7. ASSUME Quiet, ~shut, ~(speaks = "ws" /\ session = "http")
        PROVE  answered = <<FirstPacket[speaks]>> \o [i \in 1 .. framesSent |-> "frame"]
    <3>1. under = <<>> /\ toDecode = FALSE /\ jobs = <<>> /\ Len(<<>>) = 0
      BY <2>7 DEF Quiet
    <3>2. Len(under) = 0 /\ Len(jobs) = 0
      BY <3>1
    <3>3. first # 0
      BY <2>1, <3>1, <3>2 DEF Unread, OpeningUnread, Joined
    <3>4. ChoiceTypes /\ Progress
      BY <1>1, <2>1, <2>6, <2>7, <3>3 DEF ChoiceInv
    <3>5. arrived \in Seq(Tokens) /\ answered \in Seq(OpeningPackets) /\ framesSent \in Nat
          /\ Len(arrived) \in Nat /\ Len(answered) \in Nat
      BY <3>4 DEF ChoiceTypes
    <3>6. ~Opened
      BY <3>1, <3>2, <3>5 DEF Opened, OpeningUnread, Joined
    <3>7. Framed
      BY <3>2, <3>4, <3>6 DEF Progress, OpeningAtWork
    <3>. DEFINE x == <<FirstPacket[speaks]>>
             y == [i \in 1 .. framesSent |-> "frame"]
             z == x \o y
    <3>8. x \in Seq(OpeningPackets) /\ Len(x) = 1 /\ x[1] = FirstPacket[speaks]
      BY <2>1, FirstPackets
    <3>9. y \in Seq(OpeningPackets) /\ Len(y) = framesSent /\ \A i \in 1 .. framesSent : y[i] = "frame"
      BY <3>5 DEF OpeningPackets
    <3>. HIDE DEF x, y
    <3>10. z \in Seq(OpeningPackets) /\ Joined(z, x, y)
      BY <3>8, <3>9, ConcatJoins
    <3>. HIDE DEF z
    <3>11. Len(z) = 1 + framesSent /\ z[1] = FirstPacket[speaks]
           /\ \A i \in 1 .. framesSent : z[1 + i] = "frame"
      BY <3>8, <3>9, <3>10 DEF Joined
    <3>12. Len(answered) = 1 + framesSent /\ answered[1] = FirstPacket[speaks]
           /\ \A i \in 2 .. Len(answered) : answered[i] = "frame"
      BY <3>1, <3>2, <3>5, <3>7 DEF Framed, AnswerFirst
    <3>13. \A i \in 1 .. Len(answered) : answered[i] = z[i]
      <4>. SUFFICES ASSUME NEW i \in 1 .. Len(answered), i # 1 PROVE answered[i] = z[i]
        BY <3>11, <3>12
      <4>. DEFINE k == i - 1
      <4>1. k \in 1 .. framesSent /\ i = 1 + k /\ i \in 2 .. Len(answered)
        BY <3>5, <3>12
      <4>. HIDE DEF k
      <4>. QED  BY <3>11, <3>12, <4>1
    <3>14. answered = z
      BY <3>5, <3>10, <3>11, <3>12, <3>13, SeqEqual
    <3>. QED  BY <3>14 DEF x, y, z
  <2>. QED  BY <2>5, <2>6, <2>7 DEF FirstReadDecides
<1>. QED  BY <1>1, ChoiceInductive, PTL
-----------------------------------------------------------------------------
(* StaticRes *)

(* Bytes are no older than the date that goes with them to a browser, and   *)
(* no newer than the date that goes with them into the cache.               *)
Aged304 ==
  /\ cached # Absent => cached.lm <= cached.body /\ cached.body <= cached.at
  /\ \A b \in Browsers :
       /\ copy[b] # Absent => copy[b].lm <= copy[b].body
       /\ get[b].pc = "bytes" => get[b].lm <= file
       /\ get[b].pc \in {"dateAgain", "put"} => get[b].lm <= get[b].body /\ get[b].body <= file
       /\ get[b].pc = "put" => get[b].body <= get[b].at

\* A request asks about the copy its browser still has.
AsksForCopy ==
  \A b \in Browsers :
    get[b].pc # "idle" /\ get[b].ims # Absent => copy[b] # Absent /\ get[b].ims = copy[b].lm

Gets == [pc: {"idle", "cache", "date", "bytes", "dateAgain", "put"},
         ims: Dates304 \union {Absent}, lm: Dates304, body: Dates304, at: Dates304]

StaticIInv ==
  /\ StaticTypeOK /\ get \in [Browsers -> Gets]
  /\ Aged304 /\ AsksForCopy
  /\ NotModifiedIsTrue
-----------------------------------------------------------------------------
LEMMA StaticInitial == StaticInit => StaticIInv
BY StaticAssumption
   DEF StaticInit, StaticIInv, StaticTypeOK, Gets, Idle304, Aged304, AsksForCopy,
       NotModifiedIsTrue, Dates304

(* An answer ends a request of b and changes no other; the copy it leaves   *)
(* and what it tells are sound when what it is made of is.                  *)
LEMMA Answer304Keeps ==
  ASSUME StaticIInv, NEW b \in Browsers, NEW d \in Dates304, NEW s \in Dates304,
         get[b].pc # "idle", Unmodified(b, d), s <= d, Answer304(b, s),
         UNCHANGED <<file, cached>>
  PROVE  StaticIInv'
<1> USE StaticAssumption DEF StaticIInv, Answer304, Unmodified, Dates304
<1>1. copy[b] \in Copy /\ s <= copy[b].body
  BY DEF StaticTypeOK, Aged304, AsksForCopy, Gets, Copy
<1>2. StaticTypeOK' /\ (get \in [Browsers -> Gets])'
  BY <1>1 DEF StaticTypeOK, Gets, Idle304, Copy
<1>3. Aged304' /\ AsksForCopy'
  BY DEF Aged304, AsksForCopy, Gets, Idle304
<1>4. NotModifiedIsTrue'
  BY <1>1 DEF NotModifiedIsTrue
<1>5. QED
  BY <1>2, <1>3, <1>4

LEMMA Answer200Keeps ==
  ASSUME StaticIInv, NEW b \in Browsers, NEW body \in Dates304, NEW lm \in Dates304,
         lm <= body, Answer200(b, body, lm),
         UNCHANGED file,
         cached' \in Entry \union {Absent},
         cached' # Absent => cached'.lm <= cached'.body /\ cached'.body <= cached'.at
  PROVE  StaticIInv'
<1> USE StaticAssumption DEF StaticIInv, Answer200, Dates304
<1>1. copy' \in [Browsers -> Copy \union {Absent}]
  BY DEF StaticTypeOK, Copy
<1>2. StaticTypeOK' /\ (get \in [Browsers -> Gets])'
  BY <1>1 DEF StaticTypeOK, Gets, Idle304
<1>3. Aged304'
  BY DEF Aged304, Gets, Idle304, StaticTypeOK
<1>4. AsksForCopy'
  BY DEF AsksForCopy, Gets, Idle304, StaticTypeOK
<1>5. NotModifiedIsTrue'
  BY DEF NotModifiedIsTrue
<1>6. QED
  BY <1>2, <1>3, <1>4, <1>5
-----------------------------------------------------------------------------
LEMMA EnvironmentKeeps ==
  ASSUME StaticIInv, Edit \/ DropCached PROVE StaticIInv'
BY StaticAssumption
   DEF StaticIInv, Edit, DropCached, StaticTypeOK, Gets, Entry, Aged304, AsksForCopy,
       NotModifiedIsTrue, Dates304

LEMMA AskKeeps ==
  ASSUME StaticIInv, NEW b \in Browsers, Ask(b) PROVE StaticIInv'
<1> USE StaticAssumption DEF StaticIInv, Ask, Dates304
<1>1. PICK ims \in {Absent} \union (IF copy[b] = Absent THEN {} ELSE {copy[b].lm}) :
        get' = [get EXCEPT ![b].pc = "cache", ![b].ims = ims]
  OBVIOUS
<1>2. ims \in Dates304 \union {Absent}
  BY DEF StaticTypeOK, Copy
<1>3. get' = [get EXCEPT ![b] = [get[b] EXCEPT !.pc = "cache", !.ims = ims]]
  BY <1>1 DEF Gets
<1>4. StaticTypeOK' /\ (get \in [Browsers -> Gets])'
  <2>1. [get[b] EXCEPT !.pc = "cache", !.ims = ims] \in Gets
    BY <1>2 DEF Gets
  <2>2. get' \in [Browsers -> Gets]
    BY <1>3, <2>1
  <2>3. QED
    BY <2>2 DEF StaticTypeOK, Gets
<1>5. Aged304'
  BY <1>3 DEF Aged304, Gets
<1>6. AsksForCopy'
  BY <1>1, <1>3 DEF AsksForCopy, Gets
<1>7. NotModifiedIsTrue'
  BY DEF NotModifiedIsTrue
<1>8. QED
  BY <1>4, <1>5, <1>6, <1>7

(* A request that goes on without an answer keeps what it asked about.      *)
LEMMA LookUpKeeps ==
  ASSUME StaticIInv, NEW b \in Browsers, LookUp(b) PROVE StaticIInv'
<1>1. CASE cached = Absent
  BY <1>1 DEF LookUp, StaticIInv, StaticTypeOK, Gets, Aged304, AsksForCopy, NotModifiedIsTrue
<1>2. CASE cached # Absent
  <2>1. cached \in Entry /\ cached.body <= cached.at /\ cached.lm <= cached.body
    BY <1>2 DEF StaticIInv, StaticTypeOK, Aged304
  <2>2. CASE Unmodified(b, cached.at)
    BY <1>2, <2>1, <2>2, Answer304Keeps DEF LookUp, Entry
  <2>3. CASE ~Unmodified(b, cached.at)
    BY <1>2, <2>1, <2>3, Answer200Keeps DEF LookUp, Entry
  <2>4. QED
    BY <2>2, <2>3
<1>3. QED
  BY <1>1, <1>2

LEMMA ReadDateKeeps ==
  ASSUME StaticIInv, NEW b \in Browsers, ReadDate(b) PROVE StaticIInv'
<1>1. file \in Dates304 /\ file <= file
  BY StaticAssumption DEF StaticIInv, StaticTypeOK, Dates304
<1>2. CASE Unmodified(b, file)
  BY <1>1, <1>2, Answer304Keeps DEF ReadDate
<1>3. CASE ~Unmodified(b, file)
  BY <1>1, <1>3
     DEF ReadDate, StaticIInv, StaticTypeOK, Gets, Aged304, AsksForCopy, NotModifiedIsTrue
<1>4. QED
  BY <1>2, <1>3

LEMMA ReadBytesKeeps ==
  ASSUME StaticIInv, NEW b \in Browsers, ReadBytes(b) PROVE StaticIInv'
<1> USE StaticAssumption DEF StaticIInv, ReadBytes, Dates304
<1>1. file \in Dates304 /\ UNCHANGED <<file, cached, copy, told>>
  BY DEF StaticTypeOK
<1>2. get' = [get EXCEPT ![b] = [get[b] EXCEPT !.pc = "dateAgain", !.body = file]]
  BY DEF Gets
<1>3. get' \in [Browsers -> Gets]
  <2>1. [get[b] EXCEPT !.pc = "dateAgain", !.body = file] \in Gets
    BY <1>1 DEF Gets
  <2>2. QED
    BY <1>2, <2>1
<1>4. StaticTypeOK'
  BY <1>1, <1>3 DEF StaticTypeOK, Gets
<1>5. Aged304'
  BY <1>1, <1>2 DEF Aged304, Gets
<1>6. AsksForCopy'
  BY <1>1, <1>2 DEF AsksForCopy, Gets
<1>7. NotModifiedIsTrue'
  BY <1>1 DEF NotModifiedIsTrue
<1>8. QED
  BY <1>1, <1>3, <1>4, <1>5, <1>6, <1>7

LEMMA DateAgainKeeps ==
  ASSUME StaticIInv, NEW b \in Browsers, DateAgain(b) PROVE StaticIInv'
<1> USE StaticAssumption DEF StaticIInv, DateAgain, Dates304
<1>1. file \in Dates304 /\ UNCHANGED <<file, cached, copy, told>>
  BY DEF StaticTypeOK
<1>2. get' = [get EXCEPT ![b] = [get[b] EXCEPT !.pc = "put", !.at = file]]
  BY DEF Gets
<1>3. get' \in [Browsers -> Gets]
  <2>1. [get[b] EXCEPT !.pc = "put", !.at = file] \in Gets
    BY <1>1 DEF Gets
  <2>2. QED
    BY <1>2, <2>1
<1>4. StaticTypeOK'
  BY <1>1, <1>3 DEF StaticTypeOK, Gets
<1>5. Aged304'
  BY <1>1, <1>2 DEF Aged304, Gets
<1>6. AsksForCopy'
  BY <1>1, <1>2 DEF AsksForCopy, Gets
<1>7. NotModifiedIsTrue'
  BY <1>1 DEF NotModifiedIsTrue
<1>8. QED
  BY <1>1, <1>3, <1>4, <1>5, <1>6, <1>7

LEMMA SendKeeps ==
  ASSUME StaticIInv, NEW b \in Browsers, PutCached(b) \/ SendOnly(b) PROVE StaticIInv'
<1>1. get[b] \in Gets /\ get[b].pc \in {"dateAgain", "put"} /\ get[b].lm <= get[b].body
  BY DEF StaticIInv, Aged304, PutCached, SendOnly
<1>2. CASE PutCached(b)
  <2>1. cached' \in Entry /\ cached'.lm <= cached'.body /\ cached'.body <= cached'.at
    BY <1>1, <1>2 DEF PutCached, StaticIInv, Aged304, Gets, Entry
  <2>2. QED
    BY <1>1, <1>2, <2>1, Answer200Keeps DEF PutCached, Gets
<1>3. CASE SendOnly(b)
  <2>1. cached' \in Entry \union {Absent}
        /\ (cached' # Absent => cached'.lm <= cached'.body /\ cached'.body <= cached'.at)
    BY <1>3 DEF SendOnly, StaticIInv, StaticTypeOK, Aged304
  <2>2. QED
    BY <1>1, <1>3, <2>1, Answer200Keeps DEF SendOnly, Gets
<1>4. QED
  BY <1>2, <1>3

LEMMA StaticStep == StaticIInv /\ [StaticNext]_staticVars => StaticIInv'
<1> SUFFICES ASSUME StaticIInv, [StaticNext]_staticVars PROVE StaticIInv'
  OBVIOUS
<1>1. CASE Edit \/ DropCached
  BY <1>1, EnvironmentKeeps
<1>2. ASSUME NEW b \in Browsers,
             \/ Ask(b) \/ LookUp(b)
             \/ ReadDate(b) \/ ReadBytes(b) \/ DateAgain(b) \/ PutCached(b) \/ SendOnly(b)
      PROVE  StaticIInv'
  BY <1>2, AskKeeps, LookUpKeeps, ReadDateKeeps, ReadBytesKeeps, DateAgainKeeps, SendKeeps
<1>3. CASE UNCHANGED staticVars
  BY <1>3 DEF staticVars, StaticIInv, StaticTypeOK, Aged304, AsksForCopy, NotModifiedIsTrue
<1>4. QED
  BY <1>1, <1>2, <1>3 DEF StaticNext

(* For any browsers, requests and changes of the file, "not modified" is    *)
(* told only to a browser whose copy is as new as the server's answer would *)
(* have been.  (HttpResps.file, DefaultHttpRequestHandler.handler.)         *)
THEOREM NeverStale304 == StaticSpec => []NotModifiedIsTrue
<1>1. StaticIInv => NotModifiedIsTrue
  BY DEF StaticIInv
<1>2. QED
  BY <1>1, StaticInitial, StaticStep, PTL DEF StaticSpec

(* A browser's copy, the cache's entry and a request's stage have their     *)
(* types, for any browsers, requests and changes.  (HttpResps.file.)        *)
THEOREM StaticTypesHold == StaticSpec => []StaticTypeOK
<1>1. StaticIInv => StaticTypeOK
  BY DEF StaticIInv
<1>2. QED
  BY <1>1, StaticInitial, StaticStep, PTL DEF StaticSpec
-----------------------------------------------------------------------------
(* HttpSessions *)

Known == (1 .. made) \union {NoCookie}
VisitsKnown ==
  [pc: {"idle", "before", "handler", "back"}, sent: Known, mine: Known, set: Known]

SessionTypes ==
  /\ made \in 0 .. MaxSessions
  /\ store \in SUBSET (1 .. made) /\ timedOut \in SUBSET ((1 .. made) \ store)
  /\ cookie \in [Visitors -> Known] /\ used \in [Visitors -> Known]
  /\ overlaps \in SUBSET Visitors /\ keeps \in SUBSET Visitors /\ ended \in SUBSET keeps
  /\ visit \in [Requests -> VisitsKnown]
  /\ \A r \in Requests : /\ visit[r].pc # "back" => visit[r].set = NoCookie
                         /\ visit[r].pc = "handler" => visit[r].mine # NoCookie
  /\ \A v \in Visitors : v \notin keeps => cookie[v] = NoCookie

\* The ids that v's browser or one of its requests has.
Has(v, i) ==
  \/ i = cookie[v]
  \/ \E r \in Requests : VisitorOf[r] = v /\ i \in {visit[r].sent, visit[r].mine, visit[r].set}

\* An id is known to one browser at most: no other can put its session back.
OneOwner == \A i \in Ids, v \in Visitors, w \in Visitors : Has(v, i) /\ Has(w, i) => v = w

OneAtWork ==
  \A r \in Requests, q \in Requests :
    /\ VisitorOf[r] = VisitorOf[q] /\ VisitorOf[r] \notin overlaps
    /\ visit[r].pc # "idle" /\ visit[q].pc # "idle"
    => r = q

\* v's last session is in the store, or was.
Found(v) == used[v] # NoCookie => used[v] \in store \union timedOut

AtRest ==
  \A v \in Visitors \ overlaps :
    (\A r \in Requests : VisitorOf[r] = v => visit[r].pc = "idle") => Named(v) /\ Found(v)

\* v's cookie is the one that came with r, unless that has ended since.
Came(r) ==
  LET v == VisitorOf[r] IN
  cookie[v] = visit[r].sent \/ (cookie[v] = NoCookie /\ v \in ended)

Stage(r) ==
  LET v == VisitorOf[r] IN
  /\ visit[r].pc = "before" => Came(r)
  /\ visit[r].pc = "handler" =>
       /\ Came(r) /\ visit[r].mine = used[v] /\ used[v] # NoCookie
       /\ visit[r].sent \in store => visit[r].sent = visit[r].mine
  /\ visit[r].pc = "back" =>
       /\ used[v] # NoCookie /\ Found(v)
       /\ visit[r].set = used[v] \/ (visit[r].set = NoCookie /\ Named(v))

Stages == \A r \in Requests : VisitorOf[r] \notin overlaps => Stage(r)

SessionIInv == SessionTypes /\ OneOwner /\ OneAtWork /\ AtRest /\ Stages
-----------------------------------------------------------------------------
LEMMA SessionInitial == SessionInit => SessionIInv
<1> SUFFICES ASSUME SessionInit PROVE SessionIInv
  OBVIOUS
<1> USE SessionAssumption DEF SessionInit, NoVisit
<1>1. SessionTypes
  BY DEF SessionTypes, Known, VisitsKnown
<1>2. OneOwner
  BY DEF OneOwner, Has, Ids
<1>3. OneAtWork /\ AtRest /\ Stages
  BY DEF OneAtWork, AtRest, Named, Found, Stages, Stage
<1>4. QED
  BY <1>1, <1>2, <1>3 DEF SessionIInv

(* Ids are passed on within one browser's requests; a new one is nobody's.  *)
LEMMA OwnerKept ==
  ASSUME SessionIInv, NEW u \in Visitors, made \in Nat,
         \A i \in Ids, v \in Visitors : Has(v, i)' => Has(v, i) \/ (i > made /\ v = u)
  PROVE  OneOwner'
<1> SUFFICES ASSUME NEW i \in Ids, NEW v \in Visitors, NEW w \in Visitors, Has(v, i)', Has(w, i)'
             PROVE  v = w
  BY DEF OneOwner
<1>1. ASSUME NEW x \in Visitors, Has(x, i) PROVE i <= made
  BY <1>1, SessionAssumption DEF SessionIInv, SessionTypes, Known, VisitsKnown, Has, Ids
<1>2. CASE i > made
  BY <1>1, <1>2 DEF Ids
<1>3. CASE ~(i > made)
  BY <1>3 DEF SessionIInv, OneOwner
<1>4. QED
  BY <1>2, <1>3
-----------------------------------------------------------------------------
LEMMA SendRequestKeeps ==
  ASSUME SessionIInv, NEW r \in Requests, SendRequest(r) PROVE SessionIInv'
<1> DEFINE v == VisitorOf[r]
           x == [visit[r] EXCEPT !.pc = "before", !.sent = cookie[v]]
<1> USE SessionAssumption
<1>1. v \in Visitors /\ visit[r].pc = "idle" /\ UNCHANGED <<store, made, cookie, keeps, used, timedOut, ended>>
  BY DEF SendRequest
<1>2. visit' = [visit EXCEPT ![r] = x]
  BY DEF SendRequest, SessionIInv, SessionTypes, VisitsKnown
<1>3. x \in VisitsKnown /\ x.pc = "before" /\ x.sent = cookie[v] /\ x.set = NoCookie
      /\ x.mine = visit[r].mine
  BY <1>1 DEF SessionIInv, SessionTypes, VisitsKnown
<1>4. \/ overlaps' = overlaps /\ \A q \in Requests : VisitorOf[q] = v => visit[q].pc = "idle"
      \/ overlaps' = overlaps \union {v}
  BY DEF SendRequest, AtWork
<1>5. visit \in [Requests -> VisitsKnown]
  BY DEF SessionIInv, SessionTypes
<1> HIDE DEF x, v
<1>6. SessionTypes'
  BY <1>1, <1>2, <1>3, <1>4 DEF SessionIInv, SessionTypes, Known, VisitsKnown
<1>7. OneOwner'
  <2>1. \A i \in Ids, w \in Visitors : Has(w, i)' => Has(w, i)
    BY <1>1, <1>2, <1>3, <1>5 DEF Has, v, SessionIInv, SessionTypes, Ids
  <2>2. QED
    BY <1>1, <2>1, OwnerKept DEF SessionIInv, SessionTypes
<1>8. OneAtWork'
  BY <1>2, <1>4, <1>5 DEF SessionIInv, OneAtWork, v
<1>9. AtRest'
  BY <1>1, <1>2, <1>3, <1>4, <1>5 DEF SessionIInv, AtRest, Named, Found, v
<1>10. Stages'
  <2> SUFFICES ASSUME NEW q \in Requests, VisitorOf[q] \notin overlaps' PROVE Stage(q)'
    BY DEF Stages
  <2>1. CASE q = r
    BY <1>1, <1>2, <1>3, <1>5, <2>1 DEF Stage, Came, v
  <2>2. CASE q # r
    BY <1>1, <1>2, <1>4, <1>5, <2>2 DEF SessionIInv, Stages, Stage, Came, Named, Found
  <2>3. QED
    BY <2>1, <2>2
<1>11. QED
  BY <1>6, <1>7, <1>8, <1>9, <1>10 DEF SessionIInv

LEMMA BeforeHandlerKeeps ==
  ASSUME SessionIInv, NEW r \in Requests, BeforeHandler(r) PROVE SessionIInv'
<1> DEFINE v == VisitorOf[r]
           s == IF visit[r].sent \in store THEN visit[r].sent ELSE made + 1
           x == [visit[r] EXCEPT !.pc = "handler", !.mine = s]
<1> USE SessionAssumption
<1>1. /\ v \in Visitors /\ visit[r].pc = "before" /\ s \in Ids
      /\ made' = (IF s > made THEN s ELSE made)
      /\ used' = [used EXCEPT ![v] = s]
      /\ UNCHANGED <<store, cookie, keeps, timedOut, ended, overlaps>>
  BY DEF BeforeHandler
<1>2. visit' = [visit EXCEPT ![r] = x]
  BY DEF BeforeHandler, SessionIInv, SessionTypes, VisitsKnown
<1>3. /\ x.pc = "handler" /\ x.sent = visit[r].sent /\ x.set = NoCookie /\ x.mine = s
      /\ x \in [pc: {"idle", "before", "handler", "back"}, sent: Known, mine: Ids, set: Known]
  BY <1>1 DEF SessionIInv, SessionTypes, VisitsKnown
<1>4. visit \in [Requests -> VisitsKnown] /\ made \in 0 .. MaxSessions /\ used \in [Visitors -> Known]
  BY DEF SessionIInv, SessionTypes
<1>5. \/ visit[r].sent \in store /\ s = visit[r].sent /\ made' = made
      \/ visit[r].sent \notin store /\ s = made + 1 /\ made' = made + 1
  <2>1. CASE visit[r].sent \in store
    <3>1. s = visit[r].sent /\ s \in 1 .. made
      BY <2>1 DEF SessionIInv, SessionTypes
    <3>2. QED
      BY <1>1, <1>4, <2>1, <3>1
  <2>2. CASE visit[r].sent \notin store
    <3>1. s = made + 1
      BY <2>2
    <3>2. QED
      BY <1>1, <1>4, <2>2, <3>1
  <2>3. QED
    BY <2>1, <2>2
<1> HIDE DEF x, s, v
<1>6. SessionTypes'
  <2>1. made' \in 0 .. MaxSessions /\ made <= made' /\ s \in 1 .. made'
    BY <1>1, <1>4, <1>5 DEF Ids, SessionIInv, SessionTypes
  <2>2. 1 .. made \subseteq 1 .. made' /\ Known \subseteq Known' /\ s \in Known'
    BY <1>4, <2>1 DEF Known
  <2>3. x \in VisitsKnown' /\ VisitsKnown \subseteq VisitsKnown'
    BY <1>3, <2>2 DEF VisitsKnown
  <2>4. visit' \in [Requests -> VisitsKnown'] /\ used' \in [Visitors -> Known']
    BY <1>1, <1>2, <1>4, <2>2, <2>3
  <2>5. /\ cookie' \in [Visitors -> Known'] /\ overlaps' \in SUBSET Visitors
        /\ keeps' \in SUBSET Visitors /\ ended' \in SUBSET keeps'
        /\ \A w \in Visitors : w \notin keeps' => cookie'[w] = NoCookie
    BY <1>1, <2>2 DEF SessionIInv, SessionTypes
  <2>6. store' \in SUBSET (1 .. made') /\ timedOut' \in SUBSET ((1 .. made') \ store')
    BY <1>1, <2>2 DEF SessionIInv, SessionTypes
  <2>7. \A q \in Requests : /\ visit'[q].pc # "back" => visit'[q].set = NoCookie
                            /\ visit'[q].pc = "handler" => visit'[q].mine # NoCookie
    BY <1>1, <1>2, <1>3, <1>4 DEF SessionIInv, SessionTypes, Ids
  <2>8. QED
    BY <2>1, <2>4, <2>5, <2>6, <2>7 DEF SessionTypes
<1>7. OneOwner'
  <2>1. \A i \in Ids, w \in Visitors : Has(w, i)' => Has(w, i) \/ (i = s /\ w = v)
    <3> SUFFICES ASSUME NEW i \in Ids, NEW w \in Visitors, Has(w, i)'
                 PROVE  Has(w, i) \/ (i = s /\ w = v)
      OBVIOUS
    <3>1. CASE i = cookie[w]
      BY <3>1 DEF Has
    <3>2. CASE i # cookie[w]
      <4>1. PICK q \in Requests : VisitorOf[q] = w
                               /\ i \in {visit'[q].sent, visit'[q].mine, visit'[q].set}
        BY <1>1, <3>2 DEF Has
      <4>2. CASE q = r
        BY <1>2, <1>3, <1>4, <4>1, <4>2 DEF Has, v, Ids
      <4>3. CASE q # r
        BY <1>2, <1>4, <4>1, <4>3 DEF Has
      <4>4. QED
        BY <4>2, <4>3
    <3>3. QED
      BY <3>1, <3>2
  <2>2. s > made \/ Has(v, s)
    BY <1>4, <1>5 DEF Has, v
  <2>3. QED
    BY <1>1, <1>4, <2>1, <2>2, OwnerKept
<1>8. OneAtWork'
  BY <1>1, <1>2, <1>3, <1>4 DEF SessionIInv, OneAtWork
<1>9. AtRest'
  BY <1>1, <1>2, <1>3, <1>4 DEF SessionIInv, AtRest, Named, Found, v
<1>10. Stages'
  <2> SUFFICES ASSUME NEW q \in Requests, VisitorOf[q] \notin overlaps' PROVE Stage(q)'
    BY DEF Stages
  <2>1. CASE q = r
    <3>1. Came(r)
      BY <1>1, <2>1 DEF SessionIInv, Stages, Stage, v
    <3>2. s # NoCookie
      BY <1>1 DEF Ids
    <3>3. QED
      BY <1>1, <1>2, <1>3, <1>4, <1>5, <2>1, <3>1, <3>2 DEF Stage, Came, v
  <2>2. CASE q # r
    <3>1. CASE VisitorOf[q] = v
      BY <1>1, <1>2, <1>4, <2>2, <3>1 DEF SessionIInv, OneAtWork, Stage, v
    <3>2. CASE VisitorOf[q] # v
      BY <1>1, <1>2, <1>4, <2>2, <3>2 DEF SessionIInv, Stages, Stage, Came, Named, Found
    <3>3. QED
      BY <3>1, <3>2
  <2>3. QED
    BY <2>1, <2>2
<1>11. QED
  BY <1>6, <1>7, <1>8, <1>9, <1>10 DEF SessionIInv
-----------------------------------------------------------------------------
(* Putting r's session into the store harms nobody's handler, r's own not   *)
(* when it has its session from the cookie, or no other.                    *)
LEMMA StoringKeeps ==
  ASSUME SessionIInv, NEW r \in Requests, visit[r].pc = "handler", Stored(visit[r].mine),
         NEW q \in Requests, VisitorOf[q] \notin overlaps, visit[q].pc = "handler",
         visit[q].sent \in store'
  PROVE  visit[q].sent = visit[q].mine
<1> USE SessionAssumption
<1>1. CASE visit[q].sent \in store
  BY <1>1 DEF SessionIInv, Stages, Stage
<1>2. CASE visit[q].sent \notin store
  <2>1. visit[q].sent = visit[r].mine
    BY <1>2 DEF Stored
  <2>2. visit[q].sent \in Ids
    <3>1. visit[r].mine \in Known /\ visit[r].mine # NoCookie /\ made \in 0 .. MaxSessions
      BY DEF SessionIInv, SessionTypes, VisitsKnown
    <3>2. QED
      BY <2>1, <3>1 DEF Known, Ids
  <2>3. VisitorOf[q] = VisitorOf[r]
    BY <2>1, <2>2 DEF SessionIInv, OneOwner, Has
  <2>4. q = r
    BY <2>3 DEF SessionIInv, OneAtWork
  <2>5. QED
    BY <2>1, <2>4
<1>3. QED
  BY <1>1, <1>2

LEMMA SetAttributeKeeps ==
  ASSUME SessionIInv, NEW r \in Requests, SetAttribute(r) PROVE SessionIInv'
<1> USE SessionAssumption DEF SetAttribute
<1>1. visit[r].mine \in 1 .. made /\ made \in Nat
  BY DEF SessionIInv, SessionTypes, VisitsKnown, Known
<1>2. SessionTypes'
  BY <1>1 DEF Stored, SessionIInv, SessionTypes, Known, VisitsKnown
<1>3. OneOwner' /\ OneAtWork'
  BY DEF SessionIInv, OneOwner, Has, OneAtWork
<1>4. ASSUME NEW v \in Visitors, Found(v) PROVE Found(v)'
  BY <1>4 DEF Found, Stored
<1>5. AtRest'
  BY <1>4 DEF SessionIInv, AtRest, Named
<1>6. Stages'
  <2> SUFFICES ASSUME NEW q \in Requests, VisitorOf[q] \notin overlaps PROVE Stage(q)'
    BY DEF Stages
  <2>1. Stage(q)
    BY DEF SessionIInv, Stages
  <2>2. VisitorOf[q] \in Visitors
    OBVIOUS
  <2>3. QED
    BY <1>4, <2>1, <2>2, StoringKeeps DEF Stage, Came, Named
<1>7. QED
  BY <1>2, <1>3, <1>5, <1>6 DEF SessionIInv

LEMMA AfterHandlerKeeps ==
  ASSUME SessionIInv, NEW r \in Requests, AfterHandler(r) PROVE SessionIInv'
<1> DEFINE v == VisitorOf[r]
           x == [visit[r] EXCEPT !.pc = "back",
                   !.set = IF visit[r].sent \in store THEN NoCookie ELSE visit[r].mine]
<1> USE SessionAssumption
<1>1. /\ v \in Visitors /\ visit[r].pc = "handler"
      /\ UNCHANGED <<made, cookie, keeps, used, ended, overlaps>>
  BY DEF AfterHandler
<1>2. /\ visit \in [Requests -> VisitsKnown] /\ visit[r].set = NoCookie
      /\ visit[r].mine \in 1 .. made /\ made \in Nat
  BY <1>1 DEF SessionIInv, SessionTypes, VisitsKnown, Known
<1>3. visit' = [visit EXCEPT ![r] = x]
  BY <1>2 DEF AfterHandler, VisitsKnown
<1>4. /\ x \in VisitsKnown /\ x.pc = "back" /\ x.sent = visit[r].sent /\ x.mine = visit[r].mine
      /\ x.set = (IF visit[r].sent \in store THEN NoCookie ELSE visit[r].mine)
  <2>1. visit[r] \in VisitsKnown /\ visit[r].mine \in Known /\ NoCookie \in Known
    BY <1>2 DEF Known
  <2>2. (IF visit[r].sent \in store THEN NoCookie ELSE visit[r].mine) \in Known
    BY <2>1
  <2>3. QED
    BY <2>1, <2>2 DEF VisitsKnown
<1>5. \/ visit[r].sent \notin store /\ Stored(visit[r].mine)
      \/ visit[r].sent \in store /\ UNCHANGED <<store, timedOut>>
  BY DEF AfterHandler
<1> HIDE DEF x, v
<1>6. SessionTypes'
  <2>1. store' \in SUBSET (1 .. made') /\ timedOut' \in SUBSET ((1 .. made') \ store')
    BY <1>1, <1>2, <1>5 DEF Stored, SessionIInv, SessionTypes
  <2>2. visit' \in [Requests -> VisitsKnown]
    BY <1>2, <1>3, <1>4
  <2>3. QED
    BY <1>1, <1>2, <1>3, <1>4, <2>1, <2>2 DEF SessionIInv, SessionTypes, Known, VisitsKnown
<1>7. OneOwner'
  <2>1. \A i \in Ids, w \in Visitors : Has(w, i)' => Has(w, i)
    BY <1>1, <1>2, <1>3, <1>4 DEF Has, Ids
  <2>2. QED
    BY <1>1, <1>2, <2>1, OwnerKept
<1>8. OneAtWork'
  BY <1>1, <1>2, <1>3, <1>4 DEF SessionIInv, OneAtWork
<1>9. ASSUME NEW w \in Visitors, Found(w) PROVE Found(w)'
  BY <1>1, <1>5, <1>9 DEF Found, Stored
<1>10. AtRest'
  BY <1>1, <1>2, <1>3, <1>4, <1>9 DEF SessionIInv, AtRest, Named
<1>11. Stages'
  <2> SUFFICES ASSUME NEW q \in Requests, VisitorOf[q] \notin overlaps PROVE Stage(q)'
    BY <1>1 DEF Stages
  <2>1. Stage(q) /\ VisitorOf[q] \in Visitors
    BY DEF SessionIInv, Stages
  <2>2. CASE q = r
    <3>1. /\ used[v] # NoCookie /\ used[v] = visit[r].mine /\ Came(r)
          /\ visit[r].sent \in store => visit[r].sent = visit[r].mine
      BY <1>1, <2>1, <2>2 DEF Stage, v
    <3>2. visit[r].mine \in store'
      BY <1>5, <3>1 DEF Stored
    <3>3. QED
      BY <1>1, <1>2, <1>3, <1>4, <2>2, <3>1, <3>2 DEF Stage, Came, Named, Found, v
  <2>3. CASE q # r
    <3>1. visit'[q] = visit[q]
      BY <1>2, <1>3, <2>3
    <3>2. visit[q].pc = "handler" /\ visit[q].sent \in store' => visit[q].sent = visit[q].mine
      BY <1>1, <1>5, <2>1, StoringKeeps DEF Stage
    <3>3. QED
      BY <1>1, <1>9, <2>1, <3>1, <3>2 DEF Stage, Came, Named
  <2>4. QED
    BY <2>2, <2>3
<1>12. QED
  BY <1>6, <1>7, <1>8, <1>10, <1>11 DEF SessionIInv

LEMMA ReceiveAnswerKeeps ==
  ASSUME SessionIInv, NEW r \in Requests, ReceiveAnswer(r) PROVE SessionIInv'
<1> DEFINE v == VisitorOf[r]
           c == IF visit[r].set # NoCookie /\ v \in keeps THEN visit[r].set ELSE cookie[v]
<1> USE SessionAssumption
<1>1. /\ v \in Visitors /\ visit[r].pc = "back" /\ visit' = [visit EXCEPT ![r] = NoVisit]
      /\ UNCHANGED <<store, made, keeps, used, timedOut, overlaps>>
  BY DEF ReceiveAnswer
<1>2. visit \in [Requests -> VisitsKnown] /\ cookie \in [Visitors -> Known]
      /\ ended \in SUBSET keeps /\ (v \notin keeps => cookie[v] = NoCookie)
  BY <1>1 DEF SessionIInv, SessionTypes
<1>3. c \in Known /\ c \in {cookie[v], visit[r].set}
  BY <1>1, <1>2 DEF VisitsKnown
<1>4. /\ cookie' = [cookie EXCEPT ![v] = c]
      /\ ended' = ended \/ (ended' = ended \ {v} /\ c = visit[r].set /\ c # NoCookie /\ v \in keeps)
  BY <1>1, <1>2 DEF ReceiveAnswer
<1>5. v \notin overlaps => Named(v)' /\ Found(v)
  <2>1. ASSUME v \notin overlaps
        PROVE  /\ Found(v) /\ used[v] # NoCookie
               /\ visit[r].set = used[v] \/ (visit[r].set = NoCookie /\ Named(v))
    BY <1>1, <2>1 DEF SessionIInv, Stages, Stage
  <2>2. CASE visit[r].set # NoCookie /\ v \in keeps
    BY <1>1, <1>2, <1>4, <2>1, <2>2 DEF Named
  <2>3. CASE visit[r].set # NoCookie /\ v \notin keeps
    BY <1>1, <1>2, <1>4, <2>1, <2>3 DEF Named
  <2>4. CASE visit[r].set = NoCookie
    <3>1. cookie' = cookie /\ ended' = ended
      BY <2>4 DEF ReceiveAnswer
    <3>2. v \notin overlaps => Named(v)
      BY <2>1, <2>4 DEF Named
    <3>3. QED
      BY <1>1, <2>1, <3>1, <3>2 DEF Named
  <2>5. QED
    BY <2>2, <2>3, <2>4
<1>6. NoVisit \in VisitsKnown /\ NoVisit.pc = "idle" /\ NoVisit.set = NoCookie
      /\ NoVisit.sent = NoCookie /\ NoVisit.mine = NoCookie
  BY DEF NoVisit, VisitsKnown, Known
<1>7. v \notin keeps => c = NoCookie
  BY <1>2
<1> HIDE DEF c, v
<1>8. SessionTypes'
  <2>1. cookie' \in [Visitors -> Known] /\ \A w \in Visitors : w \notin keeps => cookie'[w] = NoCookie
    BY <1>1, <1>2, <1>3, <1>4, <1>7 DEF SessionIInv, SessionTypes
  <2>2. visit' \in [Requests -> VisitsKnown] /\ ended' \in SUBSET keeps
    BY <1>1, <1>2, <1>4, <1>6
  <2>3. \A q \in Requests : /\ visit'[q].pc # "back" => visit'[q].set = NoCookie
                            /\ visit'[q].pc = "handler" => visit'[q].mine # NoCookie
    BY <1>1, <1>2, <1>6 DEF SessionIInv, SessionTypes
  <2>4. QED
    BY <1>1, <2>1, <2>2, <2>3 DEF SessionIInv, SessionTypes, Known, VisitsKnown
<1>9. OneOwner'
  <2>1. \A i \in Ids, w \in Visitors : Has(w, i)' => Has(w, i)
    <3> SUFFICES ASSUME NEW i \in Ids, NEW w \in Visitors, Has(w, i)' PROVE Has(w, i)
      OBVIOUS
    <3>1. CASE i = cookie'[w]
      BY <1>2, <1>3, <1>4, <3>1 DEF Has, v
    <3>2. CASE i # cookie'[w]
      BY <1>1, <1>2, <1>6, <3>2 DEF Has, Ids
    <3>3. QED
      BY <3>1, <3>2
  <2>2. QED
    BY <1>1, <2>1, OwnerKept DEF SessionIInv, SessionTypes
<1>10. OneAtWork'
  BY <1>1, <1>2, <1>6 DEF SessionIInv, OneAtWork
<1>11. ASSUME NEW w \in Visitors, w # v
       PROVE  cookie'[w] = cookie[w] /\ (w \in ended' <=> w \in ended)
  BY <1>2, <1>4, <1>11
<1>12. AtRest'
  <2> SUFFICES ASSUME NEW w \in Visitors \ overlaps,
                      \A q \in Requests : VisitorOf[q] = w => visit'[q].pc = "idle"
               PROVE  Named(w)' /\ Found(w)
    BY <1>1 DEF AtRest, Found
  <2>1. CASE w = v
    BY <1>5, <2>1
  <2>2. CASE w # v
    <3>1. \A q \in Requests : VisitorOf[q] = w => visit[q].pc = "idle"
      BY <1>1, <1>2, <2>2 DEF v
    <3>2. Named(w) /\ Found(w)
      BY <3>1 DEF SessionIInv, AtRest
    <3>3. QED
      BY <1>1, <1>11, <2>2, <3>2 DEF Named
  <2>3. QED
    BY <2>1, <2>2
<1>13. Stages'
  <2> SUFFICES ASSUME NEW q \in Requests, VisitorOf[q] \notin overlaps PROVE Stage(q)'
    BY <1>1 DEF Stages
  <2>1. CASE q = r
    BY <1>1, <1>2, <1>6, <2>1 DEF Stage
  <2>2. CASE q # r /\ VisitorOf[q] = v
    BY <1>1, <1>2, <2>2 DEF SessionIInv, OneAtWork, Stage, v
  <2>3. CASE q # r /\ VisitorOf[q] # v
    <3>1. visit'[q] = visit[q] /\ Stage(q) /\ VisitorOf[q] \in Visitors
      BY <1>1, <1>2, <2>3 DEF SessionIInv, Stages
    <3>2. QED
      BY <1>1, <1>11, <2>3, <3>1 DEF Stage, Came, Named, Found
  <2>4. QED
    BY <2>1, <2>2, <2>3
<1>14. QED
  BY <1>8, <1>9, <1>10, <1>12, <1>13 DEF SessionIInv

(* A cookie that ends leaves its browser excused, between requests and      *)
(* during one.                                                              *)
LEMMA CookieEndsKeeps ==
  ASSUME SessionIInv, NEW v \in Visitors, CookieEnds(v) PROVE SessionIInv'
<1> USE SessionAssumption
<1>1. /\ cookie[v] # NoCookie /\ ended' = ended \union {v}
      /\ UNCHANGED <<store, made, keeps, visit, used, timedOut, overlaps>>
  BY DEF CookieEnds
<1>2. cookie \in [Visitors -> Known] /\ NoCookie \in Known
  BY DEF SessionIInv, SessionTypes, Known
<1>3. \A w \in Visitors : cookie'[w] = IF w = v THEN NoCookie ELSE cookie[w]
  BY <1>2 DEF CookieEnds
<1>4. cookie' \in [Visitors -> Known] /\ v \in keeps
  BY <1>1, <1>2 DEF CookieEnds, SessionIInv, SessionTypes
<1>5. SessionTypes'
  BY <1>1, <1>3, <1>4 DEF SessionIInv, SessionTypes, Known, VisitsKnown
<1>6. OneOwner'
  <2>1. \A i \in Ids, w \in Visitors : Has(w, i)' => Has(w, i)
    BY <1>1, <1>3 DEF Has, Ids
  <2>2. QED
    BY <1>1, <2>1, OwnerKept DEF SessionIInv, SessionTypes
<1>7. OneAtWork'
  BY <1>1 DEF SessionIInv, OneAtWork
<1>8. \A w \in Visitors : Named(w) => Named(w)'
  BY <1>1, <1>3 DEF Named
<1>9. \A q \in Requests : Came(q) => Came(q)'
  BY <1>1, <1>3 DEF Came
<1>10. AtRest'
  BY <1>1, <1>8 DEF SessionIInv, AtRest, Found
<1>11. Stages'
  <2> SUFFICES ASSUME NEW q \in Requests, VisitorOf[q] \notin overlaps PROVE Stage(q)'
    BY <1>1 DEF Stages
  <2>1. Stage(q) /\ VisitorOf[q] \in Visitors
    BY DEF SessionIInv, Stages
  <2>2. QED
    BY <1>1, <1>8, <1>9, <2>1 DEF Stage, Found
<1>12. QED
  BY <1>5, <1>6, <1>7, <1>10, <1>11 DEF SessionIInv

LEMMA TimeOutKeeps ==
  ASSUME SessionIInv, NEW s \in Ids, TimeOut(s) PROVE SessionIInv'
<1> USE SessionAssumption DEF TimeOut
<1>1. SessionTypes'
  BY DEF SessionIInv, SessionTypes, Known, VisitsKnown
<1>2. OneOwner' /\ OneAtWork'
  BY DEF SessionIInv, OneOwner, Has, OneAtWork
<1>3. AtRest' /\ Stages'
  BY DEF SessionIInv, AtRest, Named, Found, Stages, Stage, Came
<1>4. QED
  BY <1>1, <1>2, <1>3 DEF SessionIInv

LEMMA SessionStep == SessionIInv /\ [SessionNext]_sessionVars => SessionIInv'
<1> SUFFICES ASSUME SessionIInv, [SessionNext]_sessionVars PROVE SessionIInv'
  OBVIOUS
<1>1. ASSUME NEW r \in Requests,
             \/ SendRequest(r) \/ BeforeHandler(r) \/ SetAttribute(r)
             \/ AfterHandler(r) \/ ReceiveAnswer(r)
      PROVE  SessionIInv'
  BY <1>1, SendRequestKeeps, BeforeHandlerKeeps, SetAttributeKeeps, AfterHandlerKeeps,
     ReceiveAnswerKeeps
<1>2. CASE UNCHANGED sessionVars
  <2>1. SessionTypes' /\ OneAtWork'
    BY <1>2 DEF sessionVars, SessionIInv, SessionTypes, Known, VisitsKnown, OneAtWork
  <2>2. OneOwner'
    BY <1>2 DEF sessionVars, SessionIInv, OneOwner, Has
  <2>3. AtRest' /\ Stages'
    BY <1>2 DEF sessionVars, SessionIInv, AtRest, Named, Found, Stages, Stage, Came
  <2>4. QED
    BY <2>1, <2>2, <2>3 DEF SessionIInv
<1>3. QED
  BY <1>1, <1>2, CookieEndsKeeps, TimeOutKeeps DEF SessionNext

(* However requests, answers and the ends of sessions and cookies           *)
(* interleave: between the requests of a browser that sends one at a time,  *)
(* its cookie names its last session, or has ended with or before it, or    *)
(* was refused from the start; and the store has that session or has        *)
(* dropped it since.                                                        *)
(* (DefaultHttpRequestHandler, the two processCookie methods.)              *)
THEOREM SessionIsFollowed == SessionSpec => []SessionFollows
<1>1. ASSUME SessionIInv PROVE SessionFollows
  <2> SUFFICES ASSUME NEW v \in Visitors, AtWork(v) = {}, v \notin overlaps
               PROVE  Named(v) /\ Found(v)
    BY DEF SessionFollows, Found
  <2>1. \A r \in Requests : VisitorOf[r] = v => visit[r].pc = "idle"
    BY DEF AtWork
  <2>2. QED
    BY <1>1, <2>1 DEF SessionIInv, AtRest
<1>2. QED
  BY <1>1, SessionInitial, SessionStep, PTL DEF SessionSpec

(* A session that is stored or asked for was made, for any browsers and     *)
(* requests.  (DefaultHttpRequestHandler.createSession.)                    *)
THEOREM SessionTypesHold == SessionSpec => []SessionTypeOK
<1>1. ASSUME SessionIInv PROVE SessionTypeOK
  <2>1. Known \subseteq Ids \union {NoCookie}
    <3>1. made \in Nat /\ made <= MaxSessions
      BY <1>1, SessionAssumption DEF SessionIInv, SessionTypes
    <3>2. QED
      BY <3>1, SessionAssumption DEF Known, Ids
  <2>2. \A r \in Requests :
          /\ visit[r].pc \in {"idle", "before", "handler", "back"}
          /\ {visit[r].sent, visit[r].mine, visit[r].set} \subseteq Known
    BY <1>1 DEF SessionIInv, SessionTypes, VisitsKnown
  <2>3. cookie \in [Visitors -> Ids \union {NoCookie}] /\ used \in [Visitors -> Ids \union {NoCookie}]
    BY <1>1, <2>1 DEF SessionIInv, SessionTypes
  <2>4. \A r \in Requests : {visit[r].sent, visit[r].mine, visit[r].set} \subseteq Ids \union {NoCookie}
    BY <2>1, <2>2
  <2>5. QED
    BY <1>1, <2>2, <2>3, <2>4 DEF SessionIInv, SessionTypes, SessionTypeOK
<1>2. QED
  BY <1>1, SessionInitial, SessionStep, PTL DEF SessionSpec
=============================================================================
