------------------------------ MODULE NetBytes ------------------------------
(* Numbers on the wire: bytes from 0 to 255, the most significant first.     *)
EXTENDS Integers, Sequences

MaxInt == 2147483647  \* Java's

\* writeUB2WithBigEdian, writeUB4WithBigEdian, ByteBuffer.putInt.
UB2(n) == <<n \div 256, n % 256>>
UB4(n) == UB2(n \div 65536) \o UB2(n % 65536)

\* readUB2WithBigEdian, ByteBuffer.getInt: an int is negative from 2^31 on.
FromUB2(s) == s[1] * 256 + s[2]
FromUB4(s) ==
  (IF s[1] < 128 THEN s[1] ELSE s[1] - 256) * 16777216 + s[2] * 65536 + s[3] * 256 + s[4]

\* A byte has this bit, a power of two.
HasBit(b, bit) == (b \div bit) % 2 = 1
SetBit(b, bit) == IF HasBit(b, bit) THEN b ELSE b + bit
ClearBit(b, bit) == IF HasBit(b, bit) THEN b - bit ELSE b
=============================================================================
