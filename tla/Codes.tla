------------------------------- MODULE Codes -------------------------------
(***************************************************************************)
(* The codes of the compressors (core/compress.cpp): how the difference of *)
(* two timestamps and a value become bits or bytes, and back.              *)
(*                                                                         *)
(* Widths are scaled down and given names.  A value is a number of the     *)
(* smallest unit the model tells apart: Unit of them are 1.0, SubUnit of   *)
(* them are one step of the precision of version 3.                        *)
(***************************************************************************)
EXTENDS Integers, Sequences, FiniteSets

CONSTANTS
  FirstBits,      \* bits of the first timestamp (32 in the code)
  SmallBits,      \* bits of a small number (12 in version 3, 14 in version 2)
  MidBits,        \* bits of a medium number (17)
  LargeBits,      \* bits of a large number (64 and 33)
  Half,           \* bits of half a value (32); a power of two
  HalfLog,        \* its logarithm (5)
  DigitBits,      \* bits of a byte in version 1 (8)
  LongBytes,      \* bytes of an int32_t (4)
  Unit, SubUnit

ValueBits == 2 * Half
Pow2(n) == 2 ^ n

-----------------------------------------------------------------------------
(* Numbers and bits *)

\* The low w bits of n, the most significant one first (htobe*, append()).
Bits(n, w) == [i \in 1..w |-> (n \div Pow2(w - i)) % 2]

RECURSIVE Unsigned(_)
Unsigned(s) == IF s = <<>> THEN 0 ELSE 2 * Unsigned(SubSeq(s, 1, Len(s) - 1)) + s[Len(s)]

\* The masks after a retrieve(): the sign bit is copied to the bits above it.
Signed(s) == IF s[1] = 1 THEN Unsigned(s) - Pow2(Len(s)) ELSE Unsigned(s)

Abs(n) == IF n < 0 THEN -n ELSE n
Trunc(n, d) == IF n < 0 THEN -((-n) \div d) ELSE n \div d
Round(n, d) == IF n < 0 THEN -((2 * (-n) + d) \div (2 * d)) ELSE (2 * n + d) \div (2 * d)
InBits(n, w) == -Pow2(w - 1) <= n /\ n <= Pow2(w - 1) - 1

\* compress(int64_t): a prefix that names the width, then the number.
CompressInt(n) ==
  IF n = 0 THEN <<0>>
  ELSE IF InBits(n, SmallBits) THEN <<1, 0>> \o Bits(n, SmallBits)
  ELSE IF InBits(n, MidBits) THEN <<1, 1, 0>> \o Bits(n, MidBits)
  ELSE <<1, 1, 1>> \o Bits(n, LargeBits)

\* uncompress_i(): the number at the beginning of s, and how long it is.
UncompressInt(s) ==
  LET Number(skip, w) == [n |-> Signed(SubSeq(s, skip + 1, skip + w)), len |-> skip + w]
  IN  IF s[1] = 0 THEN [n |-> 0, len |-> 1]
      ELSE IF s[2] = 0 THEN Number(2, SmallBits)
      ELSE IF s[3] = 0 THEN Number(3, MidBits)
      ELSE Number(3, LargeBits)

-----------------------------------------------------------------------------
(* Values of version 3: differences, cut to the precision *)

\* Variant: the fraction is taken for small, whatever it is.
WholeUnits(d) == <<0>> \o CompressInt(Trunc(d, Unit))

CompressNum(d) ==
  LET f == d - Unit * Trunc(d, Unit)
  IN  IF Abs(f) < SubUnit THEN <<0>> \o CompressInt(Trunc(d, Unit))
                          ELSE <<1>> \o CompressInt(Round(d, SubUnit))

UncompressNum(s) ==
  LET r == UncompressInt(Tail(s))
  IN  [n |-> IF s[1] = 0 THEN r.n * Unit ELSE r.n * SubUnit, len |-> r.len + 1]

-----------------------------------------------------------------------------
(* Values of version 2: the bits that changed, in a window of the word *)

Xor(a, b) == [i \in 1..ValueBits |-> (a[i] + b[i]) % 2]

RECURSIVE Zeros(_)
Zeros(s) == IF s = <<>> \/ s[1] = 1 THEN 0 ELSE 1 + Zeros(Tail(s))

Backward(s) == [i \in 1..Len(s) |-> s[Len(s) + 1 - i]]

\* At most Half - 1 leading zeros and at most Half trailing ones are counted.
LeadingZeros(x) == LET z == Zeros(SubSeq(x, 1, Half)) IN IF z = Half THEN Half - 1 ELSE z
TrailingZeros(x) == Zeros(Backward(SubSeq(x, Half + 1, ValueBits)))

CompressXor(c, v) ==
  LET x == Xor(Bits(v, ValueBits), Bits(c.prev_v, ValueBits))
      l == LeadingZeros(x)
      t == TrailingZeros(x)
      n == ValueBits - l - t
  IN  IF \A i \in 1..ValueBits : x[i] = 0
      THEN [bits |-> <<0>>, lz |-> c.lz, tz |-> c.tz, nz |-> c.nz]
      ELSE IF c.lz > 0 /\ c.lz <= l /\ c.tz <= t
      THEN [bits |-> <<1, 0>> \o SubSeq(x, c.lz + 1, c.lz + c.nz),
            lz |-> c.lz, tz |-> c.tz, nz |-> c.nz]
      ELSE [bits |-> <<1, 1>> \o Bits(l, HalfLog) \o Bits(n, HalfLog + 1)
                       \o SubSeq(x, l + 1, l + n),
            lz |-> l, tz |-> t, nz |-> n]

UncompressXor(s, c) ==
  IF s[1] = 0 THEN [v |-> c.prev_v, lz |-> c.lz, tz |-> c.tz, nz |-> c.nz, len |-> 1]
  ELSE LET own == s[2] = 1
           l == IF own THEN Unsigned(SubSeq(s, 3, 2 + HalfLog)) ELSE c.lz
           k == IF own THEN Unsigned(SubSeq(s, 3 + HalfLog, 3 + 2 * HalfLog)) ELSE c.nz
           n == IF k = 0 THEN ValueBits ELSE k
           at == IF own THEN 3 + 2 * HalfLog ELSE 2
           x == [i \in 1..ValueBits |-> IF l < i /\ i <= l + n THEN s[at + i - l] ELSE 0]
       IN  [v |-> Unsigned(Xor(x, Bits(c.prev_v, ValueBits))),
            lz |-> l, tz |-> ValueBits - (n + l), nz |-> n, len |-> at + n]

-----------------------------------------------------------------------------
(* Version 1: bytes; a number that does not fit is escaped *)

ByteSize == Pow2(DigitBits)

\* n as an integer of w bytes, as stored by the cast to int8_t, int16_t or
\* int32_t, and back.
ToBytes(n, w) == [i \in 1..w |-> (n \div Pow2(DigitBits * (i - 1))) % ByteSize]

RECURSIVE FromBytes(_)
FromBytes(s) == IF s = <<>> THEN 0 ELSE s[1] + ByteSize * FromBytes(Tail(s))

SignedBytes(s) ==
  LET n == FromBytes(s)
      m == Pow2(DigitBits * Len(s))
  IN  IF 2 * n >= m THEN n - m ELSE n

\* The smallest number of the short form announces the long form.
Escape(w) == -Pow2(DigitBits * w - 1)

CompressDod(n, w) ==
  IF Abs(n) > Pow2(DigitBits * w - 1) - 1
  THEN ToBytes(Escape(w), w) \o ToBytes(n, LongBytes)
  ELSE ToBytes(n, w)

UncompressDod(s, w) ==
  LET x == SignedBytes(SubSeq(s, 1, w))
  IN  IF x = Escape(w)
      THEN [n |-> SignedBytes(SubSeq(s, w + 1, w + LongBytes)), len |-> w + LongBytes]
      ELSE [n |-> x, len |-> w]

ValueBytes == ValueBits \div DigitBits

\* The control byte names the bytes that changed; only these follow.
CompressBytes(x) ==
  LET changed == {i \in 1..ValueBytes : x[i] # 0}
      Nth(k) == CHOOSE i \in changed : Cardinality({j \in changed : j <= i}) = k
      control == [i \in 1..ValueBytes |-> IF i \in changed THEN 1 ELSE 0]
  IN  <<control>> \o [k \in 1..Cardinality(changed) |-> x[Nth(k)]]

UncompressBytes(s) ==
  LET changed == {i \in 1..ValueBytes : s[1][i] = 1}
  IN  [x |-> [i \in 1..ValueBytes |->
                IF i \in changed THEN s[1 + Cardinality({j \in changed : j <= i})] ELSE 0],
       len |-> 1 + Cardinality(changed)]

XorNum(a, b) == Unsigned(Xor(Bits(a, ValueBits), Bits(b, ValueBits)))
=============================================================================
