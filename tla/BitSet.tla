------------------------------- MODULE BitSet -------------------------------
(***************************************************************************)
(* BitSet (utils/bitset.cpp): a stream of bits in an array of bytes.  Bits *)
(* are copied byte by byte from a source that starts at an arbitrary       *)
(* offset, to a position that is at an arbitrary offset too, and back.     *)
(*                                                                         *)
(* A byte has ByteBits bits, numbered from the most significant one; the   *)
(* pointers m_cursor and m_end are offsets into the array.  The array is   *)
(* memory from malloc(), so that it starts with any content.               *)
(***************************************************************************)
EXTENDS Naturals, Sequences, FiniteSets

CONSTANTS
  ByteBits,      \* bits in a byte (8 in the code)
  Bytes,         \* m_capacity_in_bytes
  Sources        \* the arrays of bytes whose bits are appended

VARIABLES
  bs,            \* the BitSet: bytes, m_cursor, m_start, m_cp_cursor, m_cp_start
  thrown,        \* append() threw out_of_range; the caller must go back
  image,         \* what copy_to() wrote, with the position that save() stores
  rd,            \* the BitSetCursor of the reader
  out            \* the bits retrieve() delivered

bvars == <<bs, thrown, image, rd, out>>

Offsets == 0 .. ByteBits - 1
LesserOf(a, b) == IF a < b THEN a ELSE b
GreaterOf(a, b) == IF a < b THEN b ELSE a

\* The masks mask_1100[n] and mask_0011[n]: the first n bits of one byte and
\* the others of another one.
Mix(keep, take, n) == [i \in Offsets |-> IF i < n THEN keep[i] ELSE take[i]]

\* byte >> (to - from), or << when from is larger; zeros come in.
Shift(byte, from, to) ==
  [i \in Offsets |-> IF i + from >= to /\ i + from - to < ByteBits
                     THEN byte[i + from - to] ELSE 0]

\* Variant: what is left of the fuller byte is not looked at.
ChunkTooLong(len, from, to) == LesserOf(len, ByteBits - LesserOf(from, to))

\* How many bits the private append() and retrieve() move at once: what is
\* left of the byte they read, of the byte they write and of the request.
Chunk(len, from, to) == LesserOf(len, ByteBits - GreaterOf(from, to))

At(cursor, start, n) ==
  [cursor |-> cursor + (start + n) \div ByteBits, start |-> (start + n) % ByteBits]

-----------------------------------------------------------------------------
(* append() *)

new_cursor == [cursor |-> 0, start |-> 0]

\* append(bits, len, start) for a single byte, all three of its cases.
AppendByte(b, byte, n, start) ==
  LET end == At(b.cursor, b.start, n)
  IN  [b EXCEPT !.mem[b.cursor] = Mix(@, Shift(byte, start, b.start), b.start),
                !.cursor = end.cursor,
                !.start = end.start]

RECURSIVE AppendLoop(_, _, _, _)
AppendLoop(b, src, len, from) ==
  IF len = 0 THEN [b |-> b, thrown |-> FALSE]
  ELSE IF b.cursor = Bytes THEN [b |-> b, thrown |-> TRUE]
  ELSE LET start == from % ByteBits
           n == Chunk(len, start, b.start)
       IN  AppendLoop(AppendByte(b, src[(from \div ByteBits) + 1], n, start),
                      src, len - n, from + n)

\* A reader has its cursor for as long as uncompress() runs; nothing else
\* happens to the BitSet meanwhile, nor to one whose copy is to be read back.
Idle == ~ thrown /\ rd = new_cursor /\ out = <<>> /\ image.offset = 0

AppendBits(src, len, start) ==
  /\ Idle
  /\ LET r == AppendLoop(bs, src, len, start)
     IN  bs' = r.b /\ thrown' = r.thrown
  /\ UNCHANGED <<image, rd, out>>

SaveCheckPoint ==
  /\ Idle
  /\ bs' = [bs EXCEPT !.cp_cursor = bs.cursor, !.cp_start = bs.start]
  /\ UNCHANGED <<thrown, image, rd, out>>

RestoreFromCheckPoint ==
  /\ thrown
  /\ bs' = [bs EXCEPT !.cursor = bs.cp_cursor, !.start = bs.cp_start]
  /\ thrown' = FALSE
  /\ UNCHANGED <<image, rd, out>>

size_in_bits(b) == ByteBits * b.cursor + b.start

size_in_bytes(b) == b.cursor + (IF b.start # 0 THEN 1 ELSE 0)

-----------------------------------------------------------------------------
(* retrieve() *)

RetrieveByte(byte, dst, n, start, c) == Mix(dst, Shift(byte, c.start, start), start)

RECURSIVE RetrieveLoop(_, _, _, _)
RetrieveLoop(c, dst, len, to) ==
  IF len = 0 THEN [c |-> c, dst |-> dst]
  ELSE LET start == to % ByteBits
           n == Chunk(len, c.start, start)
           k == (to \div ByteBits) + 1
       IN  RetrieveLoop(At(c.cursor, c.start, n),
                        [dst EXCEPT ![k] = RetrieveByte(bs.mem[c.cursor], @, n, start, c)],
                        len - n, to + n)

\* The reader of a page asks only for bits that were appended; at the end of
\* the stream retrieve() throws, which tells it to stop.  The destination is
\* an uninitialized variable, of which len bits from start on are used.
AtEnd(c) == c.cursor > bs.cursor \/ (c.cursor = bs.cursor /\ c.start >= bs.start)

RetrieveBits(len, start) ==
  /\ ~ thrown
  /\ image.offset = 0
  /\ ~ AtEnd(rd)
  /\ ByteBits * rd.cursor + rd.start + len <= size_in_bits(bs)
  /\ LET junk == [k \in 1 .. (start + len - 1) \div ByteBits + 1 |-> [i \in Offsets |-> 1]]
         r == RetrieveLoop(rd, junk, len, start)
     IN  /\ rd' = r.c
         /\ out' = [i \in 1..len |-> r.dst[(start + i - 1) \div ByteBits + 1]
                                          [(start + i - 1) % ByteBits]]
  /\ UNCHANGED <<bs, thrown, image>>

NewCursor ==
  /\ ~ thrown
  /\ rd' = new_cursor
  /\ out' = <<>>
  /\ UNCHANGED <<bs, thrown, image>>

-----------------------------------------------------------------------------
(* Copies: a page that is flushed or logged, and read back *)

Fresh(mem) == [mem |-> mem, cursor |-> 0, start |-> 0, cp_cursor |-> 0, cp_start |-> 0]

Recycle ==
  /\ Idle
  /\ bs' = Fresh(bs.mem)
  /\ UNCHANGED <<thrown, image, rd, out>>

\* copy_to() and append(FILE*) copy size_in_bytes() bytes; save() remembers the
\* position as whole bytes and an offset.
CopyTo ==
  /\ Idle
  /\ image' = [mem |-> [i \in 0 .. size_in_bytes(bs) - 1 |-> bs.mem[i]],
               offset |-> size_in_bits(bs) \div ByteBits,
               start |-> size_in_bits(bs) % ByteBits]
  /\ UNCHANGED <<bs, thrown, rd, out>>

\* init() on new memory, then copy_from().
CopyFrom(mem) ==
  /\ image.offset > 0
  /\ LET bytes == image.offset + (IF image.start # 0 THEN 1 ELSE 0)
     IN  bs' = [Fresh([i \in 0 .. Bytes - 1 |-> IF i < bytes THEN image.mem[i] ELSE mem[i]])
                  EXCEPT !.cursor = image.offset, !.start = image.start]
  /\ image' = [mem |-> <<>>, offset |-> 0, start |-> 0]
  /\ UNCHANGED <<thrown, rd, out>>

-----------------------------------------------------------------------------
Memories == {[i \in 0 .. Bytes - 1 |-> [j \in Offsets |-> bit]] : bit \in {0, 1}}

BInit ==
  /\ \E mem \in Memories : bs = Fresh(mem)
  /\ thrown = FALSE
  /\ image = [mem |-> <<>>, offset |-> 0, start |-> 0]
  /\ rd = new_cursor
  /\ out = <<>>

BNext ==
  \/ \E src \in Sources : \E start \in 0 .. ByteBits * Len(src) - 1 :
       \E len \in 1 .. ByteBits * Len(src) - start : AppendBits(src, len, start)
  \/ SaveCheckPoint
  \/ RestoreFromCheckPoint
  \/ \E len \in 1 .. 2 * ByteBits : \E start \in 0 .. ByteBits : RetrieveBits(len, start)
  \/ NewCursor
  \/ Recycle
  \/ CopyTo
  \/ \E mem \in Memories : CopyFrom(mem)

BSpec == BInit /\ [][BNext]_bvars

-----------------------------------------------------------------------------
(* The BitSet as a log of bits *)

BitsOf(mem, n) == [i \in 1..n |-> mem[(i - 1) \div ByteBits][(i - 1) % ByteBits]]

Appended ==
  {[i \in 1..len |-> src[(start + i - 1) \div ByteBits + 1][(start + i - 1) % ByteBits]] :
     <<src, start, len>> \in
       {p \in Sources \X (0 .. 2 * ByteBits) \X (1 .. 2 * ByteBits) :
          p[2] + p[3] <= ByteBits * Len(p[1])}}

Log == INSTANCE BitLog WITH
         Capacity <- ByteBits * Bytes,
         Values <- Appended,
         log <- BitsOf(bs.mem, size_in_bits(bs)),
         mark <- ByteBits * bs.cp_cursor + bs.cp_start,
         kept <- BitsOf(image.mem, ByteBits * image.offset + image.start),
         pos <- ByteBits * rd.cursor + rd.start,
         got <- out

\* A BitSet is a log of bits: whatever the offsets of source and destination
\* are, an append adds exactly the requested bits, after a full buffer the bits
\* before the check point are intact, and what is retrieved, also from a copy
\* in other memory, is what was appended (BitSet::append, retrieve, copy_to and
\* copy_from).
ImplementsBitLog == Log!LSpec
=============================================================================
