----------------------------- MODULE RollupFile -----------------------------
(***************************************************************************)
(* A file of hourly roll-up entries (RollupDataFile in core/mmap.cpp) and  *)
(* the code its entries are stored in (RollupCompressor_v1).  Entries are  *)
(* collected in m_buff and appended to the file when the next one does not *)
(* fit; a reader takes the file in chunks that end wherever they end, and  *)
(* an entry of it says only by its own flags how long it is.               *)
(*                                                                         *)
(* A byte is a digit of base Base.  The widths, and the tests that compare *)
(* them with the bytes left, are those of the code.                        *)
(***************************************************************************)
EXTENDS Integers, Sequences, FiniteSets, SequencesExt

CONSTANTS
  Entries,       \* the entries that may be added
  Base,          \* the values of a byte (256)
  Precision,     \* values are rounded to multiples of this (10^-5)
  BuffSize,      \* the size of m_buff, in the file and in a cursor (4096)
  MaxEntries     \* bound: entries added in a behaviour

VARIABLES
  disk,          \* the bytes of the file
  obj,           \* the RollupDataFile object: how it is open, and m_buff
  added,         \* history: the entries added
  dropped        \* history: m_buff was dropped with an object never opened

fvars == <<disk, obj, added, dropped>>

-----------------------------------------------------------------------------
(* RollupCompressor_v1 *)

\* compress_int16() to compress_int64(): the low w bytes, the highest one first.
Digits(n, w) == [i \in 1..w |-> (n \div Base ^ (w - i)) % Base]

Number(s) == FoldLeft(LAMBDA n, d : Base * n + d, 0, s)

\* uncompress_int16() to uncompress_int64() extend the sign.
SignedNumber(s) == IF 2 * Number(s) >= Base ^ Len(s) THEN Number(s) - Base ^ Len(s) ELSE Number(s)

Fits(n, w) == - (Base ^ w) <= 2 * n /\ 2 * n < Base ^ w

MinWidths == <<2, 3, 4, 8>>
MaxWidths == <<3, 4, 5, 8>>
Width(n, ws) ==
  LET ok == {i \in 1..3 : Fits(n, ws[i])}
  IN  IF ok = {} THEN ws[4] ELSE ws[CHOOSE i \in ok : \A j \in ok : i <= j]

\* llround(x * precision)
Steps(x) == IF x < 0 THEN - ((2 * (-x) + Precision) \div (2 * Precision))
                     ELSE (2 * x + Precision) \div (2 * Precision)

\* The first byte holds the widths; nothing follows a count of zero.
compress(e) ==
  LET flag == [tid |-> IF e.tid < Base ^ 3 THEN 3 ELSE 4,
               cnt |-> IF e.cnt < Base ^ 2 THEN 2 ELSE 4,
               min |-> IF e.cnt = 0 THEN 2 ELSE Width(Steps(e.min), MinWidths),
               max |-> IF e.cnt = 0 THEN 3 ELSE Width(Steps(e.max), MaxWidths),
               sum |-> IF e.cnt = 0 THEN 3 ELSE Width(Steps(e.sum), MaxWidths)]
      head == <<flag>> \o Digits(e.tid, flag.tid) \o Digits(e.cnt, flag.cnt)
  IN  IF e.cnt = 0 THEN head
      ELSE head \o Digits(Steps(e.min), flag.min) \o Digits(Steps(e.max), flag.max)
                \o Digits(Steps(e.sum), flag.sum)

\* Where the fields of an entry begin, after its flags.
CntAt(s) == 1 + s[1].tid
MinAt(s) == CntAt(s) + s[1].cnt
MaxAt(s) == MinAt(s) + s[1].min
SumAt(s) == MaxAt(s) + s[1].max
Field(s, at, w) == [i \in 1..w |-> IF at + i <= Len(s) THEN s[at + i] ELSE 0]
Count(s) == Number(Field(s, CntAt(s), s[1].cnt))

\* Variant: the last field is not asked for.
MissingAllButSum(s) == Len(s) < 6 \/ Len(s) - CntAt(s) < s[1].cnt

\* The tests for "not enough data in the buffer".
Missing(s) ==
  \/ Len(s) < 6
  \/ Len(s) - CntAt(s) < s[1].cnt
  \/ /\ Count(s) # 0
     /\ \/ Len(s) - MinAt(s) < 8
        \/ Len(s) - MaxAt(s) < 6
        \/ s[1].max = 8 /\ Len(s) - MaxAt(s) < 8
        \/ Len(s) - SumAt(s) < s[1].sum

\* The length is 0 when bytes are missing.  An entry that counts nothing has no
\* values: min, max and sum of the result are left as they were.
TooShort == [len |-> 0, entry |-> <<>>]

uncompress(s) ==
  LET tid == Number(Field(s, 1, s[1].tid))
      Value(at, w) == Precision * SignedNumber(Field(s, at, w))
  IN  IF Missing(s) THEN TooShort
      ELSE IF Count(s) = 0 THEN [len |-> MinAt(s), entry |-> [tid |-> tid, cnt |-> 0]]
      ELSE [len |-> SumAt(s) + s[1].sum,
            entry |-> [tid |-> tid, cnt |-> Count(s), min |-> Value(MinAt(s), s[1].min),
                       max |-> Value(MaxAt(s), s[1].max), sum |-> Value(SumAt(s), s[1].sum)]]

-----------------------------------------------------------------------------
(* Readers *)

\* Variant: a chunk is read over what is left of the last one.
RECURSIVE ForgetsRest(_, _)
ForgetsRest(file, cursor) ==
  LET left == SubSeq(cursor.buff, cursor.index + 1, Len(cursor.buff))
      r == IF left = <<>> THEN TooShort ELSE uncompress(left)
      upto == IF cursor.pos + BuffSize < Len(file) THEN cursor.pos + BuffSize ELSE Len(file)
  IN  IF r.len # 0
      THEN <<r.entry>> \o ForgetsRest(file, [cursor EXCEPT !.index = @ + r.len])
      ELSE IF upto = cursor.pos THEN <<>>
      ELSE ForgetsRest(file, [buff |-> SubSeq(file, cursor.pos + 1, upto),
                              index |-> 0, pos |-> upto])

\* next_entry(): what is left of the chunk moves to its beginning and the rest
\* is filled from the file; the end of the file drops what is left.
RECURSIVE next_entry(_, _)
next_entry(file, cursor) ==
  LET left == SubSeq(cursor.buff, cursor.index + 1, Len(cursor.buff))
      r == IF left = <<>> THEN TooShort ELSE uncompress(left)
      size == BuffSize - Len(left)
      upto == IF cursor.pos + size < Len(file) THEN cursor.pos + size ELSE Len(file)
  IN  IF r.len # 0
      THEN <<r.entry>> \o next_entry(file, [cursor EXCEPT !.index = @ + r.len])
      ELSE IF upto = cursor.pos THEN <<>>
      ELSE next_entry(file, [buff |-> left \o SubSeq(file, cursor.pos + 1, upto),
                             index |-> 0, pos |-> upto])

\* first_entry(): reads the first chunk; an entry that is not whole is the end.
first_entry(file) ==
  LET n == IF BuffSize < Len(file) THEN BuffSize ELSE Len(file)
      chunk == SubSeq(file, 1, n)
  IN  IF n = 0 \/ uncompress(chunk).len = 0 THEN <<>>
      ELSE next_entry(file, [buff |-> chunk, index |-> 0, pos |-> n])

\* "look into m_buff..."
RECURSIVE InBuffer(_)
InBuffer(buff) ==
  LET r == IF buff = <<>> THEN TooShort ELSE uncompress(buff)
  IN  IF r.len = 0 THEN <<>>
      ELSE <<r.entry>> \o InBuffer(SubSeq(buff, r.len + 1, Len(buff)))

-----------------------------------------------------------------------------
(* The object *)

Closed == [exists |-> TRUE, mode |-> "closed", buff |-> <<>>]
NoObject == [Closed EXCEPT !.exists = FALSE]

\* close(): without an open file, m_buff stays where it is.
close(o) == IF o.mode = "closed" THEN o ELSE [o EXCEPT !.mode = "closed", !.buff = <<>>]
Saved(o) == IF o.mode = "closed" THEN <<>> ELSE o.buff

\* get_or_create_data_file() and add_data_point().
AddDataPoint(e) ==
  LET bytes == compress(e)
      full == BuffSize < Len(obj.buff) + Len(bytes)
  IN  /\ Len(added) < MaxEntries
      /\ disk' = IF full THEN disk \o obj.buff ELSE disk
      /\ obj' = IF full THEN [exists |-> TRUE, mode |-> "write", buff |-> bytes]
                ELSE [obj EXCEPT !.exists = TRUE, !.buff = @ \o bytes]
      /\ added' = Append(added, e)
      /\ UNCHANGED dropped

\* query(range, map): an object that is not open is opened for reading.
Query ==
  /\ obj.exists \/ disk # <<>>
  /\ obj' = [obj EXCEPT !.exists = TRUE, !.mode = IF @ = "closed" THEN "read" ELSE @]
  /\ UNCHANGED <<disk, added, dropped>>

\* query(data), the reader of the daily roll-up, closes the file at its end.
QueryDaily ==
  /\ obj.exists \/ disk # <<>>
  /\ disk' = disk \o obj.buff
  /\ obj' = Closed
  /\ UNCHANGED <<added, dropped>>

\* close_if_idle() and shutdown(): close() and delete.
Delete ==
  /\ obj.exists
  /\ disk' = disk \o Saved(obj)
  /\ dropped' = (dropped \/ close(obj).buff # <<>>)
  /\ obj' = NoObject
  /\ UNCHANGED added

FInit == disk = <<>> /\ obj = NoObject /\ added = <<>> /\ dropped = FALSE

FNext ==
  \/ \E e \in Entries : AddDataPoint(e)
  \/ Query
  \/ QueryDaily
  \/ Delete

FSpec == FInit /\ [][FNext]_fvars

-----------------------------------------------------------------------------
(* Properties *)

\* An entry as it is stored: rounded, and without values when it counts nothing.
Stored(e) ==
  IF e.cnt = 0 THEN [tid |-> e.tid, cnt |-> 0]
  ELSE [e EXCEPT !.min = Precision * Steps(@), !.max = Precision * Steps(@),
                 !.sum = Precision * Steps(@)]

\* A query reads every entry that was added, in the order of the additions,
\* wherever the chunks of the file end and however often the file was opened for
\* the one use or the other; the one exception is an object that is deleted
\* before its m_buff was ever written out (RollupDataFile::add_data_point,
\* first_entry, next_entry, close).
ReadsWhatWasAdded ==
  ~ dropped =>
    first_entry(disk) \o InBuffer(obj.buff) = [i \in 1..Len(added) |-> Stored(added[i])]

\* A file cut short at any byte, as a crash leaves it, reads as the entries that
\* are whole: no entry is made up from the bytes of a torn one
\* (RollupCompressor_v1::uncompress returns 0 exactly when bytes are missing).
TornTailIsDropped ==
  LET all == first_entry(disk)
      ends == {Len(FlattenSeq([i \in 1..n |-> compress(all[i])])) : n \in 1..Len(all)}
  IN  \A k \in 0..Len(disk) :
        first_entry(SubSeq(disk, 1, k)) =
          SubSeq(all, 1, Cardinality({e \in ends : e <= k}))
=============================================================================
