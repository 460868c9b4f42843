---------------------------- MODULE Compressors ----------------------------
(***************************************************************************)
(* The four compressors of a page (core/compress.cpp).  Versions 2 and 3   *)
(* write a stream of bits, which BitSet shows to be a log of bits; version *)
(* 1 writes bytes; version 0 keeps the points as they are, in time order.  *)
(* What uncompress() reads back has to be what compress() was given, also  *)
(* after a page was logged and restored in the middle of its life.         *)
(***************************************************************************)
EXTENDS Codes

CONSTANTS
  Formats,        \* pairs <<version, bytes of the short form of version 1>>
  Start,          \* the beginning of the range of the shard (m_start_tstamp)
  Times, Nums,    \* timestamps and values of the data points
  PageBits,       \* the size of a page in bits, or in bytes for version 1
  PageDps,        \* the size of a page of version 0, in data points
  CountMod,       \* m_dp_count is a uint16_t: 2^16
  MaxDps          \* bound: data points given in a behaviour

VARIABLES
  cz,             \* the compressor
  logged,         \* the page as it was written to the append log, or none
  given           \* the data points accepted, in the order of their arrival

cvars == <<cz, logged, given>>

NoPage == [bits |-> <<>>, given |-> <<>>]

\* The window of version 2 before any value: no value fits into it.
NoWindow == [lz |-> ValueBits + 1, tz |-> ValueBits + 1, nz |-> ValueBits]

\* Compressor_v*::init() and recycle().
Empty(format) ==
  [ver |-> format[1], short |-> format[2], bits |-> <<>>, count |-> 0,
   prev_t |-> Start, prev_d |-> 0, prev_v |-> 0,
   lz |-> NoWindow.lz, tz |-> NoWindow.tz, nz |-> NoWindow.nz, full |-> FALSE]

-----------------------------------------------------------------------------
(* compress() *)

First(c, t, v) ==
  IF c.ver = 1 THEN ToBytes(t - Start, LongBytes) \o ToBytes(v, ValueBytes)
               ELSE Bits(t - Start, FirstBits) \o Bits(v, ValueBits)

compress1(c, t, v) ==
  [c EXCEPT !.bits = First(c, t, v), !.prev_t = t, !.prev_d = t - Start,
            !.prev_v = v, !.count = 1]

\* The code of a timestamp, as the difference to the previous difference.
TimeCode(c, t) ==
  LET dod == t - c.prev_t - c.prev_d
  IN  IF c.ver = 1 THEN CompressDod(dod, c.short) ELSE CompressInt(dod)

\* The code of a value, and the window of version 2 after it.
ValueCode(c, v) ==
  LET same == [lz |-> c.lz, tz |-> c.tz, nz |-> c.nz]
  IN  CASE c.ver = 1 ->
             [bits |-> CompressBytes(ToBytes(XorNum(v, c.prev_v), ValueBytes)), win |-> same]
        [] c.ver = 2 ->
             LET x == CompressXor(c, v)
             IN  [bits |-> x.bits, win |-> [lz |-> x.lz, tz |-> x.tz, nz |-> x.nz]]
        [] c.ver = 3 ->
             [bits |-> CompressNum(v - c.prev_v), win |-> same]

\* The bits fit, or the stream goes back to the check point; versions 2 and 3
\* have by then moved on to the new timestamp if its own code did fit.
compressN(c, t, v) ==
  LET tc == TimeCode(c, t)
      vc == ValueCode(c, v)
      Moved == [c EXCEPT !.prev_t = t, !.prev_d = t - c.prev_t]
  IN  IF Len(c.bits) + Len(tc) + Len(vc.bits) <= PageBits
      THEN [Moved EXCEPT !.bits = @ \o tc \o vc.bits, !.prev_v = v,
                         !.lz = vc.win.lz, !.tz = vc.win.tz, !.nz = vc.win.nz,
                         !.count = (@ + 1) % CountMod]
      ELSE IF c.ver # 1 /\ Len(c.bits) + Len(tc) <= PageBits
      THEN [Moved EXCEPT !.full = TRUE]
      ELSE [c EXCEPT !.full = TRUE]

\* Variant: a late point goes before those of the same time.
InsertsBefore(c, t, v) ==
  LET n == Cardinality({i \in 1..Len(c.bits) : c.bits[i][1] < t})
  IN  [c EXCEPT !.bits = SubSeq(@, 1, n) \o <<<<t, v>>>> \o SubSeq(@, n + 1, Len(@))]

\* Version 0: append, or insert behind the points that are not later.
compress0(c, t, v) ==
  LET n == Cardinality({i \in 1..Len(c.bits) : c.bits[i][1] <= t})
  IN  IF c.bits = <<>> \/ c.bits[Len(c.bits)][1] <= t
      THEN [c EXCEPT !.bits = Append(@, <<t, v>>)]
      ELSE [c EXCEPT !.bits = SubSeq(@, 1, n) \o <<<<t, v>>>> \o SubSeq(@, n + 1, Len(@))]

-----------------------------------------------------------------------------
(* uncompress(): the points, and the compressor as restore() leaves it *)

\* One more point is read from the rest of the stream.
Decoded(c, rest) ==
  LET tr == IF c.ver = 1 THEN UncompressDod(rest, c.short) ELSE UncompressInt(rest)
      s == SubSeq(rest, tr.len + 1, Len(rest))
      d == c.prev_d + tr.n
      At(v, len) == [c |-> [c EXCEPT !.prev_d = d, !.prev_t = @ + d, !.prev_v = v,
                                     !.count = (@ + 1) % CountMod],
                     rest |-> SubSeq(s, len + 1, Len(s))]
  IN  CASE c.ver = 1 ->
             LET x == UncompressBytes(s) IN At(XorNum(FromBytes(x.x), c.prev_v), x.len)
        [] c.ver = 2 ->
             LET x == UncompressXor(s, c)
                 r == At(x.v, x.len)
             IN  [r EXCEPT !.c.lz = x.lz, !.c.tz = x.tz, !.c.nz = x.nz]
        [] c.ver = 3 ->
             LET x == UncompressNum(s) IN At(c.prev_v + x.n, x.len)

RECURSIVE DecodeRest(_, _, _)
DecodeRest(c, rest, dps) ==
  IF rest = <<>> THEN [c |-> c, dps |-> dps]
  ELSE LET r == Decoded(c, rest)
       IN  DecodeRest(r.c, r.rest, Append(dps, <<r.c.prev_t, r.c.prev_v>>))

\* The window of version 2 is empty while no value has been read.
uncompress(c) ==
  IF c.ver = 0 THEN [c |-> [c EXCEPT !.count = 0], dps |-> c.bits]
  ELSE IF c.bits = <<>> THEN [c |-> c, dps |-> <<>>]
  ELSE LET tw == IF c.ver = 1 THEN LongBytes ELSE FirstBits
           vw == IF c.ver = 1 THEN ValueBytes ELSE ValueBits
           head == SubSeq(c.bits, 1, tw)
           word == SubSeq(c.bits, tw + 1, tw + vw)
           delta == IF c.ver = 1 THEN FromBytes(head) ELSE Unsigned(head)
           v == IF c.ver = 1 THEN FromBytes(word) ELSE Unsigned(word)
           one == [Empty(<<c.ver, c.short>>) EXCEPT
                     !.bits = c.bits, !.prev_t = Start + delta, !.prev_d = delta,
                     !.prev_v = v, !.count = 1, !.lz = 0, !.tz = 0, !.nz = 0]
       IN  DecodeRest(one, SubSeq(c.bits, tw + vw + 1, Len(c.bits)), <<<<Start + delta, v>>>>)

\* save() and append(): the bits up to the position, or the points.
save(c) == c.bits

\* restore() of version 0: the points are copied.
restore0(c, saved) == [c EXCEPT !.bits = saved]

\* restore() of the others: the bits are copied and read, so that the next point is
\* written against the last one.
restore(c, saved) ==
  IF c.ver = 0 THEN restore0(c, saved) ELSE uncompress([c EXCEPT !.bits = saved]).c

Points == uncompress(cz).dps

-----------------------------------------------------------------------------
(* The life of a page *)

\* PageInMemory::add_data_point(): a page that is full is flushed, so that its
\* compressor sees no more points.  What is added after the page was logged is
\* not part of what is restored, so nothing is added then.
Compress(t, v) ==
  /\ ~ cz.full
  /\ logged = NoPage
  /\ Len(given) < MaxDps
  /\ LET dropped == cz.ver # 0 /\ cz.count > 0 /\ cz.prev_t > t
         next == CASE cz.ver = 0 /\ Len(cz.bits) >= PageDps -> [cz EXCEPT !.full = TRUE]
                   [] cz.ver = 0 /\ Len(cz.bits) < PageDps -> compress0(cz, t, v)
                   [] cz.ver # 0 /\ dropped -> cz
                   [] cz.ver # 0 /\ cz.count = 0 -> compress1(cz, t, v)
                   [] OTHER -> compressN(cz, t, v)
     IN  /\ cz' = next
         /\ given' = IF dropped \/ next.full THEN given ELSE Append(given, <<t, v>>)
  /\ UNCHANGED logged

\* PageInMemory::append(): the position and the bytes go to the append log.
LogPage ==
  /\ logged = NoPage
  /\ cz.bits # <<>>
  /\ logged' = [bits |-> save(cz), given |-> given]
  /\ UNCHANGED <<cz, given>>

\* PageInMemory::restore() after a restart.  is_full() is not restored.
RestorePage ==
  /\ logged # NoPage
  /\ cz' = restore(Empty(<<cz.ver, cz.short>>), logged.bits)
  /\ given' = logged.given
  /\ logged' = NoPage

\* PageInMemory::setup_compressor(), after a flush.
Recycled ==
  /\ cz.full
  /\ logged = NoPage
  /\ cz' = Empty(<<cz.ver, cz.short>>)
  /\ given' = <<>>
  /\ UNCHANGED logged

CInit ==
  /\ \E f \in Formats : cz = Empty(f)
  /\ logged = NoPage
  /\ given = <<>>

CNext ==
  \/ \E t \in Times, v \in Nums : Compress(t, v)
  \/ LogPage
  \/ RestorePage
  \/ Recycled

CSpec == CInit /\ [][CNext]_cvars

-----------------------------------------------------------------------------
(* Properties *)

\* The order in which a page must deliver the points: by time, and points of
\* the same time in the order of their arrival.
InTimeOrder(s) ==
  [k \in 1..Len(s) |->
     s[CHOOSE i \in 1..Len(s) :
         Cardinality({j \in 1..Len(s) : \/ s[j][1] < s[i][1]
                                        \/ s[j][1] = s[i][1] /\ j <= i}) = k]]

\* Every page reads back with exactly the timestamps that were accepted, in
\* time order, and in versions 0 to 2 with exactly the values: also when a point
\* did not fit, and when the page was restored from the append log in between
\* (Compressor_v*::compress, uncompress, restore).
RoundTrip ==
  LET want == InTimeOrder(given)
  IN  /\ Len(Points) = Len(want)
      /\ \A k \in 1..Len(want) : /\ Points[k][1] = want[k][1]
                                 /\ cz.ver # 3 => Points[k] = want[k]

\* Version 3 cuts every difference to the precision but goes on from the exact
\* value, so errors add up: the k-th value of a page is off by less than k - 1
\* steps of the precision, and by no more (Compressor_v3::compress(double)).
DriftIsBounded ==
  cz.ver = 3 =>
    \A k \in 1..Len(given) :
      Abs(Points[k][2] - given[k][2]) <= (k - 1) * (SubUnit - 1)
=============================================================================
