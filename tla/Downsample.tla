----------------------------- MODULE Downsample -----------------------------
(***************************************************************************)
(* The downsamplers (agg/down.cpp): the points of one series, in the order *)
(* of time, become one point for each interval of the query, and intervals *)
(* without points are filled.  Avg, dev and percentiles hold the current   *)
(* interval back until the next one begins; the others correct the last    *)
(* point they delivered.                                                   *)
(***************************************************************************)
EXTENDS Stats, FiniteSets

CONSTANTS
  Queries,       \* downsampled queries: [fn, q, interval, all, fill, from, to, ms, res_ms]
  PointTimes,    \* times of points, in the resolution of the store
  PointValues,   \* their values
  PerSec,        \* milliseconds of a second (1000)
  SecLimit,      \* MAX_SEC_SINCE_EPOCH: what is below is seconds
  MaxFed         \* bound: points of a behaviour

VARIABLES
  ds,            \* the Downsampler object
  dps,           \* the points delivered
  fed,           \* history: the points given
  phase          \* "feeding", "done"

dvars == <<ds, dps, fed, phase>>

NoTime == -1
NoAcc == <<>>
\* The value of a point that only fills a gap; a value v is <<v>>.
FillValue == <<>>

HoldsBack(d) == d.fn \in {"avg", "dev", "percentile"}

-----------------------------------------------------------------------------
(* Downsampler *)

step_down(d, t) == IF d.all THEN d.start ELSE t - (t % d.interval)

to_sec(t) == IF t > SecLimit THEN t \div PerSec ELSE t
to_ms(t) == IF t < SecLimit THEN t * PerSec ELSE t
resolution(d, t) == IF d.ms THEN to_ms(t) ELSE to_sec(t)

\* initialize(): an interval of zero becomes one, and that of "all" covers the
\* range.
initialize(q) ==
  LET interval == IF q.interval = 0 THEN 1 ELSE q.interval
      from == IF q.all THEN q.from ELSE q.from - (q.from % interval)
  IN  [fn |-> q.fn, q |-> q.q, start |-> q.from, from |-> from, to |-> q.to, fill |-> q.fill,
       ms |-> q.ms, all |-> q.all,
       interval |-> IF q.all THEN q.to - from + 1 ELSE interval,
       last |-> NoTime, acc |-> NoAcc]

\* The points from a up to but not including b, or including it.
Filled(d, a, b) ==
  IF b <= a THEN <<>>
  ELSE [k \in 1..((b - 1 - a) \div d.interval + 1) |->
          <<resolution(d, a + (k - 1) * d.interval), FillValue>>]

fill_to(d, t, out) ==
  LET first == IF d.last # NoTime THEN d.last + d.interval
               ELSE IF d.from < d.start THEN d.from + d.interval ELSE d.from
  IN  IF ~ d.fill THEN out ELSE out \o Filled(d, first, t)

\* The first value of an interval, and one more.
Begin(d, v) ==
  << CASE d.fn = "avg" -> [sum |-> v, n |-> 1]
       [] d.fn = "dev" -> FirstValue(v)
       [] d.fn = "percentile" -> <<v>>
       [] d.fn = "count" -> 1
       [] OTHER -> v >>

More(d, acc, v) ==
  << CASE d.fn = "avg" -> [sum |-> acc.sum + v, n |-> acc.n + 1]
       [] d.fn = "dev" -> Welford(acc, v)
       [] d.fn = "percentile" -> Append(acc, v)
       [] d.fn = "count" -> acc + 1
       [] d.fn = "first" -> acc
       [] d.fn = "last" -> v
       [] d.fn = "max" -> IF v > acc THEN v ELSE acc
       [] d.fn = "min" -> IF v < acc THEN v ELSE acc
       [] d.fn = "sum" -> acc + v >>

\* A roll-up entry in place of its points; only these functions use one.
BeginEntry(d, e) ==
  << CASE d.fn = "avg" -> [sum |-> e.sum, n |-> e.cnt]
       [] d.fn = "count" -> e.cnt
       [] d.fn = "max" -> e.max
       [] d.fn = "min" -> e.min
       [] d.fn = "sum" -> e.sum >>

MoreEntry(d, acc, e) ==
  << CASE d.fn = "avg" -> [sum |-> acc.sum + e.sum, n |-> acc.n + e.cnt]
       [] d.fn = "count" -> acc + e.cnt
       [] d.fn = "max" -> IF e.max > acc THEN e.max ELSE acc
       [] d.fn = "min" -> IF e.min < acc THEN e.min ELSE acc
       [] d.fn = "sum" -> acc + e.sum >>

\* What an interval that was held back is delivered as.
Delivered(d) ==
  << CASE d.fn = "avg" -> Frac(d.acc[1].sum, d.acc[1].n)
       [] d.fn = "dev" -> Square(d.acc[1])
       [] d.fn = "percentile" -> percentile(d.acc[1], d.q) >>

\* add_data_point() of all of them, given the two ways to account for the input.
add_data_point(d, out, t, first, more) ==
  LET cur == step_down(d, t)
      held == IF HoldsBack(d) /\ d.last # NoTime
              THEN Append(out, <<resolution(d, d.last), Delivered(d)>>) ELSE out
      filled == fill_to(d, cur, held)
  IN  IF cur < d.start THEN [d |-> d, out |-> out]
      ELSE IF cur = d.last
      THEN IF HoldsBack(d) THEN [d |-> [d EXCEPT !.acc = more], out |-> out]
           ELSE [d |-> [d EXCEPT !.acc = more], out |-> [out EXCEPT ![Len(out)][2] = more]]
      ELSE [d |-> [d EXCEPT !.acc = first, !.last = cur],
            out |-> IF HoldsBack(d) THEN filled
                    ELSE Append(filled, <<resolution(d, cur), first>>)]

add_point(d, out, t, v) ==
  add_data_point(d, out, t, Begin(d, v), IF d.acc = NoAcc THEN NoAcc ELSE More(d, d.acc[1], v))
add_entry(d, out, t, e) ==
  add_data_point(d, out, t, BeginEntry(d, e),
                 IF d.acc = NoAcc THEN NoAcc ELSE MoreEntry(d, d.acc[1], e))

\* Variant: what is held back at the end is lost.
LastPointLost(d, out) == out

add_last_point(d, out) ==
  IF HoldsBack(d) /\ d.acc # NoAcc THEN Append(out, <<resolution(d, d.last), Delivered(d)>>)
                                   ELSE out

\* fill_if_needed(): goes on from the last point as it was delivered.
fill_if_needed(d, out) ==
  LET all == add_last_point(d, out)
      last == IF all = <<>> THEN d.from ELSE all[Len(all)][1]
  IN  IF ~ d.fill THEN all ELSE all \o Filled(d, last + d.interval, d.to + 1)

-----------------------------------------------------------------------------
(* A query feeds its points, or the entries of its roll-up data *)

Fed(t, vals) == [t |-> t, vals |-> vals]

Feed(t, v) ==
  LET r == add_point(ds, dps, t, v)
  IN  /\ phase = "feeding"
      /\ Len(fed) < MaxFed
      /\ fed # <<>> => fed[Len(fed)].t <= t
      /\ ds' = r.d
      /\ dps' = r.out
      /\ fed' = Append(fed, Fed(t, <<v>>))
      /\ UNCHANGED phase

FeedEntry(t, vals) ==
  LET e == [cnt |-> Len(vals), min |-> MinOf(vals), max |-> MaxOf(vals), sum |-> SumOf(vals)]
      r == add_entry(ds, dps, t, e)
  IN  /\ phase = "feeding"
      /\ ds.fn \in {"avg", "count", "max", "min", "sum"}
      /\ Len(fed) < MaxFed
      /\ fed # <<>> => fed[Len(fed)].t < t
      /\ ds' = r.d
      /\ dps' = r.out
      /\ fed' = Append(fed, Fed(t, vals))
      /\ UNCHANGED phase

Finish ==
  /\ phase = "feeding"
  /\ dps' = fill_if_needed(ds, dps)
  /\ phase' = "done"
  /\ UNCHANGED <<ds, fed>>

DInit ==
  /\ \E q \in Queries : ds = initialize(q)
  /\ dps = <<>>
  /\ fed = <<>>
  /\ phase = "feeding"

DNext ==
  \/ \E t \in PointTimes, v \in PointValues : t >= ds.start /\ t < ds.to /\ Feed(t, v)
  \/ \E t \in PointTimes, v, w \in PointValues : t >= ds.start /\ t < ds.to /\ FeedEntry(t, <<v, w>>)
  \/ Finish

DSpec == DInit /\ [][DNext]_dvars

-----------------------------------------------------------------------------
(* Properties *)

Slot(f) == step_down(ds, f.t)
ValuesIn(slot) ==
  FoldLeft(LAMBDA vals, f : IF Slot(f) = slot THEN vals \o f.vals ELSE vals, <<>>, fed)

\* What the name of the function promises for the values of an interval.
Promised(vals) ==
  CASE ds.fn = "avg" -> Frac(SumOf(vals), Len(vals))
    [] ds.fn = "dev" -> Variance(vals)
    [] ds.fn = "percentile" -> percentile(vals, ds.q)
    [] ds.fn = "count" -> Len(vals)
    [] ds.fn = "first" -> vals[1]
    [] ds.fn = "last" -> vals[Len(vals)]
    [] ds.fn = "max" -> MaxOf(vals)
    [] ds.fn = "min" -> MinOf(vals)
    [] ds.fn = "sum" -> SumOf(vals)

\* When a query is done, each interval that begins in its range and holds points
\* has exactly one value, the one its function promises for all points and
\* roll-up entries of the interval; intervals come in the order of time and no
\* others have a value (Downsampler*::add_data_point, add_last_point).
OneValuePerInterval ==
  phase = "done" =>
    LET slots == {Slot(fed[i]) : i \in 1..Len(fed)}
        kept == {s \in slots : s >= ds.start}
        want == [k \in 1..Cardinality(kept) |->
                   CHOOSE s \in kept : Cardinality({r \in kept : r <= s}) = k]
    IN  SelectSeq(dps, LAMBDA p : p[2] # FillValue) =
          [k \in 1..Len(want) |-> <<resolution(ds, want[k]), <<Promised(ValuesIn(want[k]))>> >>]
=============================================================================
