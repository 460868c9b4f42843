----------------------------- MODULE Aggregate ------------------------------
(***************************************************************************)
(* What a query makes of the data points of its series: grouping by tags   *)
(* (Query::create_query_results), aggregation across the series of a group *)
(* (agg/aggregate.cpp) and rates (agg/rate.cpp).  The data points of the   *)
(* series are the input; modules QueryMerge and Downsample say where they  *)
(* come from.                                                              *)
(***************************************************************************)
EXTENDS Stats, FiniteSets

CONSTANTS
  Tasks,        \* inputs: sequences of series, [tags, dps]
  Requests,     \* queries: [agg, n, q, tags, non_grouping, rate]
  CounterMax    \* the largest value of a counter (counterMax)

VARIABLES
  query,        \* the query
  qtv,          \* its tasks
  results,      \* QueryResults
  merging,      \* the group whose data points are being merged, or 0
  idx,          \* the position of the merge in each series of the group
  step          \* "group", "merge", "rate", "done"

avars == <<query, qtv, results, merging, idx, step>>

-----------------------------------------------------------------------------
(* Tags: a queried value is exact, a choice a|b, or a prefix ending in '*', *)
(* which here stands for the values it matches                              *)

Exact(v) == [star |-> FALSE, vals |-> {v}]
Star(vals) == [star |-> TRUE, vals |-> vals]

\* Tag_v2::match() of one tag
match(tags, key, pattern) == key \in DOMAIN tags /\ tags[key] \in pattern.vals

\* QueryResults::add_query_task(): tags shared by the series of a group stay,
\* the others move to the aggregated ones.
add_query_task(res, i) ==
  LET tags == qtv[i].tags
      differing == {k \in DOMAIN tags \cap DOMAIN res.tags :
                      ~ res.tags[k].star /\ res.tags[k] # Exact(tags[k])}
      shared == (DOMAIN res.tags \cup (DOMAIN tags \ res.aggregate_tags)) \ differing
  IN  [res EXCEPT !.tags = [k \in shared |-> IF k \in DOMAIN tags THEN Exact(tags[k]) ELSE res.tags[k]],
                  !.aggregate_tags = @ \cup differing,
                  !.tasks = Append(@, i)]

create_one_query_results == [tags |-> query.tags, aggregate_tags |-> {}, tasks |-> << >>, dps |-> << >>]

\* Does the series belong to the group?  Tags that were not asked for do not
\* matter, nor do those of a filter that does not group.
Belongs(res, i) ==
  \A k \in DOMAIN res.tags \cap DOMAIN query.tags :
    k \in query.non_grouping \/ match(qtv[i].tags, k, res.tags[k])

Grouped(rs, i) ==
  LET at == SelectInSeq(rs, LAMBDA r : Belongs(r, i))
  IN  IF at = 0 THEN Append(rs, add_query_task(create_one_query_results, i))
      ELSE [rs EXCEPT ![at] = add_query_task(@, i)]

\* create_query_results(): without '*' or '|' there is one group.
create_query_results ==
  LET ids == [i \in 1..Len(qtv) |-> i]
  IN  IF \A k \in DOMAIN query.tags : ~ query.tags[k].star
      THEN <<FoldLeft(add_query_task, create_one_query_results, ids)>>
      ELSE FoldLeft(Grouped, << >>, ids)

-----------------------------------------------------------------------------
(* Aggregators *)

is_none == query.agg \in {"none", "top", "bottom"}

\* A result of its own for a series (AggregatorNone, -Top, -Bottom).
Alone(i) == [tags |-> [k \in DOMAIN qtv[i].tags |-> Exact(qtv[i].tags[k])],
             aggregate_tags |-> {}, tasks |-> <<i>>, dps |-> qtv[i].dps]

\* get_max(3), get_min(3): of the last three data points.
LastDps(i) == LET d == qtv[i].dps
                  from == IF Len(d) < 3 THEN 1 ELSE Len(d) - 2
              IN  {d[j][2] : j \in from..Len(d)}
Higher(i, j) == \* compare_less, compare_greater: j may not be above i
  LET a == LastDps(i) b == LastDps(j)
  IN  IF query.agg = "top"
      THEN b = {} \/ \E v \in a : \A w \in b : v >= w
      ELSE b = {} \/ \E v \in a : \A w \in b : v <= w

Taken == {results[r].tasks[1] : r \in 1..Len(results)}

\* One round of AggregatorTop / AggregatorBottom::aggregate(), and a task of
\* AggregatorNone::aggregate().
TakeTask(i) ==
  /\ step = "group"
  /\ is_none
  /\ i \notin Taken
  /\ IF query.agg = "none" THEN i = Len(results) + 1
     ELSE Len(results) < query.n /\ \A j \in (1..Len(qtv)) \ Taken : Higher(i, j)
  /\ results' = Append(results, Alone(i))
  /\ UNCHANGED <<query, qtv, merging, idx, step>>

TakenAll ==
  /\ step = "group"
  /\ is_none
  /\ Len(results) = (IF query.agg # "none" /\ query.n < Len(qtv) THEN query.n ELSE Len(qtv))
  /\ step' = "rate"
  /\ UNCHANGED <<query, qtv, results, merging, idx>>

Group ==
  /\ step = "group"
  /\ ~ is_none
  /\ results' = create_query_results
  /\ merging' = 0
  /\ step' = "merge"
  /\ UNCHANGED <<query, qtv, idx>>

\* The value of add_aggregated() after add_data_point() of these values.
Aggregated(vals) ==
  CASE query.agg = "avg" -> Frac(SumOf(vals), Len(vals))
    [] query.agg = "count" -> Whole(Len(vals))
    [] query.agg = "dev" -> stddev(vals)
    [] query.agg = "max" -> Whole(MaxOf(vals))
    [] query.agg = "min" -> Whole(MinOf(vals))
    [] query.agg = "percentile" -> percentile(vals, query.q)
    [] query.agg = "sum" -> Whole(SumOf(vals))

Sources == [j \in 1..Len(results[merging].tasks) |-> qtv[results[merging].tasks[j]].dps]

NextGroup ==
  /\ step = "merge"
  /\ merging > 0 => \A j \in DOMAIN Sources : idx[j] > Len(Sources[j])
  /\ IF merging < Len(results)
     THEN /\ merging' = merging + 1
          /\ idx' = [j \in 1..Len(results[merging + 1].tasks) |-> 1]
          /\ UNCHANGED step
     ELSE /\ step' = "rate"
          /\ UNCHANGED <<merging, idx>>
  /\ UNCHANGED <<query, qtv, results>>

\* Variant: only the first series with the smallest time moves on.
MovesOne ==
  LET open == {j \in DOMAIN Sources : idx[j] <= Len(Sources[j])}
      ts == MinOf(SetToSeq({Sources[j][idx[j]][1] : j \in open}))
      at == {CHOOSE j \in open : Sources[j][idx[j]][1] = ts}
  IN  [ts |-> ts, at |-> at]

\* The smallest time not yet merged, and the series that have it.
Round ==
  LET open == {j \in DOMAIN Sources : idx[j] <= Len(Sources[j])}
      ts == MinOf(SetToSeq({Sources[j][idx[j]][1] : j \in open}))
      at == {j \in open : Sources[j][idx[j]][1] = ts}
  IN  [ts |-> ts, at |-> at]

\* One round of the loop of Aggregator::merge()
MergeRound ==
  /\ step = "merge"
  /\ merging > 0
  /\ \E j \in DOMAIN Sources : idx[j] <= Len(Sources[j])
  /\ LET r == Round
         js == SelectSeq([j \in 1..Len(idx) |-> j], LAMBDA j : j \in r.at)
         vals == [k \in DOMAIN js |-> Sources[js[k]][idx[js[k]]][2]]
     IN  /\ results' = [results EXCEPT ![merging].dps = Append(@, <<r.ts, Aggregated(vals)>>)]
         /\ idx' = [j \in DOMAIN idx |-> IF j \in r.at THEN idx[j] + 1 ELSE idx[j]]
  /\ UNCHANGED <<query, qtv, merging, step>>

-----------------------------------------------------------------------------
(* Rates *)

Value(v) == IF is_none THEN Whole(v) ELSE v

\* The body of the loop of calculate(), in place: a rate is written over the
\* j-th data point while the i-th is read.
RateStep(s, i) ==
  LET t1 == s.dps[i][1]  v1 == Value(s.dps[i][2])
      delta == Sub(v1, s.v0)
      reset == query.rate.counter /\ delta[1] < 0
      over == Over(IF reset THEN Add(Whole(CounterMax), delta) ELSE delta, t1 - s.t0)
      rate == IF reset /\ query.rate.reset_value # 0 /\ ~ Leq(over, Whole(query.rate.reset_value))
              THEN Whole(0) ELSE over
      skip == reset /\ query.rate.drop_resets
  IN  [s EXCEPT !.t0 = t1, !.v0 = v1, !.j = IF skip THEN @ ELSE @ + 1,
                !.dps = IF skip THEN @ ELSE [@ EXCEPT ![s.j] = <<t1, rate>>]]

calculate(dps) ==
  IF dps = << >> THEN dps
  ELSE LET s0 == [dps |-> dps, t0 |-> dps[1][1], v0 |-> Value(dps[1][2]), j |-> 1]
           s == FoldLeft(RateStep, s0, [i \in 1..(Len(dps) - 1) |-> i + 1])
       IN  SubSeq(s.dps, 1, s.j - 1)

CalculateRate ==
  /\ step = "rate"
  /\ results' = IF query.rate = << >> THEN results
                ELSE [r \in DOMAIN results |-> [results[r] EXCEPT !.dps = calculate(@)]]
  /\ step' = "done"
  /\ UNCHANGED <<query, qtv, merging, idx>>

-----------------------------------------------------------------------------
\* Series that do not match the tags of the query are not among its tasks.
AInit ==
  /\ \E q \in Requests, ts \in Tasks :
       /\ query = q
       /\ qtv = SelectSeq(ts, LAMBDA t : \A k \in DOMAIN q.tags : match(t.tags, k, q.tags[k]))
  /\ results = << >>
  /\ merging = 0
  /\ idx = << >>
  /\ step = "group"

ANext ==
  \/ \E i \in 1..Len(qtv) : TakeTask(i)
  \/ TakenAll
  \/ Group
  \/ NextGroup
  \/ MergeRound
  \/ CalculateRate

ASpec == AInit /\ [][ANext]_avars

-----------------------------------------------------------------------------
(* Properties *)

ValuesAt(tasks, t) ==
  FoldLeft(LAMBDA vals, i : vals \o [k \in DOMAIN SelectSeq(qtv[i].dps, LAMBDA d : d[1] = t) |->
                                       SelectSeq(qtv[i].dps, LAMBDA d : d[1] = t)[k][2]], << >>, tasks)

\* A group has one data point for every time of one of its series, in order,
\* with the aggregate of all values of that time (Aggregator::merge).
MergedExact ==
  (step = "rate" /\ ~ is_none) =>
    \A r \in DOMAIN results :
      LET times == UNION {{qtv[i].dps[j][1] : j \in DOMAIN qtv[i].dps} : i \in ToSet(results[r].tasks)}
          sorted == SortSeq(SetToSeq(times), <)
      IN  results[r].dps = [n \in DOMAIN sorted |->
                              <<sorted[n], Aggregated(ValuesAt(results[r].tasks, sorted[n]))>>]
=============================================================================
