------------------------------- MODULE Stats -------------------------------
(***************************************************************************)
(* The statistics that the aggregators and the downsamplers share          *)
(* (agg/aggregate.cpp): deviation and percentiles, over exact fractions in *)
(* place of doubles.  A deviation is represented by its square.            *)
(***************************************************************************)
EXTENDS Integers, Sequences, SequencesExt

Gcd(a, b) ==
  LET g[x \in Nat, y \in Nat] == IF y = 0 THEN x ELSE g[y, x % y]
  IN  g[IF a < 0 THEN -a ELSE a, b]

\* A fraction in lowest terms with a positive denominator.
Frac(n, d) == LET g == Gcd(n, d) IN <<n \div g, d \div g>>
Whole(n) == <<n, 1>>
Add(p, q) == Frac(p[1] * q[2] + q[1] * p[2], p[2] * q[2])
Sub(p, q) == Frac(p[1] * q[2] - q[1] * p[2], p[2] * q[2])
Mul(p, q) == Frac(p[1] * q[1], p[2] * q[2])
Over(p, n) == Frac(p[1], p[2] * n)
Leq(p, q) == p[1] * q[2] <= q[1] * p[2]

SumOf(vals) == FoldLeft(LAMBDA n, v : n + v, 0, vals)
MaxOf(vals) == CHOOSE v \in ToSet(vals) : \A w \in ToSet(vals) : w <= v
MinOf(vals) == CHOOSE v \in ToSet(vals) : \A w \in ToSet(vals) : v <= w

\* One step of the running mean and of the running sum of squares, with the
\* n-th value x (DownsamplerDev::add_data_point, the loop of stddev()).
Welford(acc, x) ==
  LET n == acc.n + 1
      mean == Add(acc.mean, Over(Sub(Whole(x), acc.mean), n))
  IN  [n |-> n, mean |-> mean,
       m2 |-> Add(acc.m2, Mul(Sub(Whole(x), acc.mean), Sub(Whole(x), mean)))]

FirstValue(x) == [n |-> 1, mean |-> Whole(x), m2 |-> Whole(0)]

Square(acc) == Over(acc.m2, acc.n)

\* AggregatorDev::stddev()
stddev(vals) == Square(FoldLeft(Welford, FirstValue(vals[1]), Tail(vals)))

\* The mean of the squared distances from the mean.
Variance(vals) ==
  LET n == Len(vals)
      squares == SumOf([i \in 1..n |-> vals[i] * vals[i]])
  IN  Frac(n * squares - SumOf(vals) * SumOf(vals), n * n)

\* AggregatorPercentile::percentile() and index(), for a quantile in percent.
percentile(vals, quantile) ==
  LET n == Len(vals)
      sorted == SortSeq(vals, LAMBDA a, b : a < b)
      idx == IF quantile = 0 THEN Whole(0)
             ELSE IF quantile = 100 THEN Whole(n) ELSE Frac(quantile * (n + 1), 100)
      whole == idx[1] \div idx[2]
  IN  IF n = 1 \/ whole < 1 THEN Whole(sorted[1])
      ELSE IF whole >= n THEN Whole(sorted[n])
      ELSE Add(Whole(sorted[whole]),
               Mul(Sub(idx, Whole(whole)), Whole(sorted[whole + 1] - sorted[whole])))
=============================================================================
