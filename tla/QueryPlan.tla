------------------------------ MODULE QueryPlan ------------------------------
(***************************************************************************)
(* Where a query takes its answer from (QuerySuperTask::perform in         *)
(* core/query.cpp): the points themselves, the hourly or the daily         *)
(* roll-up.  The daily plan reads the daily files of the whole range, then *)
(* walks its shards from the oldest to the newest and tests the mode of    *)
(* each several times, each time under the lock of the shard and none      *)
(* between, while points arrive and a month of shards is rolled up.  Every *)
(* shard carries a reference that must be given back once, also when an    *)
(* allocation throws.                                                      *)
(*                                                                         *)
(* The query is of one series, which has points in every shard.  Its       *)
(* downsampler puts what it is given into m_dps at once, as all but avg    *)
(* do; avg keeps its last interval apart.                                  *)
(***************************************************************************)
EXTENDS Integers, Sequences, SequencesExt, FiniteSets, FiniteSetsExt

CONSTANTS
  NShards,       \* shards in the range of the query, 1 the oldest, a day each
  Hour, Day,     \* the roll-up intervals
  Intervals,     \* down-sampling intervals of the query, 0 for none
  MaxChanges     \* bound: points that arrive and roll-ups that begin

VARIABLES
  bits,          \* shard |-> ROLLED_UP and OUT_OF_ORDER bits of m_mode
  flagged,       \* shards where the queried series has its index flag 0x02
  dailies,       \* shard |-> entries of the series in the daily file
  rolling,       \* shards of the month that is rolled up, not yet marked,
  rolled,        \* and are its daily entries written?
  m_ref_count,   \* shard |-> references
  m_tsdbs,       \* shards left to the query
  tsdbs,         \* local vector of query_rollup_daily()
  at,            \* where the query is
  interval,      \* of the downsampler, as use_rollup() left it
  m_dps,         \* shard |-> the sources of its points in the task
  steady,        \* history: shards whose daily entry agreed with ROLLED_UP, at first and since
  thrown,        \* history: did an exception end the query?
  changes

pvars == <<bits, flagged, dailies, rolling, rolled, m_ref_count, m_tsdbs, tsdbs, at, interval,
           m_dps, steady, thrown, changes>>
modes == <<bits, flagged, dailies, rolling, rolled, steady, changes>>

AllShards == 1..NShards

-----------------------------------------------------------------------------
(* use_rollup() *)

\* "round to nearest multiple of rollup_interval"
Rounded(d, r) ==
  LET i == (d \div r) * r
  IN  IF i + r - d < d - i THEN i + r ELSE i

\* usable: the query allows roll-up data, and its downsampler has a roll-up type.
Level(d, usable) ==
  IF d < Hour \/ ~usable THEN "raw" ELSE IF Day <= d THEN "daily" ELSE "hourly"
use_rollup(d, usable) ==
  CASE Level(d, usable) = "raw" -> d
    [] Level(d, usable) = "hourly" -> Rounded(d, Hour)
    [] Level(d, usable) = "daily" -> Rounded(d, Day)

-----------------------------------------------------------------------------
(* The plan *)

can_use_rollup(s, level2) ==
  (level2 => "ROLLED_UP" \in bits[s]) /\ "OUT_OF_ORDER" \notin bits[s]
has_daily_rollup(s) == "ROLLED_UP" \in bits[s]

\* The flag of the queried series in the index file of shard s.
get_out_of_order2(s) == s \in flagged
set_out_of_order2(s) == flagged \cup {s}

Release(ss) == [s \in AllShards |-> IF s \in ss THEN m_ref_count[s] - 1 ELSE m_ref_count[s]]

\* The shard in which the interval of shard s begins: all points of an interval bear
\* its time.
Begin(s) == IF interval <= Day THEN s ELSE s - ((s - 1) % (interval \div Day))

\* Points of the shards ss are added to the task.
Add(dps, ss, source) ==
  [s \in AllShards |-> IF s \in ss THEN Append(dps[s], source) ELSE dps[s]]

\* The points whose time is in shard s go.
remove_dps(dps, s) == [t \in AllShards |-> IF Begin(t) = s THEN <<>> ELSE dps[t]]

\* query_raw() of shard s in place of what the task has of it.
RawInstead(dps, s) == Add(remove_dps(dps, s), {s}, "raw")

\* query_rollup_hourly(): hourly data of all shards; those with late points are
\* asked again, for the series whose flag is not set.
query_rollup_hourly(ss) ==
  FoldLeft(LAMBDA dps, s : IF can_use_rollup(s, FALSE) \/ get_out_of_order2(s) THEN dps
                           ELSE RawInstead(dps, s),
           Add(m_dps, ToSet(ss), "hourly"), ss)

\* RollupManager::query() and query2(): every daily entry of the series in the range.
DailyEntries == [s \in AllShards |-> [i \in 1 .. dailies[s] |-> "daily"]]

\* perform(): Tsdb::insts() refers to every shard of the range.  The daily plan
\* reads the daily files before it looks at any shard.
Perform(d, usable) ==
  /\ at = "new"
  /\ interval' = use_rollup(d, usable)
  /\ m_tsdbs' = [i \in 1..NShards |-> i]
  /\ m_ref_count' = [s \in AllShards |-> m_ref_count[s] + 1]
  /\ at' = IF Level(d, usable) = "daily" THEN "skip" ELSE Level(d, usable)
  /\ m_dps' = IF at' = "skip" THEN DailyEntries ELSE m_dps
  /\ UNCHANGED <<modes, tsdbs, thrown>>

\* query_raw() of every shard.
QueryRaw ==
  /\ at = "raw"
  /\ m_dps' = Add(m_dps, ToSet(m_tsdbs), "raw")
  /\ at' = "done"
  /\ UNCHANGED <<modes, m_ref_count, m_tsdbs, tsdbs, interval, thrown>>

QueryHourly ==
  /\ at = "hourly"
  /\ m_dps' = query_rollup_hourly(m_tsdbs)
  /\ at' = "done"
  /\ UNCHANGED <<modes, m_ref_count, m_tsdbs, tsdbs, interval, thrown>>

\* "if its rollup data is fine, skip it"
SkipUsable ==
  /\ at = "skip"
  /\ IF m_tsdbs # <<>> /\ can_use_rollup(Head(m_tsdbs), TRUE)
     THEN /\ m_ref_count' = Release({Head(m_tsdbs)})
          /\ m_tsdbs' = Tail(m_tsdbs)
          /\ UNCHANGED at
     ELSE at' = "collect" /\ UNCHANGED <<m_ref_count, m_tsdbs>>
  /\ UNCHANGED <<modes, tsdbs, interval, m_dps, thrown>>

\* "look for ones whose daily rollup is not available"
CollectUnavailable ==
  /\ at = "collect"
  /\ IF m_tsdbs # <<>> /\ ~ has_daily_rollup(Head(m_tsdbs))
     THEN /\ tsdbs' = Append(tsdbs, Head(m_tsdbs))
          /\ m_tsdbs' = Tail(m_tsdbs)
          /\ UNCHANGED at
     ELSE at' = "batch" /\ UNCHANGED <<tsdbs, m_tsdbs>>
  /\ UNCHANGED <<modes, m_ref_count, interval, m_dps, thrown>>

\* query_rollup_hourly() of what was collected, and the end of the loop.
HourlyBatch ==
  /\ at = "batch"
  /\ m_dps' = query_rollup_hourly(tsdbs)
  /\ m_ref_count' = Release(ToSet(tsdbs))
  /\ tsdbs' = <<>>
  /\ at' = IF m_tsdbs = <<>> THEN "done" ELSE "front"
  /\ UNCHANGED <<modes, m_tsdbs, interval, thrown>>

\* Variant: the raw points are added to those from the daily file.
FrontKeepsDaily ==
  /\ at = "front"
  /\ LET s == Head(m_tsdbs) IN
       IF can_use_rollup(s, TRUE)
       THEN UNCHANGED <<m_dps, m_ref_count, m_tsdbs>>
       ELSE /\ m_dps' = IF get_out_of_order2(s) THEN m_dps ELSE Add(m_dps, {s}, "raw")
            /\ m_ref_count' = Release({s})
            /\ m_tsdbs' = Tail(m_tsdbs)
  /\ at' = IF m_tsdbs' = <<>> THEN "done" ELSE "skip"
  /\ UNCHANGED <<modes, tsdbs, interval, thrown>>

\* "look for ones with out-of-order data": the shard in front is tested again.
FrontShard ==
  /\ at = "front"
  /\ LET s == Head(m_tsdbs) IN
       IF can_use_rollup(s, TRUE)
       THEN UNCHANGED <<m_dps, m_ref_count, m_tsdbs>>
       ELSE /\ m_dps' = IF get_out_of_order2(s) THEN m_dps ELSE RawInstead(m_dps, s)
            /\ m_ref_count' = Release({s})
            /\ m_tsdbs' = Tail(m_tsdbs)
  /\ at' = IF m_tsdbs' = <<>> THEN "done" ELSE "skip"
  /\ UNCHANGED <<modes, tsdbs, interval, thrown>>

\* An allocation fails in a step that reads data; perform() catches it.
Throw ==
  /\ at \in {"raw", "hourly", "batch", "front"}
  /\ at = "batch" => tsdbs # <<>>
  /\ at = "front" => ~ can_use_rollup(Head(m_tsdbs), TRUE) /\ ~ get_out_of_order2(Head(m_tsdbs))
  /\ thrown' = TRUE
  /\ m_tsdbs' = IF at = "front" THEN Tail(m_tsdbs) ELSE m_tsdbs
  /\ at' = "done"
  /\ UNCHANGED <<modes, m_ref_count, tsdbs, interval, m_dps>>

\* ~QuerySuperTask()
Destroy ==
  /\ at = "done"
  /\ m_ref_count' = Release(ToSet(m_tsdbs))
  /\ m_tsdbs' = <<>>
  /\ at' = "gone"
  /\ UNCHANGED <<modes, tsdbs, interval, m_dps, thrown>>

-----------------------------------------------------------------------------
(* What goes on beside the query *)

query == <<m_tsdbs, tsdbs, at, interval, m_dps, thrown>>
Changes(ss) ==
  /\ at # "gone" /\ changes < MaxChanges
  /\ changes' = changes + 1
  /\ steady' = steady \ ss

\* A point opens a page in the shard (get_last_header_indices()); it may be a late one
\* of this series or of another (set_out_of_order2()).  Its daily entry stays.
PointArrives(s, late) ==
  /\ Changes(IF has_daily_rollup(s) THEN {s} ELSE {})
  /\ bits' = [bits EXCEPT ![s] = (@ \ {"ROLLED_UP"}) \cup
                                 (IF late = "no" THEN {} ELSE {"OUT_OF_ORDER"})]
  /\ flagged' = IF late = "ours" THEN set_out_of_order2(s) ELSE flagged
  /\ UNCHANGED <<dailies, rolling, rolled, m_ref_count, query>>

\* Tsdb::rollup(): the month of the oldest shard that is not rolled up, when none of
\* its shards is in use.
StartRollUp(first, last) ==
  LET due == {s \in AllShards : ~ has_daily_rollup(s)}
      month == first .. last
  IN  /\ rolling = {} /\ due # {} /\ Min(due) \in month
      /\ \A s \in month : m_ref_count[s] = 0
      /\ Changes(month)
      /\ rolling' = month /\ rolled' = FALSE
      /\ m_ref_count' = [s \in AllShards |-> m_ref_count[s] + IF s \in month THEN 1 ELSE 0]
      /\ UNCHANGED <<bits, flagged, dailies, query>>

\* Daily entries of the whole month are appended, also where there are some.
WriteDailies ==
  /\ rolling # {} /\ ~rolled
  /\ dailies' = [s \in AllShards |-> dailies[s] + IF s \in rolling THEN 1 ELSE 0]
  /\ rolled' = TRUE
  /\ UNCHANGED <<bits, flagged, rolling, m_ref_count, steady, changes, query>>

\* One shard after the other is marked.
MarkRolledUp ==
  /\ rolling # {} /\ rolled
  /\ bits' = [bits EXCEPT ![Min(rolling)] = @ \cup {"ROLLED_UP"}]
  /\ m_ref_count' = Release({Min(rolling)})
  /\ rolling' = rolling \ {Min(rolling)}
  /\ UNCHANGED <<flagged, dailies, rolled, steady, changes, query>>

PInit ==
  /\ bits \in [AllShards -> SUBSET {"ROLLED_UP", "OUT_OF_ORDER"}]
  /\ flagged \in SUBSET {s \in AllShards : "OUT_OF_ORDER" \in bits[s]}
  /\ dailies = [s \in AllShards |-> IF has_daily_rollup(s) THEN 1 ELSE 0]
  /\ rolling = {} /\ rolled = FALSE
  /\ m_ref_count = [s \in AllShards |-> 0]
  /\ m_tsdbs = <<>> /\ tsdbs = <<>>
  /\ at = "new"
  /\ interval = 0
  /\ m_dps = [s \in AllShards |-> <<>>]
  /\ steady = AllShards
  /\ thrown = FALSE
  /\ changes = 0

PNext ==
  \/ \E d \in Intervals, usable \in BOOLEAN : Perform(d, usable)
  \/ QueryRaw \/ QueryHourly
  \/ SkipUsable \/ CollectUnavailable \/ HourlyBatch \/ FrontShard
  \/ Destroy
  \/ Throw
  \/ \E s \in AllShards, late \in {"no", "ours", "other"} : PointArrives(s, late)
  \/ \E first, last \in AllShards : StartRollUp(first, last)
  \/ WriteDailies \/ MarkRolledUp

PSpec == PInit /\ [][PNext]_pvars

-----------------------------------------------------------------------------
(* Properties *)

Answered == at \in {"done", "gone"} /\ ~thrown

\* A query with intervals of up to a day that no exception cut short has the points of
\* every steady shard from exactly one source, however the modes of all shards change
\* between the tests of the plan: none is left out and none counted twice
\* (QuerySuperTask::query_rollup_daily()).  A shard is steady when its daily entry
\* agrees with its mode from the start of the query on.
EachShardOnce ==
  Answered /\ interval <= Day => \A s \in steady : Len(m_dps[s]) = 1

\* What the plan says of shards whose daily data it cannot use: "for those with
\* invalid rollup, we'll query hourly/raw instead" (query.cpp:1177), so that no shard is
\* answered from the daily roll-up and another source.
HourlyOrRawInstead ==
  Answered /\ interval <= Day =>
    \A s \in AllShards : "daily" \in ToSet(m_dps[s]) => ToSet(m_dps[s]) = {"daily"}
=============================================================================
