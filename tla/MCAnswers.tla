----------------------------- MODULE MCAnswers -----------------------------
(***************************************************************************)
(* Finite instances, for TLC, of what an answer to a query is made from:   *)
(* downsampling, aggregation, the merge of the pages of a series, the      *)
(* table of tags and its matchers, roll-ups and the calendar they go by,   *)
(* shards and their references, the plan of a query and the query service; *)
(* and of the check-points that leaders are answered with.  A behaviour is *)
(* one of one component, which part names; the others stay as they start.  *)
(***************************************************************************)
EXTENDS Integers, Sequences

CONSTANTS
  Queries, PointTimes, PointValues, PerSec, SecLimit, MaxFed,
  Tasks, Requests, CounterMax,
  Times, TsdbLen, PageCap, MaxWrites,
  Threads, TagLists, Filters, Field, NoField, Growth,
  Series, DayLen, MonthLen, Months, PointHours, Today, BuffEntries, MaxPoints, MaxRestarts,
  Writers, Days, MaxQueries,
  AskedQueries, Absent, ResultLists, BufferSize, Slack,
  Starts, CalendarTimes, Skip,
  NShards, Hour, Day, Intervals, MaxChanges,
  Channels, MaxCp, DayCount, Retain, Digit, MaxClock

VARIABLES
  part,
  ds, dps, fed, phase,
  query, qtv, results, merging, idx, step,
  chain, m_buff, m_ooo_buff, flags, wrote, again, returned, task,
  m_map, m_names, m_next_id, work,
  mgr, hourly, file, daily, rollup_wal, mode, ooo2, pages, marking, received, rolled,
  restarts, lost,
  shards, m_tsdbs, in_buff, ooo_buff, onDisk, writer, reader, rotating, rollup, leaked,
  points, rounds,
  request, parsed, written, error, answer, live, errors,
  m_months, month_answer,
  bits, flagged, dailies, rolling, dailies_written, m_ref_count, planned, tsdbs, at, interval,
  m_dps, steady, thrown, changes,
  m_cps, m_snapshot, m_persisted, cp_files, writing, clock, days, readable, due, rotate,
  stage, cps_received, unflushed, listed, told, resumed, flush_lost, starts

Down == INSTANCE Downsample
Agg == INSTANCE Aggregate
Pages == INSTANCE QueryMerge
Tagging == INSTANCE Tags
Roll == INSTANCE Rollup
Sharding == INSTANCE Shards WITH m_buff <- in_buff, m_ooo_buff <- ooo_buff, query <- reader
Serve == INSTANCE QueryService WITH results <- written
Cal == INSTANCE Calendar WITH Times <- CalendarTimes, answer <- month_answer
Plan == INSTANCE QueryPlan WITH rolled <- dailies_written, m_tsdbs <- planned
Cp == INSTANCE CheckPoints WITH received <- cps_received, lost <- flush_lost, restarts <- starts

-----------------------------------------------------------------------------
(* Values of the constants *)

Downsampling(fn, q, len, all, fill, from, to, ms) ==
  [fn |-> fn, q |-> q, interval |-> len, all |-> all, fill |-> fill, from |-> from,
   to |-> to, ms |-> ms]
Fns == {"avg", "dev", "percentile", "count", "first", "last", "max", "min", "sum"}
EveryDownsampler ==
  {Downsampling(fn, 75, 2, FALSE, TRUE, 3, 8, FALSE) : fn \in Fns}
    \cup {Downsampling(fn, 50, 2, FALSE, FALSE, 4, 9, TRUE) : fn \in Fns}
    \cup {Downsampling("avg", 0, 0, TRUE, FALSE, 3, 8, FALSE),
          Downsampling("max", 0, 3, FALSE, TRUE, 3, 9, TRUE),
          Downsampling("sum", 0, 20, FALSE, TRUE, 30, 60, TRUE),
          Downsampling("sum", 0, 20, FALSE, TRUE, 30, 60, FALSE),
          Downsampling("percentile", 99, 0, FALSE, TRUE, 3, 8, FALSE)}

Answered ==
  {<<>>, <<<<1, 4>>, <<3, 1>>, <<4, 3>>>>, <<<<1, 2>>>>, <<<<2, 1>>, <<3, 5>>, <<5, 2>>, <<6, 6>>>>}
TagsOfThree ==
  {<<[host |-> "a", rack |-> "x"], [host |-> "b", rack |-> "x"],
     [host |-> "a", rack |-> "y", disk |-> "d"]>>,
   <<[host |-> "a", rack |-> "x"], [host |-> "c"],
     [host |-> "b", rack |-> "x", disk |-> "e"]>>}
ThreeTasks ==
  {[i \in 1..3 |-> [tags |-> t[i], dps |-> d[i]]] : t \in TagsOfThree, d \in [1..3 -> Answered]}
NoTags == [k \in {} |-> 0]
NoRate == <<>>
Rate(c, d, v) == [counter |-> c, drop_resets |-> d, reset_value |-> v]
Asks(agg, n, q, tags, ng, rate) ==
  [agg |-> agg, n |-> n, q |-> q, tags |-> tags, non_grouping |-> ng, rate |-> rate]
Asked(star, vals) == [star |-> star, vals |-> vals]
AllHosts == Asked(TRUE, {"a", "b", "c"})
AllRacks == Asked(TRUE, {"x", "y"})
EveryAggregator ==
  {Asks(a, 0, 50, [host |-> AllHosts], {}, NoRate) :
     a \in {"avg", "count", "dev", "max", "min", "percentile", "sum"}}
  \cup {Asks("sum", 0, 0, tags, ng, NoRate) :
          tags \in {NoTags, [host |-> AllHosts, rack |-> AllRacks],
                    [host |-> Asked(TRUE, {"a", "b"}), rack |-> Asked(FALSE, {"x"})]},
          ng \in {{}, {"host"}}}
  \cup {Asks(a, 2, 0, NoTags, {}, rate) :
          a \in {"none", "top", "bottom"},
          rate \in {NoRate, Rate(TRUE, FALSE, 2), Rate(TRUE, TRUE, 0), Rate(FALSE, FALSE, 0)}}
  \cup {Asks("sum", 0, 0, [rack |-> AllRacks], {}, Rate(TRUE, TRUE, 0))}

FiveLists ==
  {<<<<10, 20>>, <<11, 21>>>>, <<<<11, 21>>, <<10, 20>>>>,
   <<<<12, 20>>, <<10, 20>>, <<11, 21>>>>, <<<<10, 23>>, <<5, 6>>>>,
   <<<<10, 20>>, <<11, 21>>, <<5, 7>>>>}
Filter(k, kind, vals) == [key |-> k, kind |-> kind, vals |-> vals]
ElevenFilters ==
  {<<Filter(10, "exact", {20})>>, <<Filter(10, "choice", {22, 23}), Filter(11, "any", {})>>,
   <<Filter(10, "prefix", {20, 22})>>, <<Filter(9, "any", {})>>,
   <<Filter(10, "choice", {20, 99})>>, <<Filter(12, "exact", {99})>>,
   <<Filter(11, "exact", {21}), Filter(12, "prefix", {20})>>, <<Filter(10, "any", {})>>,
   <<>>, <<Filter(11, "exact", {21}), Filter(10, "exact", {20})>>,
   <<Filter(10, "exact", {20}), Filter(5, "exact", {7}), Filter(11, "exact", {21})>>}

Options(c, max, reset, drop) ==
  [counter |-> c, counter_max |-> max, reset_value |-> reset, drop_resets |-> drop]
Ask(m, a, d, r, u, e) ==
  [metric |-> m, aggregator |-> a, downsample |-> d, rate |-> r, usage |-> u, explicit |-> e,
   tags |-> {"h"}]
FiveQueries ==
  {Ask("m", "avg", "1h-avg", <<>>, Absent, FALSE),
   Ask("m", "avg", Absent, <<Options(TRUE, "9", Absent, TRUE)>>, "ROLLUP_RAW", FALSE),
   Ask("m", "sum", "1d-sum", <<Options(TRUE, "9", "1", FALSE)>>, "ROLLUP_RAW", FALSE),
   Ask("m", Absent, "1h-avg", <<>>, Absent, TRUE),
   Ask(Absent, "avg", Absent, <<>>, Absent, FALSE)}
Result(head, n, full, short) ==
  [head |-> head, dps |-> [i \in 1..n |-> [full |-> full, short |-> short]]]
FiveResults ==
  {<<>>, <<Result(3, 1, 4, 2)>>, <<Result(3, 0, 4, 2), Result(3, 2, 4, 4)>>,
   <<Result(3, 3, 5, 2)>>, <<Result(3, 2, 4, 3), Result(4, 2, 6, 3)>>}

-----------------------------------------------------------------------------

downvars == <<ds, dps, fed, phase>>
aggvars == <<query, qtv, results, merging, idx, step>>
pagesvars == <<chain, m_buff, m_ooo_buff, flags, wrote, again, returned, task>>
tagsvars == <<m_map, m_names, m_next_id, work>>
rollvars ==
  <<mgr, hourly, file, daily, rollup_wal, mode, ooo2, pages, marking, received, rolled,
    restarts, lost>>
shardvars ==
  <<shards, m_tsdbs, in_buff, ooo_buff, onDisk, writer, reader, rotating, rollup, leaked,
    points, rounds>>
servevars == <<request, parsed, written, error, answer, live, errors>>
calendarvars == <<m_months, month_answer>>
planvars ==
  <<bits, flagged, dailies, rolling, dailies_written, m_ref_count, planned, tsdbs, at, interval,
    m_dps, steady, thrown, changes>>
checkvars ==
  <<m_cps, m_snapshot, m_persisted, cp_files, writing, clock, days, readable, due, rotate,
    stage, cps_received, unflushed, listed, told, resumed, flush_lost, starts>>

\* A component that does not run has one initial state.
AnswersInit ==
  /\ part \in {"down", "agg", "pages", "tags", "roll", "shards", "serve", "cal", "plan", "cp"}
  /\ IF part = "down" THEN Down!DInit
     ELSE /\ ds = Down!initialize(Downsampling("avg", 0, 0, TRUE, FALSE, 3, 8, FALSE))
          /\ dps = <<>> /\ fed = <<>> /\ phase = "feeding"
  /\ IF part = "agg" THEN Agg!AInit
     ELSE /\ query = Asks("sum", 0, 0, NoTags, {}, NoRate) /\ qtv = <<>> /\ results = <<>>
          /\ merging = 0 /\ idx = <<>> /\ step = "group"
  /\ Pages!QMInit /\ Tagging!TInit /\ Roll!RInit /\ Sharding!ShInit /\ Serve!SInit
  /\ Cal!CalInit /\ Plan!PInit /\ Cp!CpInit
  /\ part = "plan" \/ \A s \in 1..NShards : bits[s] = {}
  /\ part = "cp" \/ readable = {}

\* Everything but the variables of the component that runs is unchanged.
OthersUnchanged ==
  /\ UNCHANGED part
  /\ IF part = "down" THEN TRUE ELSE UNCHANGED downvars
  /\ IF part = "agg" THEN TRUE ELSE UNCHANGED aggvars
  /\ IF part = "pages" THEN TRUE ELSE UNCHANGED pagesvars
  /\ IF part = "tags" THEN TRUE ELSE UNCHANGED tagsvars
  /\ IF part = "roll" THEN TRUE ELSE UNCHANGED rollvars
  /\ IF part = "shards" THEN TRUE ELSE UNCHANGED shardvars
  /\ IF part = "serve" THEN TRUE ELSE UNCHANGED servevars
  /\ IF part = "cal" THEN TRUE ELSE UNCHANGED calendarvars
  /\ IF part = "plan" THEN TRUE ELSE UNCHANGED planvars
  /\ IF part = "cp" THEN TRUE ELSE UNCHANGED checkvars

AnswersNext ==
  /\ OthersUnchanged
  /\ \/ part = "down" /\ Down!DNext
     \/ part = "agg" /\ Agg!ANext
     \/ part = "pages" /\ Pages!QMNext
     \/ part = "tags" /\ Tagging!TNext
     \/ part = "roll" /\ Roll!RNext
     \/ part = "shards" /\ Sharding!ShNext
     \/ part = "serve" /\ Serve!SNext
     \/ part = "cal" /\ Cal!CalNext
     \/ part = "plan" /\ Plan!PNext
     \/ part = "cp" /\ Cp!CpNext

AnswersSpec ==
  /\ AnswersInit
  /\ [][AnswersNext]_<<part, downvars, aggvars, pagesvars, tagsvars, rollvars, shardvars,
                        servevars, calendarvars, planvars, checkvars>>

-----------------------------------------------------------------------------
(* Properties, as the modules state them *)

\* Downsampler: a value for each interval, of the points in it.
OneValuePerInterval == part = "down" => Down!OneValuePerInterval

\* Aggregator: one value for each time, of all series that have one.
MergedExact == part = "agg" => Agg!MergedExact

\* QueryTask: a time is delivered once, in order, with the value written last.
NewestWins == part = "pages" => Pages!NewestWins

\* Tag_v2: two threads agree on the id of a name.
IdsAreNames == part = "tags" => Tagging!IdsAreNames

\* Mapping: a query finds the series it describes.
QueriesFindTheirSeries == part = "tags" => Tagging!QueriesFindTheirSeries

\* RollupManager: an hour that is read back counts the points of the hour.
HourlyExact == part = "roll" => Roll!HourlyExact

\* RollupDataFile: a day counts what its hours count.
DailyCountsDays == part = "roll" => Roll!DailyCountsDays

\* Tsdb: the reference count of a shard counts its holders.
RefsAreHolders == part = "shards" => Sharding!RefsAreHolders

\* QueryExecutor: an answer is whole and of all queries, or refused.
WholeOrRefused == part = "serve" => Serve!WholeOrRefused

\* Calendar: the months remembered are the months there are.
MonthsAreExact == part = "cal" => Cal!MonthsAreExact

\* QuerySuperTask: one source for every steady shard.
EachShardOnce == part = "plan" => Plan!EachShardOnce

\* CheckPointManager: what leaders are told was flushed.
ToldWereFlushed == part = "cp" => Cp!ToldWereFlushed
=============================================================================
