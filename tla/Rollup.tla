------------------------------- MODULE Rollup -------------------------------
(***************************************************************************)
(* Roll-up data: what every series counted in each hour, written to one    *)
(* file per month (RollupManager in agg/rollup.cpp, RollupDataFile in      *)
(* core/mmap.cpp), and the daily roll-up made of a month that is over      *)
(* (Tsdb::rollup).  An entry of an hourly file has no time: the k-th entry *)
(* of a series is its k-th hour of the month, so an entry too many or too  *)
(* few moves every later one.  A query reads the files and adds what the   *)
(* RollupManager still holds in memory.                                    *)
(*                                                                         *)
(* Time is counted in hours; every shard (Tsdb) is a day.  Files hold      *)
(* entries, not bytes (RollupFile.tla has those).  The point received n-th *)
(* has the value n.                                                        *)
(***************************************************************************)
EXTENDS Integers, Sequences, SequencesExt, FiniteSets, FiniteSetsExt

CONSTANTS
  Series,        \* time series of one metric: they share the monthly files
  DayLen,        \* hours of a day
  MonthLen,      \* hours of a month
  Months,        \* months modelled: 0 .. Months - 1
  PointHours,    \* hours points may have
  Today,         \* the month of the clock: the months before it are over
  BuffEntries,   \* entries that fit into the m_buff of a file
  MaxPoints,     \* bound: points received
  MaxRestarts    \* bound: orderly restarts

VARIABLES
  mgr,           \* the RollupManager of each series
  hourly,        \* month |-> entries in its file
  file,          \* month |-> its RollupDataFile object
  daily,         \* entries of the daily (annual) file
  rollup_wal,    \* entries of wal/rollup.data
  mode,          \* shard |-> the ROLLED_UP and OUT_OF_ORDER bits of m_mode
  ooo2,          \* shard |-> series flagged by set_out_of_order2()
  pages,         \* series |-> shards its m_buff and m_ooo_buff refer to
  marking,       \* the month Tsdb::rollup() has written and not yet marked
  received,      \* history: the points, in the order of their arrival
  rolled,        \* history: what each daily roll-up read and wrote
  restarts, lost \* history: restarts; an m_buff was dropped unwritten

rvars == <<mgr, hourly, file, daily, rollup_wal, mode, ooo2, pages, marking,
           received, rolled, restarts, lost>>

Hours == 0 .. Months * MonthLen - 1
AllMonths == 0 .. Months - 1
Shards == {h \div DayLen : h \in Hours}
MonthOf(h) == h \div MonthLen
begin_month(h) == MonthLen * MonthOf(h)
end_month(h) == begin_month(h) + MonthLen
DaysOf(m) == {d \in Shards : MonthOf(d * DayLen) = m}

NoTime == -1
NoMonth == -1
\* The initial values stand for the largest and the lowest double.
Empty == [cnt |-> 0, min |-> MaxPoints + 1, max |-> 0, sum |-> 0]
NewManager == [acc |-> Empty, tstamp |-> NoTime, data_file |-> NoMonth]
Unopened == [exists |-> FALSE, mode |-> "closed", buff |-> <<>>]

Counted(acc, v) ==
  [cnt |-> acc.cnt + 1, min |-> IF v < acc.min THEN v ELSE acc.min,
   max |-> IF v > acc.max THEN v ELSE acc.max, sum |-> acc.sum + v]
Joined(a, b) ==
  [cnt |-> a.cnt + b.cnt, min |-> IF b.min < a.min THEN b.min ELSE a.min,
   max |-> IF b.max > a.max THEN b.max ELSE a.max, sum |-> a.sum + b.sum]

-----------------------------------------------------------------------------
(* Writing *)

\* RollupDataFile::add_data_point(): the buffer goes to the file when full.
AddEntry(files, m, e) ==
  LET f == files.file[m]
      full == Len(f.buff) + 1 > BuffEntries
  IN  IF full
      THEN [hourly |-> [files.hourly EXCEPT ![m] = @ \o f.buff],
            file |-> [files.file EXCEPT ![m] = [exists |-> TRUE, mode |-> "write", buff |-> <<e>>]]]
      ELSE [files EXCEPT !.file[m] = [f EXCEPT !.exists = TRUE, !.buff = Append(@, e)]]

\* A bug: the hours between two points are skipped when they are in one month.
SkipsEmptyHours(from, to) ==
  <<from>> \o (IF to < end_month(from) THEN <<>>
               ELSE [i \in 1..(to - begin_month(to)) |-> begin_month(to) + i - 1])

\* The hours add_data_point() flushes on its way from `from` to `to`: the rest of
\* the month, nothing of the months between, and the beginning of the new one.
HoursBetween(from, to) ==
  LET end == end_month(from)
      upto == IF to < end THEN to ELSE end
  IN  [i \in 1..(upto - from) |-> from + i - 1]
      \o (IF to < end THEN <<>>
          ELSE [i \in 1..(to - begin_month(to)) |-> begin_month(to) + i - 1])

\* flush(): the hour goes to the file of its month and the counts are reset.
Flush(s, t, h) ==
  [acc |-> Empty, data_file |-> MonthOf(h),
   files |-> AddEntry(s.files, MonthOf(h), [tid |-> t] @@ s.acc)]

IsLate(tstamp1, m_tstamp) == tstamp1 < m_tstamp

\* TimeSeries::add_data_point() and add_ooo_data_point(), their pages reduced to
\* the shards they refer to, and RollupManager::add_data_point().
AddDataPoint(t, h) ==
  LET v == Len(received) + 1
      shard == h \div DayLen
      m == mgr[t]
      is_ooo == \/ \E p \in ToSet(received) : p.tid = t /\ p.hour \div DayLen = shard /\ p.hour > h
                \/ pages[t].buff # NoTime /\ shard < pages[t].buff
      m_tstamp == IF m.tstamp = NoTime THEN begin_month(h) ELSE m.tstamp
      files == [hourly |-> hourly, file |-> file]
      s0 == [acc |-> m.acc, data_file |-> m.data_file, files |-> files]
      s == IF h > m_tstamp
           THEN FoldLeft(LAMBDA a, x : Flush(a, t, x), s0, HoursBetween(m_tstamp, h))
           ELSE s0
      late == IsLate(h, m_tstamp)
      page == IF is_ooo THEN pages[t].ooo ELSE pages[t].buff
  IN  /\ Len(received) < MaxPoints
      /\ mgr' = [mgr EXCEPT ![t] =
                   [acc |-> Counted(s.acc, v), data_file |-> s.data_file,
                    tstamp |-> IF h > m_tstamp THEN h ELSE m_tstamp]]
      /\ hourly' = s.files.hourly
      /\ file' = s.files.file
      /\ mode' = [mode EXCEPT ![shard] =
                    (IF page = shard THEN @ ELSE @ \ {"ROLLED_UP"})
                    \cup (IF late THEN {"OUT_OF_ORDER"} ELSE {})]
      /\ ooo2' = [ooo2 EXCEPT ![shard] = IF late THEN @ \cup {t} ELSE @]
      /\ pages' = [pages EXCEPT ![t] = IF is_ooo THEN [@ EXCEPT !.ooo = shard]
                                                 ELSE [@ EXCEPT !.buff = shard]]
      /\ received' = Append(received, [tid |-> t, hour |-> h, late |-> h < m_tstamp])
      /\ UNCHANGED <<daily, rollup_wal, marking, rolled, restarts, lost>>

-----------------------------------------------------------------------------
(* Reading *)

\* An entry that counts nothing has no values: RollupCompressor_v1::uncompress()
\* leaves those of the entry decoded before it, in the same cursor.
Decoded(entries) ==
  LET Values(i) ==
        LET before == {j \in 1..i : entries[j].cnt # 0}
        IN  IF before = {} THEN [min |-> 0, max |-> 0, sum |-> 0]
            ELSE LET e == entries[Max(before)] IN [min |-> e.min, max |-> e.max, sum |-> e.sum]
  IN  [i \in 1..Len(entries) |-> [tid |-> entries[i].tid, cnt |-> entries[i].cnt] @@ Values(i)]

\* The file is there, in memory or on disk, and not empty().
HasFile(m) == (file[m].exists /\ file[m].buff # <<>>) \/ hourly[m] # <<>>

\* RollupDataFile::query() of a month: the time of an entry is one hour after the
\* one before it of the same series, and the reader stops at the first entry of
\* any queried series that is beyond the range.
QueryFile(a, m, ts, from, to) ==
  LET step(b, e) ==
        LET time == IF b.last[e.tid] = NoTime THEN MonthLen * m ELSE b.last[e.tid] + 1
        IN  IF b.stop \/ e.tid \notin ts THEN b
            ELSE [last |-> [b.last EXCEPT ![e.tid] = time],
                  stop |-> time >= to,
                  out |-> IF e.cnt # 0 /\ from <= time /\ time < to
                          THEN Append(b.out, [tid |-> e.tid, hour |-> time, acc |->
                                 [cnt |-> e.cnt, min |-> e.min, max |-> e.max, sum |-> e.sum]])
                          ELSE b.out]
      on_disk == FoldLeft(step, [a EXCEPT !.stop = FALSE], Decoded(hourly[m]))
  IN  IF on_disk.stop THEN on_disk ELSE FoldLeft(step, on_disk, Decoded(file[m].buff))

\* The files of the months that meet the range, in order of time.
get_data_files_1h(from, to) ==
  SelectSeq([i \in 1..Months |-> i - 1],
            LAMBDA m : m >= MonthOf(from) /\ MonthLen * m < to /\ HasFile(m))

\* RollupManager::get(): what a series holds in memory, if anything.
get(t) == IF mgr[t].acc.cnt = 0 THEN {} ELSE {[tid |-> t, hour |-> mgr[t].tstamp, acc |-> mgr[t].acc]}

\* RollupManager::query() and TimeSeries::query_for_rollup().
query_rollup_hourly(ts, from, to) ==
  LET a == FoldLeft(LAMBDA b, m : QueryFile(b, m, ts, from, to),
                    [last |-> [t \in Series |-> NoTime], stop |-> FALSE, out |-> <<>>],
                    get_data_files_1h(from, to))
      cached == {e \in UNION {get(t) : t \in ts} : from <= e.hour /\ e.hour < to}
  IN  a.out \o SetToSeq(cached)

\* A bug: the first entry of a file is taken for the second hour of its month.
DaysFromSecondHour(m) ==
  LET entries == Decoded(hourly[m])
      Nth(i) == Cardinality({j \in 1..i : entries[j].tid = entries[i].tid})
      DayOf(i) == (MonthLen * m + Nth(i)) \div DayLen
      Of(t, d) == SelectSeq([i \in 1..Len(entries) |-> i],
                            LAMBDA i : entries[i].tid = t /\ DayOf(i) = d)
      Total(is) == FoldLeft(LAMBDA acc, i : Joined(acc, entries[i]), Empty, is)
  IN  {[tid |-> t, day |-> d, acc |-> Total(Of(t, d))] :
         <<t, d>> \in {<<entries[i].tid, DayOf(i)>> : i \in 1..Len(entries)}}

\* query(data): days are summed up, empty hours included; m_buff is not looked into.
DailyOf(m) ==
  LET entries == Decoded(hourly[m])
      Nth(i) == Cardinality({j \in 1..(i - 1) : entries[j].tid = entries[i].tid})
      DayOf(i) == (MonthLen * m + Nth(i)) \div DayLen
      Of(t, d) == SelectSeq([i \in 1..Len(entries) |-> i],
                            LAMBDA i : entries[i].tid = t /\ DayOf(i) = d)
      Total(is) == FoldLeft(LAMBDA acc, i : Joined(acc, entries[i]), Empty, is)
  IN  {[tid |-> t, day |-> d, acc |-> Total(Of(t, d))] :
         <<t, d>> \in {<<entries[i].tid, DayOf(i)>> : i \in 1..Len(entries)}}

\* add_data_points() leaves out the days that count nothing.
WrittenDaily(m) == {e \in DailyOf(m) : e.acc.cnt # 0}

-----------------------------------------------------------------------------
(* Other steps *)

\* An hourly query opens the files it reads.
OpenForQuery ==
  /\ \E m \in AllMonths : HasFile(m) /\ file[m].mode = "closed"
  /\ file' = [m \in AllMonths |->
                IF HasFile(m) /\ file[m].mode = "closed"
                THEN [file[m] EXCEPT !.exists = TRUE, !.mode = "read"] ELSE file[m]]
  /\ UNCHANGED <<mgr, hourly, daily, rollup_wal, mode, ooo2, pages, marking,
                 received, rolled, restarts, lost>>

\* Tsdb::archive_ts(): the pages of an idle series are flushed and released.
Archive(t) ==
  /\ pages[t].buff # NoTime \/ pages[t].ooo # NoTime
  /\ pages' = [pages EXCEPT ![t] = [buff |-> NoTime, ooo |-> NoTime]]
  /\ UNCHANGED <<mgr, hourly, file, daily, rollup_wal, mode, ooo2, marking,
                 received, rolled, restarts, lost>>

\* close(): the buffer is written only if the file is open.
Closing(ms) ==
  /\ hourly' = [m \in AllMonths |->
                  IF m \in ms /\ file[m].mode # "closed" THEN hourly[m] \o file[m].buff ELSE hourly[m]]
  /\ lost' = (lost \/ \E m \in ms : file[m].mode = "closed" /\ file[m].buff # <<>>)

\* RollupManager::rotate(): files no manager refers to, idle for an hour.
Rotate ==
  LET idle == {m \in AllMonths : file[m].exists /\ \A t \in Series : mgr[t].data_file # m}
  IN  /\ idle # {}
      /\ Closing(idle)
      /\ file' = [m \in AllMonths |-> IF m \in idle THEN Unopened ELSE file[m]]
      /\ UNCHANGED <<mgr, daily, rollup_wal, mode, ooo2, pages, marking,
                     received, rolled, restarts>>

\* Tsdb::rollup(): the first shard that is not rolled up must not be in use, its
\* month must be over, and no shard of the month in use.  The hourly file is read,
\* which closes it, and the daily entries are written.
RollUp ==
  LET with_data == {p.hour \div DayLen : p \in ToSet(received)}
      todo == {d \in with_data : "ROLLED_UP" \notin mode[d]}
      used == UNION {{pages[t].buff, pages[t].ooo} : t \in Series}
      month == MonthOf(DayLen * Min(todo))
      Points(t, d) == Cardinality({i \in 1..Len(received) :
                        received[i].tid = t /\ received[i].hour \div DayLen = d})
  IN  /\ marking = NoMonth
      /\ todo # {}
      /\ month < Today
      /\ DaysOf(month) \cap used = {}
      /\ daily' = IF HasFile(month) THEN daily \o SetToSeq(WrittenDaily(month)) ELSE daily
      /\ hourly' = [hourly EXCEPT ![month] = @ \o file[month].buff]
      /\ file' = [file EXCEPT ![month] = IF HasFile(month) THEN [Unopened EXCEPT !.exists = TRUE] ELSE @]
      /\ marking' = month
      /\ rolled' = rolled \cup
           {[month |-> month, out |-> WrittenDaily(month),
             complete |-> /\ file[month].buff = <<>>
                          /\ \A t \in Series : mgr[t].tstamp # NoTime => MonthOf(mgr[t].tstamp) # month,
             points |-> [t \in Series |-> [d \in DaysOf(month) |-> Points(t, d)]]]}
      /\ UNCHANGED <<mgr, rollup_wal, mode, ooo2, pages, received, restarts, lost>>

\* The end of Tsdb::rollup(), after every bucket was written.
MarkRolledUp ==
  /\ marking # NoMonth
  /\ mode' = [d \in Shards |->
                IF MonthOf(DayLen * d) = marking /\ \E p \in ToSet(received) : p.hour \div DayLen = d
                THEN mode[d] \cup {"ROLLED_UP"} ELSE mode[d]]
  /\ marking' = NoMonth
  /\ UNCHANGED <<mgr, hourly, file, daily, rollup_wal, ooo2, pages, received,
                 rolled, restarts, lost>>

\* query_ext(): the second entry of a series is taken for the hour after the first.
FromWal(wal, t) ==
  LET of_t == SelectSeq(wal, LAMBDA e : e.tid = t)
      join(a, e) == [acc |-> Joined(a.acc, e.acc), tstamp |-> a.tstamp + 1]
  IN  IF of_t = <<>> THEN NewManager
      ELSE LET a == FoldLeft(join, [acc |-> of_t[1].acc, tstamp |-> of_t[1].tstamp], Tail(of_t))
           IN  [NewManager EXCEPT !.acc = a.acc, !.tstamp = a.tstamp]

\* RollupManager::close()
KeptHour(t) ==
  IF mgr[t].tstamp = NoTime \/ mgr[t].acc.cnt = 0 THEN <<>>
  ELSE <<[tid |-> t, acc |-> mgr[t].acc, tstamp |-> mgr[t].tstamp]>>

\* Tsdb::shutdown(), RollupManager::shutdown() and, at the next start, init().
Restart ==
  /\ restarts < MaxRestarts
  /\ marking = NoMonth
  /\ restarts' = restarts + 1
  /\ rollup_wal' = rollup_wal \o FoldSet(LAMBDA t, s : KeptHour(t) \o s, <<>>, Series)
  /\ Closing(AllMonths)
  /\ file' = [m \in AllMonths |-> Unopened]
  /\ pages' = [t \in Series |-> [buff |-> NoTime, ooo |-> NoTime]]
  /\ mgr' = [t \in Series |-> FromWal(rollup_wal', t)]
  /\ UNCHANGED <<daily, mode, ooo2, marking, received, rolled>>

RInit ==
  /\ mgr = [t \in Series |-> NewManager]
  /\ hourly = [m \in AllMonths |-> <<>>]
  /\ file = [m \in AllMonths |-> Unopened]
  /\ daily = <<>>
  /\ rollup_wal = <<>>
  /\ mode = [d \in Shards |-> {}]
  /\ ooo2 = [d \in Shards |-> {}]
  /\ pages = [t \in Series |-> [buff |-> NoTime, ooo |-> NoTime]]
  /\ marking = NoMonth
  /\ received = <<>>
  /\ rolled = {}
  /\ restarts = 0
  /\ lost = FALSE

RNext ==
  \/ \E t \in Series, h \in PointHours : AddDataPoint(t, h)
  \/ \E t \in Series : Archive(t)
  \/ OpenForQuery
  \/ Rotate
  \/ RollUp
  \/ MarkRolledUp
  \/ Restart

RSpec == RInit /\ [][RNext]_rvars

-----------------------------------------------------------------------------
(* Properties *)

PointsOf(t) == {i \in 1..Len(received) : received[i].tid = t}

\* What the points of a series in a set of hours add up to.
Reference(t, hours) ==
  FoldSet(LAMBDA i, acc : Counted(acc, i), Empty, {i \in PointsOf(t) : received[i].hour \in hours})

\* The hours with points, and what they count, as a query should answer them.
ReferenceHours(t, from, to) ==
  {[tid |-> t, hour |-> h, acc |-> Reference(t, {h})] :
     h \in {received[i].hour : i \in PointsOf(t)} \cap (from .. to - 1)}

\* The series was silent for a whole month between two of its points.
SkippedMonth(t) ==
  \E i, j \in PointsOf(t), m \in AllMonths :
    /\ MonthOf(received[i].hour) < m /\ m < MonthOf(received[j].hour)
    /\ \A k \in PointsOf(t) : MonthOf(received[k].hour) # m

\* A query of the hourly roll-up of one series, over any range, answers every hour
\* with points once and exactly with what its points add up to, whatever part of it
\* is in the file, in m_buff, in the manager or came through an orderly restart.
\* Left out: late points, a second restart (rollup.data is never emptied), a month
\* without points, and an m_buff dropped with its file (RollupManager::add_data_point,
\* flush, close, init; RollupDataFile::query_entry).
HourlyExact ==
  \A t \in Series :
    ~ lost /\ restarts <= 1 /\ ~ SkippedMonth(t) /\ (\A i \in PointsOf(t) : ~ received[i].late) =>
      \A from \in Hours, to \in 1..(Months * MonthLen) :
        LET answer == query_rollup_hourly({t}, from, to)
        IN  from < to => /\ ToSet(answer) = ReferenceHours(t, from, to)
                         /\ IsInjective(answer)

\* A daily roll-up of a month whose hourly file is complete counts every point of
\* every day of the month, none in the day before or after it; only the counts are
\* exact (RollupDataFile::query(data), add_data_points).
DailyCountsDays ==
  \A r \in rolled :
    r.complete /\ ~ lost /\ restarts <= 1 /\ (\A p \in ToSet(received) : ~ p.late) =>
      \A t \in Series, d \in DaysOf(r.month) :
        LET es == {e \in r.out : e.tid = t /\ e.day = d}
        IN  IF r.points[t][d] = 0 THEN es = {}
            ELSE \E e \in es : es = {e} /\ e.acc.cnt = r.points[t][d]
=============================================================================
