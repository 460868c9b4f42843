----------------------------- MODULE QueryMerge -----------------------------
(***************************************************************************)
(* The values a raw query returns when timestamps are written more than    *)
(* once (QueryTask::merge_data, query_with_ooo, query_without_ooo).  One   *)
(* series; its pages are kept in the order of their chain, which is the    *)
(* order they were flushed in (module PageChain).  The n-th write of a     *)
(* behaviour writes the value n.                                           *)
(***************************************************************************)
EXTENDS Integers, Sequences, SequencesExt, FiniteSets

CONSTANTS
  Times,       \* timestamps that are written
  TsdbLen,     \* timestamps of a shard
  PageCap,     \* data points of a page
  MaxWrites    \* bound: writes of a behaviour

VARIABLES
  chain,       \* shard -> pages on disk, [ooo, dps]
  m_buff,      \* the page in memory, or None
  m_ooo_buff,  \* the page in memory of late data points, or None
  flags,       \* shards whose out-of-order flag is set
  wrote,       \* history: the times written
  again,       \* history: times written in order after a late copy
  returned,    \* history: shards written in order before their last time
  task         \* the query that runs, or None

mvars == <<chain, m_buff, m_ooo_buff, flags, wrote, again, returned, task>>

None == << >>
TsdbOf(t) == t \div TsdbLen
Tsdbs == {TsdbOf(t) : t \in Times}
Page(d, ooo, dps) == [tsdb |-> d, ooo |-> ooo, dps |-> dps]

-----------------------------------------------------------------------------
(* The write path *)

\* Compressor_v0::compress() keeps a page of late data points sorted, equal
\* times in the order they came; the other pages only grow at the end.
Placed(dps, dp) ==
  SelectSeq(dps, LAMBDA e : e[1] <= dp[1]) \o <<dp>> \o SelectSeq(dps, LAMBDA e : e[1] > dp[1])

Flushed(c, b) == IF b = None \/ b.dps = << >> THEN c ELSE [c EXCEPT ![b.tsdb] = Append(@, b)]

\* The last time of the shard that was written in order: of the page in memory,
\* else get_last_tstamp() of the last page on disk that is not out of order.
LastOnDisk(d) ==
  LET ps == SelectSeq(chain[d], LAMBDA p : ~ p.ooo)
  IN  IF ps = << >> THEN -1 ELSE ps[Len(ps)].dps[Len(ps[Len(ps)].dps)][1]
is_ooo(t) ==
  IF m_buff = None THEN t <= LastOnDisk(TsdbOf(t))
  ELSE \/ TsdbOf(t) < m_buff.tsdb
       \/ TsdbOf(t) = m_buff.tsdb /\ t <= (IF m_buff.dps = << >> THEN LastOnDisk(m_buff.tsdb)
                                           ELSE m_buff.dps[Len(m_buff.dps)][1])

\* A page takes the data point, or is flushed first because it is full or
\* belongs to another shard.
Stored(b, ooo, dp) ==
  LET d == TsdbOf(dp[1])
  IN  IF b # None /\ b.tsdb = d /\ Len(b.dps) < PageCap
      THEN [page |-> [b EXCEPT !.dps = Placed(@, dp)], flush |-> None]
      ELSE [page |-> Page(d, ooo, <<dp>>), flush |-> b]

add_in_order(t) ==
  LET s == Stored(m_buff, FALSE, <<t, Len(wrote) + 1>>)
  IN  /\ ~ is_ooo(t)
      /\ m_buff' = s.page
      /\ chain' = Flushed(chain, s.flush)
      /\ again' = IF \E i \in 1..Len(wrote) : wrote[i] = t THEN again \cup {t} ELSE again
      /\ returned' = IF t <= LastOnDisk(TsdbOf(t)) THEN returned \cup {TsdbOf(t)} ELSE returned
      /\ UNCHANGED <<m_ooo_buff, flags>>

add_ooo(t) ==
  LET s == Stored(m_ooo_buff, TRUE, <<t, Len(wrote) + 1>>)
  IN  /\ is_ooo(t)
      /\ m_ooo_buff' = s.page
      /\ chain' = Flushed(chain, s.flush)
      /\ flags' = flags \cup {TsdbOf(t)}
      /\ UNCHANGED <<m_buff, again, returned>>

Write(t) ==
  /\ task = None
  /\ Len(wrote) < MaxWrites
  /\ add_in_order(t) \/ add_ooo(t)
  /\ wrote' = Append(wrote, t)
  /\ UNCHANGED task

CloseSeries ==
  /\ task = None
  /\ m_buff # None \/ m_ooo_buff # None
  /\ chain' = Flushed(Flushed(chain, m_buff), m_ooo_buff)
  /\ m_buff' = None /\ m_ooo_buff' = None
  /\ UNCHANGED <<flags, wrote, again, returned, task>>

-----------------------------------------------------------------------------
(* A query of the range [from, to) in one shard *)

Container(i, p) == [page |-> i, ooo |-> p.ooo, dps |-> p.dps]
OnDisk(d) == [i \in 1..Len(chain[d]) |-> Container(i, chain[d][i])]
InMemory(d, data) ==
  LET add(cs, b) == IF b = None \/ b.tsdb # d \/ b.dps = << >> THEN cs
                    ELSE Append(cs, Container(IF cs = << >> THEN 0 ELSE cs[Len(cs)].page + 1, b))
  IN  add(add(data, m_buff), m_ooo_buff)

in_range(q, t) == IF t < q.from THEN -1 ELSE IF t < q.to THEN 0 ELSE 1

\* query_without_ooo(): the containers one behind the other.
query_without_ooo(q, data) ==
  FlattenSeq([i \in DOMAIN data |->
    SelectSeq(data[i].dps, LAMBDA dp : in_range(q, dp[1]) = 0)])

\* Variant: an out-of-order page goes first.
PageOrder(a, b) == a.page < b.page

\* container_cmp(): among equal times those of the out-of-order pages come last,
\* then the page with the larger index.
ComesFirst(a, b) == (~ a.ooo /\ b.ooo) \/ (a.ooo = b.ooo /\ a.page < b.page)
Before(data, x, y) ==
  LET tx == data[x].dps[task.idx[x]][1]  ty == data[y].dps[task.idx[y]][1]
  IN  tx < ty \/ (tx = ty /\ ComesFirst(data[x], data[y]))

\* query_raw(): a shard without the flag is read page by page, then its memory.
StartQuery(d, from, to) ==
  LET q == [from |-> from, to |-> to]
      disk_data == OnDisk(d)
      data == InMemory(d, IF d \in flags THEN disk_data ELSE << >>)
  IN  /\ task = None
      /\ task' = [tsdb |-> d, from |-> from, to |-> to, data |-> data,
                  idx |-> [i \in DOMAIN data |-> 1], prev |-> None, merging |-> TRUE,
                  dps |-> IF d \in flags THEN << >> ELSE query_without_ooo(q, disk_data)]
      /\ UNCHANGED <<chain, m_buff, m_ooo_buff, flags, wrote, again, returned>>

Pending == {i \in DOMAIN task.data : task.idx[i] <= Len(task.data[i].dps)}

\* One round of the loop of query_with_ooo(): the last of equal times stays.
PopContainer ==
  \E x \in Pending :
    LET dp == task.data[x].dps[task.idx[x]]
        r == in_range(task, dp[1])
        same == task.prev # None /\ task.prev[1] = dp[1]
    IN  /\ \A y \in Pending \ {x} : ~ Before(task.data, y, x)
        /\ task' = [task EXCEPT
             !.idx[x] = @ + 1,
             !.merging = r <= 0,
             !.prev = IF r = 0 THEN dp ELSE @,
             !.dps = IF r # 0 \/ same \/ task.prev = None THEN @ ELSE Append(@, task.prev)]

MergeStep ==
  /\ task # None
  /\ task.merging
  /\ \E i \in DOMAIN task.data : task.data[i].ooo
  /\ PopContainer
  /\ UNCHANGED <<chain, m_buff, m_ooo_buff, flags, wrote, again, returned>>

\* The rest of merge_data(): query_without_ooo() when there are no late points.
Done == task # None /\ (~ task.merging \/ Pending = {}
                        \/ \A i \in DOMAIN task.data : ~ task.data[i].ooo)
Answer ==
  IF \E i \in DOMAIN task.data : task.data[i].ooo
  THEN IF task.prev = None THEN task.dps ELSE Append(task.dps, task.prev)
  ELSE task.dps \o query_without_ooo(task, task.data)

EndQuery ==
  /\ Done
  /\ task' = None
  /\ UNCHANGED <<chain, m_buff, m_ooo_buff, flags, wrote, again, returned>>

-----------------------------------------------------------------------------
QMInit ==
  /\ chain = [d \in Tsdbs |-> << >>]
  /\ m_buff = None
  /\ m_ooo_buff = None
  /\ flags = {}
  /\ wrote = << >>
  /\ again = {}
  /\ returned = {}
  /\ task = None

QMNext ==
  \/ \E t \in Times : Write(t)
  \/ CloseSeries
  \/ \E d \in Tsdbs, from \in Times, to \in Times : from < to /\ StartQuery(d, from, to)
  \/ MergeStep
  \/ EndQuery

QMSpec == QMInit /\ [][QMNext]_mvars

-----------------------------------------------------------------------------
(* Properties *)

LastWrite(t) == CHOOSE i \in 1..Len(wrote) :
                  wrote[i] = t /\ \A j \in (i + 1)..Len(wrote) : wrote[j] # t

\* A query returns every time of its range that was written, once and in the order
\* of time, with the value of its last write.  Left out are shards that were written
\* in order a second time (run query_backfill) and, for the value, times whose series
\* forgot in between that they were late: a closed series accepts a late time of an
\* older shard in order (query_with_ooo, "remove duplicates";
\* TimeSeries::query_for_data, Compressor_v0::compress).
NewestWins ==
  (Done /\ task.tsdb \notin returned) =>
    LET times == {t \in ToSet(wrote) : TsdbOf(t) = task.tsdb /\ in_range(task, t) = 0}
    IN  /\ [i \in DOMAIN Answer |-> Answer[i][1]] = SetToSortSeq(times, <)
        /\ \A i \in DOMAIN Answer :
             Answer[i][1] \notin again => Answer[i][2] = LastWrite(Answer[i][1])
=============================================================================
