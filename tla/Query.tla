------------------------------- MODULE Query -------------------------------
(***************************************************************************)
(* Raw queries of one time series (QuerySuperTask::query_raw() and what it *)
(* calls) against the write path of PageChain.  A query visits the shards  *)
(* of its range one after the other; in each it reads the pages on disk,   *)
(* then the two pages in memory.  Here a query is a function of the state: *)
(* no writer runs while it does.  ConcurrentQuery drops that restriction.  *)
(***************************************************************************)
EXTENDS PageChain, SequencesExt

\* Query ranges [from, to).
Ranges == {r \in Tstamps \X Tstamps : r[1] <= r[2]}
From(r) == r[1]
To(r) == r[2] + 1
InRange(r) == {t \in Tstamps : From(r) <= t /\ t < To(r)}

-----------------------------------------------------------------------------
(* What one shard contributes *)

\* Variant: the end of the range is compared.
FirstPageByEnd(d, s, r) ==
  IF get_middle(d) < To(r) THEN disk[d].index2[s] ELSE disk[d].index[s]

\* First page to look at: the second index entry when the range starts after
\* the middle of the shard.
FirstPage(d, s, r) ==
  IF get_middle(d) < From(r) THEN disk[d].index2[s] ELSE disk[d].index[s]

\* Variant: the out-of-order flag is not looked at.
StopsEarly(d, s, r) ==
  LET pages == disk[d].pages
      read[p \in DOMAIN pages] ==
        IF /\ tstamp_to(pages[p].pts) <= To(r)
           /\ pages[p].next # NoPage
        THEN <<p>> \o read[pages[p].next]
        ELSE <<p>>
      first == FirstPage(d, s, r)
  IN  IF first = NoPage THEN << >>
      ELSE SelectSeq(read[first], LAMBDA p : From(r) < tstamp_to(pages[p].pts))

\* Pages read, in the order of the chain.  A series without the out-of-order
\* flag is read up to the first page that ends after the range.
PagesRead(d, s, r) ==
  LET pages == disk[d].pages
      read[p \in DOMAIN pages] ==
        IF /\ oooflag[d][s] \/ tstamp_to(pages[p].pts) <= To(r)
           /\ pages[p].next # NoPage
        THEN <<p>> \o read[pages[p].next]
        ELSE <<p>>
      first == FirstPage(d, s, r)
  IN  IF first = NoPage THEN << >>
      ELSE SelectSeq(read[first], LAMBDA p : From(r) < tstamp_to(pages[p].pts))

\* The data points of those pages, one set per page (DataPointContainer).
DiskContainers(d, s, r) ==
  LET pg == PagesRead(d, s, r)
  IN  [i \in DOMAIN pg |-> disk[d].pages[pg[i]].pts]

\* Containers of the pages in memory.  The lower end of the range of such a
\* page (m_tstamp_from) is not initialised and only ever lowered to the first
\* point of the page, so it never hides a point that is in range.
MemContainer(b, d, r) ==
  IF b.tsdb = d /\ b.pts # {} /\ From(r) < tstamp_to(b.pts) THEN <<b.pts>> ELSE << >>
MemContainers(d, s, r) == MemContainer(m_buff[s], d, r) \o MemContainer(m_ooo_buff[s], d, r)

Sorted(S) == SetToSortSeq(S, <)

\* merge_data(): query_with_ooo() merges and drops duplicates,
\* query_without_ooo() puts one container behind the other.
Merged(data, r, has_ooo) ==
  IF has_ooo
  THEN Sorted(UNION ToSet(data) \cap InRange(r))
  ELSE FlattenSeq([i \in DOMAIN data |-> Sorted(data[i] \cap InRange(r))])

\* Does reading the disk, or the memory, turn the task into a merging one?
DiskOoo(d, s, r) == oooflag[d][s] /\ FirstPage(d, s, r) # NoPage
MemOoo(d, s, r) == MemContainer(m_ooo_buff[s], d, r) # << >>

\* query_raw() in one shard when no writer runs in between.  Without the flag
\* the pages on disk are merged one by one, before the memory is looked at.
query_raw(d, s, r) ==
  LET disk_data == DiskContainers(d, s, r)
      mem_data  == MemContainers(d, s, r)
  IN  IF oooflag[d][s]
      THEN Merged(disk_data \o mem_data, r, DiskOoo(d, s, r) \/ MemOoo(d, s, r))
      ELSE Merged(disk_data, r, FALSE) \o Merged(mem_data, r, MemOoo(d, s, r))

\* The shards of a range, oldest first (Tsdb::insts()).
insts(r) == Sorted({d \in Tsdbs : \E t \in InRange(r) : TsdbOf(t) = d})

QueryResult(s, r) ==
  LET ds == insts(r)
  IN  FlattenSeq([i \in DOMAIN ds |-> query_raw(ds[i], s, r)])

\* A query returns every accepted data point of its range, once, in order:
\* the shortcut over the second index entry and the early stop lose nothing.
QueryExact ==
  \A s \in Series, r \in Ranges :
    QueryResult(s, r) = Sorted(accepted[s] \cap InRange(r))

\* A query returns every accepted data point of its range: when it stops at a
\* page that ends after the range there is no more data for it to read.
QueryComplete ==
  \A s \in Series, r \in Ranges :
    accepted[s] \cap InRange(r) \subseteq ToSet(QueryResult(s, r))
=============================================================================
