----------------------------- MODULE PageChain -----------------------------
(***************************************************************************)
(* The write path of one bucket of time series: TimeSeries, its in-memory  *)
(* pages (PageInMemory) and the page chains of the daily Tsdb shards.      *)
(*                                                                         *)
(* A time series owns at most two pages in memory: m_buff, for data points *)
(* that arrive in order, and m_ooo_buff, for the others.  A full page, or  *)
(* a page of a Tsdb that is being left, is appended to the header and data *)
(* files of its Tsdb and linked behind the last page of the same series;   *)
(* the index file holds the first page of each chain (indices) and the     *)
(* first page that crosses the middle of the Tsdb's time range (indices2). *)
(* While a page is in memory the 'next' fields of its header hold the      *)
(* position of the PREVIOUS page of the chain.  The two pages of a series  *)
(* may sit in the same Tsdb, so each must learn about the flush of the     *)
(* other one: that is what update_indices() is for.                        *)
(*                                                                         *)
(* A handler of a series runs under the lock of that series, and touches a *)
(* Tsdb under the lock of that Tsdb, so a handler is one step.             *)
(***************************************************************************)
EXTENDS Naturals, Sequences, FiniteSetsExt

CONSTANTS
  Series,     \* the time series that share a bucket of a metric
  Tsdbs,      \* the shards, numbered by their position in time
  Span,       \* length of the time range of a shard
  MaxPages    \* bound on the number of pages of a shard

ASSUME TsdbAssumption == Tsdbs \subseteq Nat \ {0}
ASSUME SpanAssumption == Span \in Nat \ {0}
ASSUME BoundAssumption == MaxPages \in Nat

\* Timestamps of the data points clients may send.  0 is not a timestamp:
\* Tsdb::get_last_tstamp() returns it for "none".
Tstamps == UNION {(d * Span) .. (d * Span + Span - 1) : d \in Tsdbs}

\* The shard a timestamp belongs to, and the middle of a shard's time range.
TsdbOf(t) == t \div Span
get_middle(d) == d * Span + Span \div 2

\* TT_INVALID_FILE_INDEX / TT_INVALID_HEADER_INDEX.  A position (file,
\* header) is modelled by its rank in the bucket, so it is a number >= 1.
NoPage == 0

\* A page header on disk with the data of its page; 'owner' is not stored by
\* the program, it records for the properties who appended the page.
Header == [owner : Series, ooo : BOOLEAN, pts : SUBSET Tstamps, next : Nat]

\* What a shard has on disk: header and data files of the bucket, and the
\* two entries per series of the index file.
Disk == [pages : Seq(Header), index : [Series -> Nat], index2 : [Series -> Nat]]

EmptyDisk == [pages |-> << >>,
              index |-> [s \in Series |-> NoPage],
              index2 |-> [s \in Series |-> NoPage]]

\* A page in memory; tsdb = 0 stands for a null PageInMemory pointer.
Page == [tsdb : Tsdbs \cup {0}, prev : Nat, pts : SUBSET Tstamps]
NoBuff == [tsdb |-> 0, prev |-> NoPage, pts |-> {}]

VARIABLES
  disk,       \* shard -> what is on disk
  oooflag,    \* shard -> series -> out-of-order flag of the index file
  rolled,     \* shards with TSDB_MODE_ROLLED_UP set
  m_buff,     \* series -> in-order page in memory
  m_ooo_buff, \* series -> out-of-order page in memory
  accepted    \* series -> timestamps for which add_data_point returned true

vars == <<disk, oooflag, rolled, m_buff, m_ooo_buff, accepted>>

Init ==
  /\ disk = [d \in Tsdbs |-> EmptyDisk]
  /\ oooflag = [d \in Tsdbs |-> [s \in Series |-> FALSE]]
  /\ rolled = {}
  /\ m_buff = [s \in Series |-> NoBuff]
  /\ m_ooo_buff = [s \in Series |-> NoBuff]
  /\ accepted = [s \in Series |-> {}]

-----------------------------------------------------------------------------
(* The chain of a series on disk *)

\* End (exclusive) of the time covered by a page: m_tstamp_to.
tstamp_to(pts) == Max(pts) + 1
Crossed(d, pts) == get_middle(d) < tstamp_to(pts)

\* Where the readers that look for the end of a chain start.
ChainStart(D, s) == IF D.index2[s] # NoPage THEN D.index2[s] ELSE D.index[s]

\* Last page reached from page p by following the next fields.
WalkEnd(pages) ==
  LET end[p \in DOMAIN pages] ==
        IF pages[p].next = NoPage THEN p ELSE end[pages[p].next]
  IN  end

get_last_header_indices(D, s) ==
  LET p == ChainStart(D, s)
  IN  IF p = NoPage THEN NoPage ELSE WalkEnd(D.pages)[p]

\* Last in-order page reached from page p, NoPage when there is none.
LastInOrder(pages) ==
  LET last[p \in DOMAIN pages] ==
        LET rest == IF pages[p].next = NoPage THEN NoPage ELSE last[pages[p].next]
        IN  IF rest = NoPage /\ ~pages[p].ooo THEN p ELSE rest
  IN  last

\* Timestamp of the last in-order data point of s in a shard, 0 if none.
get_last_tstamp(D, s) ==
  LET start == ChainStart(D, s)
      p     == IF start = NoPage THEN NoPage ELSE LastInOrder(D.pages)[start]
  IN  IF p = NoPage THEN 0 ELSE Max(D.pages[p].pts)

\* Link page n of series s behind page prev, or make it the first page.
set_indices(D, s, prev, n, crossed) ==
  [pages  |-> IF prev = NoPage THEN D.pages
              ELSE [D.pages EXCEPT ![prev] = [@ EXCEPT !.next = n]],
   index  |-> IF prev = NoPage THEN [D.index EXCEPT ![s] = n] ELSE D.index,
   index2 |-> IF crossed /\ D.index2[s] = NoPage
              THEN [D.index2 EXCEPT ![s] = n] ELSE D.index2]

\* Write page b of series s at the end of the files of its shard.
append_page(D, s, b, ooo) ==
  LET n == Len(D.pages) + 1
      E == set_indices(D, s, b.prev, n, Crossed(b.tsdb, b.pts))
  IN  [E EXCEPT !.pages = Append(@, [owner |-> s, ooo |-> ooo,
                                     pts |-> b.pts, next |-> NoPage])]

\* PageInMemory::flush(): the disks after it, and the page after it, whose
\* header now holds its own position.
flush(dk, s, b, ooo) ==
  IF b.pts = {} THEN dk
  ELSE [dk EXCEPT ![b.tsdb] = append_page(@, s, b, ooo)]

flushed(dk, b) ==
  IF b.pts = {} THEN b ELSE [b EXCEPT !.prev = Len(dk[b.tsdb].pages) + 1]

\* Variants: the shards are not compared; the position is never taken over.
AnyTsdb(b, info) == IF b = NoBuff THEN b ELSE [b EXCEPT !.prev = info.prev]
\* PageInMemory::update_indices(): page b learns that info was flushed.
update_indices(b, info) ==
  IF b.tsdb = info.tsdb THEN [b EXCEPT !.prev = info.prev] ELSE b

\* PageInMemory::init() for another shard, with its first data point.
NewPage(d, s, t) ==
  [tsdb |-> d, prev |-> get_last_header_indices(disk[d], s), pts |-> {t}]

\* PageInMemory::init() for the same shard, with its first data point.
Reinit(b, t) == [b EXCEPT !.pts = {t}]

-----------------------------------------------------------------------------
(* TimeSeries::add_data_point(), one action per path through the handler.  *)
(* Whether the compressor still has room depends on the bits of the values *)
(* (is_full() after a failed add): any page with a point in it may be full.*)

InBounds == \A d \in Tsdbs : Len(disk[d].pages) <= MaxPages

\* The last timestamp on m_buff; its Tsdb is asked when m_buff is empty.
last_tstamp(s) ==
  IF m_buff[s].pts = {} THEN get_last_tstamp(disk[m_buff[s].tsdb], s)
  ELSE Max(m_buff[s].pts)

is_ooo(s, t) ==
  LET d == TsdbOf(t)
  IN  CASE m_buff[s] = NoBuff      -> d \in rolled \/ t <= get_last_tstamp(disk[d], s)
        [] m_buff[s].tsdb # d      -> d < m_buff[s].tsdb
        [] OTHER                   -> \/ m_buff[s].pts = {} /\ d \in rolled
                                      \/ t <= last_tstamp(s)

Accept(s, t) == accepted' = [accepted EXCEPT ![s] = @ \cup {t}]

\* There is no m_buff: it is created in the shard of t.
AddToNewBuff(s, t) ==
  /\ m_buff[s] = NoBuff
  /\ ~is_ooo(s, t)
  /\ m_buff' = [m_buff EXCEPT ![s] = NewPage(TsdbOf(t), s, t)]
  /\ rolled' = rolled \ {TsdbOf(t)}
  /\ Accept(s, t)
  /\ UNCHANGED <<disk, oooflag, m_ooo_buff>>

\* t is later than the shard of m_buff: m_buff is flushed and moves on.
AddToNextTsdb(s, t) ==
  /\ m_buff[s] # NoBuff
  /\ m_buff[s].tsdb < TsdbOf(t)
  /\ disk' = flush(disk, s, m_buff[s], FALSE)
  /\ InBounds'
  /\ m_ooo_buff' = [m_ooo_buff EXCEPT ![s] = update_indices(@, flushed(disk, m_buff[s]))]
  /\ m_buff' = [m_buff EXCEPT ![s] = NewPage(TsdbOf(t), s, t)]
  /\ rolled' = rolled \ {TsdbOf(t)}
  /\ Accept(s, t)
  /\ UNCHANGED oooflag

\* t follows the last point of m_buff, which has room.
AddToBuff(s, t) ==
  /\ m_buff[s] # NoBuff
  /\ m_buff[s].tsdb = TsdbOf(t)
  /\ ~is_ooo(s, t)
  /\ m_buff' = [m_buff EXCEPT ![s].pts = @ \cup {t}]
  /\ Accept(s, t)
  /\ UNCHANGED <<disk, oooflag, rolled, m_ooo_buff>>

\* t follows the last point of m_buff, which is full.
AddAfterFull(s, t) ==
  /\ m_buff[s] # NoBuff
  /\ m_buff[s].tsdb = TsdbOf(t)
  /\ ~is_ooo(s, t)
  /\ m_buff[s].pts # {}
  /\ disk' = flush(disk, s, m_buff[s], FALSE)
  /\ InBounds'
  /\ m_buff' = [m_buff EXCEPT ![s] = Reinit(flushed(disk, @), t)]
  /\ m_ooo_buff' = [m_ooo_buff EXCEPT ![s] = update_indices(@, flushed(disk, m_buff[s]))]
  /\ Accept(s, t)
  /\ UNCHANGED <<oooflag, rolled>>

\* Out of order, and there is no m_ooo_buff.
AddToNewOoo(s, t) ==
  /\ is_ooo(s, t)
  /\ m_ooo_buff[s] = NoBuff
  /\ m_ooo_buff' = [m_ooo_buff EXCEPT ![s] = NewPage(TsdbOf(t), s, t)]
  /\ rolled' = rolled \ {TsdbOf(t)}
  /\ oooflag' = [oooflag EXCEPT ![TsdbOf(t)][s] = TRUE]
  /\ Accept(s, t)
  /\ UNCHANGED <<disk, m_buff>>

\* Variant: set_out_of_order() is forgotten.
NotFlagged(s, t) ==
  /\ is_ooo(s, t)
  /\ m_ooo_buff[s] # NoBuff
  /\ m_ooo_buff[s].tsdb # TsdbOf(t)
  /\ disk' = flush(disk, s, m_ooo_buff[s], TRUE)
  /\ InBounds'
  /\ m_buff' = [m_buff EXCEPT ![s] = update_indices(@, flushed(disk, m_ooo_buff[s]))]
  /\ m_ooo_buff' = [m_ooo_buff EXCEPT ![s] = NewPage(TsdbOf(t), s, t)]
  /\ rolled' = rolled \ {TsdbOf(t)}
  /\ Accept(s, t)
  /\ UNCHANGED oooflag

\* Out of order, and m_ooo_buff sits in another shard.
AddToOtherTsdb(s, t) ==
  /\ is_ooo(s, t)
  /\ m_ooo_buff[s] # NoBuff
  /\ m_ooo_buff[s].tsdb # TsdbOf(t)
  /\ disk' = flush(disk, s, m_ooo_buff[s], TRUE)
  /\ InBounds'
  /\ m_buff' = [m_buff EXCEPT ![s] = update_indices(@, flushed(disk, m_ooo_buff[s]))]
  /\ m_ooo_buff' = [m_ooo_buff EXCEPT ![s] = NewPage(TsdbOf(t), s, t)]
  /\ rolled' = rolled \ {TsdbOf(t)}
  /\ oooflag' = [oooflag EXCEPT ![TsdbOf(t)][s] = TRUE]
  /\ Accept(s, t)

\* Out of order, and m_ooo_buff has room.
AddToOoo(s, t) ==
  /\ is_ooo(s, t)
  /\ m_ooo_buff[s] # NoBuff
  /\ m_ooo_buff[s].tsdb = TsdbOf(t)
  /\ m_ooo_buff' = [m_ooo_buff EXCEPT ![s].pts = @ \cup {t}]
  /\ Accept(s, t)
  /\ UNCHANGED <<disk, oooflag, rolled, m_buff>>

\* Out of order, and m_ooo_buff is full.
AddAfterFullOoo(s, t) ==
  /\ is_ooo(s, t)
  /\ m_ooo_buff[s] # NoBuff
  /\ m_ooo_buff[s].tsdb = TsdbOf(t)
  /\ m_ooo_buff[s].pts # {}
  /\ disk' = flush(disk, s, m_ooo_buff[s], TRUE)
  /\ InBounds'
  /\ m_ooo_buff' = [m_ooo_buff EXCEPT ![s] = Reinit(flushed(disk, @), t)]
  /\ m_buff' = [m_buff EXCEPT ![s] = update_indices(@, flushed(disk, m_ooo_buff[s]))]
  /\ Accept(s, t)
  /\ UNCHANGED <<oooflag, rolled>>

-----------------------------------------------------------------------------
\* Variant: m_ooo_buff is flushed without update_indices().
CloseBoth(s) ==
  LET dk == flush(disk, s, m_buff[s], FALSE)
  IN  /\ m_buff[s] # NoBuff \/ m_ooo_buff[s] # NoBuff
      /\ disk' = flush(dk, s, m_ooo_buff[s], TRUE)
      /\ InBounds'
      /\ m_buff' = [m_buff EXCEPT ![s] = NoBuff]
      /\ m_ooo_buff' = [m_ooo_buff EXCEPT ![s] = NoBuff]
      /\ UNCHANGED <<oooflag, rolled, accepted>>

\* TimeSeries::close() at shutdown, and TimeSeries::archive() of a series
\* that has been idle: m_buff is flushed, then m_ooo_buff behind it.  The
\* buffers are gone afterwards, as they are after a restart.
CloseSeries(s) ==
  LET dk == flush(disk, s, m_buff[s], FALSE)
      ob == update_indices(m_ooo_buff[s], flushed(disk, m_buff[s]))
  IN  /\ m_buff[s] # NoBuff \/ m_ooo_buff[s] # NoBuff
      /\ disk' = flush(dk, s, ob, TRUE)
      /\ InBounds'
      /\ m_buff' = [m_buff EXCEPT ![s] = NoBuff]
      /\ m_ooo_buff' = [m_ooo_buff EXCEPT ![s] = NoBuff]
      /\ UNCHANGED <<oooflag, rolled, accepted>>

\* Tsdb::rollup() marks a shard.  It looks at the reference count of the
\* shard before it takes the lock under which it sets the mode, so nothing
\* is assumed here about the pages in memory at that moment.
RollUp(d) ==
  /\ d \notin rolled
  /\ rolled' = rolled \cup {d}
  /\ UNCHANGED <<disk, oooflag, m_buff, m_ooo_buff, accepted>>

AddDataPoint(s, t) ==
  \/ AddToNewBuff(s, t)
  \/ AddToNextTsdb(s, t)
  \/ AddToBuff(s, t)
  \/ AddAfterFull(s, t)
  \/ AddToNewOoo(s, t)
  \/ AddToOtherTsdb(s, t)
  \/ AddToOoo(s, t)
  \/ AddAfterFullOoo(s, t)

Next ==
  \/ \E s \in Series, t \in Tstamps : AddDataPoint(s, t)
  \/ \E s \in Series : CloseSeries(s)
  \/ \E d \in Tsdbs : RollUp(d)

Spec == Init /\ [][Next]_vars

-----------------------------------------------------------------------------
(* Properties *)

\* Type invariant: the variables hold what their declarations say, and a
\* page, in memory or on disk, only holds points of its own shard.
TypeOK ==
  /\ disk \in [Tsdbs -> Disk]
  /\ oooflag \in [Tsdbs -> [Series -> BOOLEAN]]
  /\ rolled \subseteq Tsdbs
  /\ m_buff \in [Series -> Page]
  /\ m_ooo_buff \in [Series -> Page]
  /\ accepted \in [Series -> SUBSET Tstamps]
  /\ \A s \in Series : \A b \in {m_buff[s], m_ooo_buff[s]} :
       \A t \in b.pts : TsdbOf(t) = b.tsdb
  /\ \A d \in Tsdbs : \A p \in DOMAIN disk[d].pages :
       \A t \in disk[d].pages[p].pts : TsdbOf(t) = d

\* The pages of series s, and whether p is the first or the last of a set of
\* pages (NoPage when the set is empty).
Owned(D, s) == {p \in DOMAIN D.pages : D.pages[p].owner = s}
IsFirst(P, p) == IF P = {} THEN p = NoPage ELSE p \in P /\ \A q \in P : p <= q
IsLast(P, p)  == IF P = {} THEN p = NoPage ELSE p \in P /\ \A q \in P : q <= p

\* The index entry of a series is the first page the series ever flushed to
\* the shard: set_indices() never overwrites it by a later one.
IndexIsFirst ==
  \A d \in Tsdbs, s \in Series : IsFirst(Owned(disk[d], s), disk[d].index[s])

\* The second index entry is the first page of the series that crosses the
\* middle of the shard's range, so a query or a walk that starts there skips
\* no page with later points.
Index2IsFirstCrossed ==
  \A d \in Tsdbs, s \in Series :
    IsFirst({p \in Owned(disk[d], s) : Crossed(d, disk[d].pages[p].pts)},
            disk[d].index2[s])

\* The next field of a page is the next page the same series flushed to the
\* shard, whichever of its two buffers it came from: chains of different
\* series never meet, and no page is left out of its chain or is in it twice.
NextIsSuccessor ==
  \A d \in Tsdbs : \A p \in DOMAIN disk[d].pages :
    IsFirst({q \in Owned(disk[d], disk[d].pages[p].owner) : p < q},
            disk[d].pages[p].next)

\* Both pages in memory of a series know the last page of the chain they will
\* be linked behind, although either of them may be flushed first.  When one
\* of them is stale, the next flush cuts off what was appended in between.
BuffersPointAtTail ==
  \A s \in Series : \A b \in {m_buff[s], m_ooo_buff[s]} :
    b # NoBuff => IsLast(Owned(disk[b.tsdb], s), b.prev)

\* Pages a reader meets when it walks a chain from the index entry.
Reachable(D, s) ==
  LET from[p \in DOMAIN D.pages] ==
        {p} \cup IF D.pages[p].next = NoPage THEN {} ELSE from[D.pages[p].next]
  IN  IF D.index[s] = NoPage THEN {} ELSE from[D.index[s]]

\* Points of series s in memory, and on the pages a reader can find.
InMemory(s) == m_buff[s].pts \cup m_ooo_buff[s].pts
OnDisk(s) == UNION {UNION {disk[d].pages[p].pts : p \in Reachable(disk[d], s)} : d \in Tsdbs}

\* Every data point add_data_point() returned true for can be found: it is on
\* a page in memory, or on a page a walk of the chain from the index entry of
\* the series reaches.
NoPointLost == \A s \in Series : accepted[s] = InMemory(s) \cup OnDisk(s)

\* A page with out-of-order points, in memory or on disk, is announced by the
\* flag of its series in the index file, which makes queries merge pages
\* instead of stopping at the first page that ends after the queried range.
OooFlagged ==
  /\ \A d \in Tsdbs : \A p \in DOMAIN disk[d].pages :
       disk[d].pages[p].ooo => oooflag[d][disk[d].pages[p].owner]
  /\ \A s \in Series : m_ooo_buff[s] # NoBuff => oooflag[m_ooo_buff[s].tsdb][s]

\* What is on disk stays: a step may append pages and set fields that were
\* unset (the next field of the last page, an index entry), nothing else.
OnlyAppends ==
  \A d \in Tsdbs :
    /\ DOMAIN disk[d].pages \subseteq DOMAIN disk'[d].pages
    /\ \A p \in DOMAIN disk[d].pages :
         /\ disk'[d].pages[p].pts = disk[d].pages[p].pts
         /\ disk'[d].pages[p].next # disk[d].pages[p].next =>
              disk[d].pages[p].next = NoPage
    /\ \A s \in Series :
         /\ disk'[d].index[s] # disk[d].index[s] => disk[d].index[s] = NoPage
         /\ disk'[d].index2[s] # disk[d].index2[s] => disk[d].index2[s] = NoPage
DiskOnlyGrows == [][OnlyAppends]_vars
=============================================================================
