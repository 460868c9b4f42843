------------------------------- MODULE Files -------------------------------
(***************************************************************************)
(* The files of one bucket of metrics in one shard: the index file with    *)
(* one entry per time series, and pairs of a header file and a data file   *)
(* with room for PageCount pages each.  PageChain numbers the pages of a   *)
(* shard; here a page has the position <<file, header>>, its data the      *)
(* place m_page_index of the data file with the same number, and a reader  *)
(* sees as much of a data file as is mapped.                               *)
(*                                                                         *)
(* All of it happens under Tsdb::m_lock, so a handler is one step; but the *)
(* process may die between any two of the writes of append_page().  Header *)
(* and index files are opened on every access (ensure_open()), so for them *)
(* being open is no state; for a data file it is, since the page index and *)
(* the length of the mapping are remembered from when it was opened.       *)
(***************************************************************************)
EXTENDS Naturals, Sequences, SequencesExt, FiniteSetsExt

CONSTANTS
  Ids,          \* ids of the time series that have pages in the shard
  PageCount,    \* pages per header file and data file (tsdb.page.count)
  Increment,    \* entries by which the index file grows (TT_SIZE_INCREMENT)
  CrashPoints,  \* how many writes of append_page() a crash may leave behind
  MaxAppends,   \* bound on the number of pages
  MaxCrashes    \* bound on the number of crashes

VARIABLES
  disk,      \* the contents of the files: index, headers, data
  m_file,    \* data files open for write -> m_page_index remembered for them
  m_length,  \* data files mapped for read -> pages that are mapped
  tail,      \* series -> position its page in memory has for the previous page
  appended,  \* series -> its pages that were appended and linked
  crashes    \* number of crashes so far

vars == <<disk, m_file, m_length, tail, appended, crashes>>

\* Positions: files and headers are counted from 1.
NoPos == <<0, 0>>
Unknown == <<0, 1>>   \* no page in memory

EmptyEntry == [first |-> NoPos, second |-> NoPos]
NoFile == [hdr |-> << >>, top |-> 0]

Init ==
  /\ disk = [index |-> << >>, headers |-> << >>, data |-> << >>]
  /\ m_file = << >>
  /\ m_length = << >>
  /\ tail = [id \in Ids |-> Unknown]
  /\ appended = [id \in Ids |-> << >>]
  /\ crashes = 0

Set(f, k, v) == [x \in DOMAIN f \cup {k} |-> IF x = k THEN v ELSE f[x]]

\* DataFile::close(rw): the files of S are closed for read or for write.
close_for(f, S) == [x \in DOMAIN f \ S |-> f[x]]

-----------------------------------------------------------------------------
(* The index file *)

\* An entry at or behind the end of the file reads as "no page".
get_indices(ix, id) == IF Len(ix) <= id + 1 THEN NoPos ELSE ix[id + 1].first
get_indices2(ix, id) == IF Len(ix) <= id + 1 THEN NoPos ELSE ix[id + 1].second

\* MmapFile::resize(): the file gets n entries, the new ones empty.
resize(ix, n) == [k \in 1 .. n |-> IF k <= Len(ix) THEN ix[k] ELSE EmptyEntry]

\* The file is made large enough for id before an entry is set.
expand(ix, id) == IF Len(ix) < id + 1 THEN resize(ix, id + 1 + Increment) ELSE ix

set_indices(ix, id, pos) == [expand(ix, id) EXCEPT ![id + 1].first = pos]
set_indices2(ix, id, pos) == [expand(ix, id) EXCEPT ![id + 1].second = pos]

\* IndexFile::open() for write creates the file.
open_index(ix) == IF ix = << >> THEN resize(ix, Increment) ELSE ix

-----------------------------------------------------------------------------
(* Header and data files *)

is_full(h) == h.top >= PageCount \/ Len(h.hdr) >= PageCount

\* HeaderFile::open() of a file that is not there yet.
open_header(dk) == [dk EXCEPT !.headers = Append(@, NoFile)]

\* Metric::get_last_header(): a new file when there is none or it is full.
get_last_header(dk) ==
  IF dk.headers = << >> \/ is_full(Last(dk.headers))
  THEN open_header(dk)
  ELSE dk

\* Number of the data file to append to: the one made along with a new header
\* file, else Metric::get_last_data(), the last one there is.  (Without any,
\* back() of an empty vector is undefined.)
get_last_data(old, new) ==
  IF new.headers # old.headers THEN Len(new.headers)
  ELSE IF DOMAIN old.data = {} THEN 0 ELSE Max(DOMAIN old.data)

\* Opening it for write creates it.
create_data(dk, f) == IF f \in DOMAIN dk.data THEN dk ELSE [dk EXCEPT !.data = Set(@, f, << >>)]

\* Variant: the remembered page index is not advanced.
KeepIndex(i) == i

\* m_page_index after one whole page was written.
NextIndex(i) == i + 1

\* DataFile::is_open()
is_open(f, for_read) == f \in DOMAIN (IF for_read THEN m_length ELSE m_file)

\* DataFile::open(false) takes the page index from the length of the file.
page_index(dk, f) == IF is_open(f, FALSE) THEN m_file[f] ELSE Len(dk.data[f])

\* The six writes of append_page(), in order, for page p of series id.  The
\* header gets the remembered page index, wherever the data really went.
Steps(id, crossed, prev, p) ==
  LET d1 == get_last_header(disk)
      f == Len(d1.headers)
      df == get_last_data(disk, d1)
      d2 == [create_data(d1, df) EXCEPT !.index = open_index(@)]
      i == page_index(d2, df)
      d3 == [d2 EXCEPT !.data[df] = Append(@, p)]
      d4 == [d3 EXCEPT !.headers[f].top = IF @ < i THEN i ELSE @,
                       !.headers[f].hdr = Append(@, [page |-> i, next |-> NoPos])]
      pos == <<f, Len(d4.headers[f].hdr)>>
      d5 == IF prev = NoPos
            THEN [d4 EXCEPT !.index = set_indices(@, id, pos)]
            ELSE [d4 EXCEPT !.headers[prev[1]].hdr[prev[2]].next = pos]
      d6 == IF crossed /\ get_indices2(d5.index, id) = NoPos
            THEN [d5 EXCEPT !.index = set_indices2(@, id, pos)]
            ELSE d5
  IN  [disks |-> <<d1, d2, d3, d4, d5, d6>>, pos |-> pos, df |-> df, i |-> i]

-----------------------------------------------------------------------------
(* Chains *)

Positions(dk) == UNION {{<<f, h>> : h \in DOMAIN dk.headers[f].hdr} : f \in DOMAIN dk.headers}
HeaderAt(dk, p) == dk.headers[p[1]].hdr[p[2]]

\* The positions a reader meets from p on.
Follow(dk) ==
  LET follow[p \in Positions(dk)] ==
        <<p>> \o IF HeaderAt(dk, p).next = NoPos THEN << >> ELSE follow[HeaderAt(dk, p).next]
  IN  follow
Chain(dk, id) ==
  LET p == get_indices(dk.index, id) IN IF p = NoPos THEN << >> ELSE Follow(dk)[p]

\* Tsdb::get_last_header_indices() starts from the second entry if it is set.
get_last_header_indices(dk, id) ==
  LET p2 == get_indices2(dk.index, id)
      p == IF p2 = NoPos THEN get_indices(dk.index, id) ELSE p2
  IN  IF p = NoPos THEN NoPos ELSE Last(Follow(dk)[p])

\* What the page in memory takes for the previous page: it asks when it is
\* created and remembers afterwards.
Prev(id) == IF tail[id] = Unknown THEN get_last_header_indices(disk, id) ELSE tail[id]

-----------------------------------------------------------------------------
(* Operations *)

NoOfPages == FoldSet(LAMBDA id, n : Len(appended[id]) + n, 0, Ids)
NewPage(id) == <<id, Len(appended[id]) + 1>>

append_page(id, crossed) ==
  LET st == Steps(id, crossed, Prev(id), NewPage(id))
  IN  /\ NoOfPages < MaxAppends
      /\ disk' = Last(st.disks)
      /\ m_file' = Set(m_file, st.df, NextIndex(st.i))
      /\ tail' = [tail EXCEPT ![id] = st.pos]
      /\ appended' = [appended EXCEPT ![id] = Append(@, NewPage(id))]
      /\ UNCHANGED <<m_length, crashes>>

\* The page in memory of a series goes away, after it was flushed.
close(id) ==
  /\ tail[id] # Unknown
  /\ tail' = [tail EXCEPT ![id] = Unknown]
  /\ UNCHANGED <<disk, m_file, m_length, appended, crashes>>

\* The process dies after the first k writes of append_page().  The page was
\* appended if it got linked.
CrashInAppend(id, crossed, k) ==
  LET st == Steps(id, crossed, Prev(id), NewPage(id))
  IN  /\ crashes < MaxCrashes
      /\ NoOfPages < MaxAppends
      /\ crashes' = crashes + 1
      /\ disk' = IF k = 0 THEN disk ELSE st.disks[k]
      /\ m_file' = << >>
      /\ m_length' = << >>
      /\ tail' = [i \in Ids |-> Unknown]
      /\ appended' = IF k = 5 THEN [appended EXCEPT ![id] = Append(@, NewPage(id))]
                     ELSE appended

\* Length of the mapping after ensure_open(true): the room the file may ever
\* need while it is open for write, what is there otherwise.
open_length(f) ==
  IF is_open(f, TRUE) THEN m_length[f]
  ELSE IF is_open(f, FALSE) THEN PageCount ELSE Len(disk.data[f])

\* Variant: the mapping is never renewed.
NoRemap(f, i) == open_length(f)

\* get_page() fails for a page that is not mapped; remap() then maps what the
\* file has by now.
remap(f, i) == IF i < open_length(f) THEN open_length(f) ELSE Len(disk.data[f])

\* A query, or get_last_tstamp(), reads the data of the page at p.
ReadPage(p) ==
  /\ p[1] \in DOMAIN disk.data
  /\ m_length' = Set(m_length, p[1], remap(p[1], HeaderAt(disk, p).page))
  /\ UNCHANGED <<disk, m_file, tail, appended, crashes>>

\* Tsdb::rotate(): files not read (not written) for long are closed for read
\* (for write); if all are closed then, the shard is unloaded.
rotate(r, w) ==
  /\ r \subseteq DOMAIN m_length /\ w \subseteq DOMAIN m_file
  /\ r \cup w # {}
  /\ m_length' = close_for(m_length, r)
  /\ m_file' = close_for(m_file, w)
  /\ UNCHANGED <<disk, tail, appended, crashes>>

Next ==
  \/ \E id \in Ids, crossed \in BOOLEAN :
       \/ append_page(id, crossed)
       \/ \E k \in CrashPoints : CrashInAppend(id, crossed, k)
  \/ \E id \in Ids : close(id)
  \/ \E p \in Positions(disk) : ReadPage(p)
  \/ \E r \in SUBSET DOMAIN m_length, w \in SUBSET DOMAIN m_file : rotate(r, w)

Spec == Init /\ [][Next]_vars

-----------------------------------------------------------------------------
(* Properties *)

\* A reader that gets to a header finds its page in the data file of the same
\* number, after at most one remap: it never reads behind the end of the file
\* through a mapping that is longer, and is never told that the file cannot be
\* opened.
PagesCanBeRead ==
  \A p \in Positions(disk) :
    LET i == HeaderAt(disk, p).page
    IN  /\ p[1] \in DOMAIN disk.data
        /\ i < remap(p[1], i)
        /\ i < Len(disk.data[p[1]])

\* The index entry of a series points to its first header and the links from
\* there lead through exactly the pages of that series, in the order they were
\* appended, wherever files were closed, reopened, filled up or left behind by
\* a crash.
ChainHoldsPages ==
  \A id \in Ids :
    LET c == Chain(disk, id)
    IN  appended[id] =
          [k \in DOMAIN c |-> disk.data[c[k][1]][HeaderAt(disk, c[k]).page + 1]]
=============================================================================
