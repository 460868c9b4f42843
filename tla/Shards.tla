------------------------------- MODULE Shards -------------------------------
(***************************************************************************)
(* The list of shards (Tsdb::m_tsdbs) and who holds references to them:    *)
(* pages in memory, queries, rotate() and rollup().                        *)
(*                                                                         *)
(* Tsdb::inst() looks for a shard under the read lock of the list, creates *)
(* it under the write lock, and takes the reference after it let go of     *)
(* both.  A page in memory takes over the reference of the inst() that     *)
(* found its shard and gives it back when it moves or is deleted.          *)
(***************************************************************************)
EXTENDS Naturals, Sequences, FiniteSets, FiniteSetsExt, SequencesExt

CONSTANTS
  Writers,    \* series being written, each under its lock
  Days,       \* days points fall into: the days of a past month
  MaxPoints,  \* bound on the points
  MaxQueries  \* bound on the queries, rotations and roll-ups together

VARIABLES
  shards,     \* all Tsdb objects created: day, reference count, READ_WRITE, ROLLED_UP
  m_tsdbs,    \* the list, as indices into shards
  m_buff,     \* series -> shard of its page in memory, 0 without one
  m_ooo_buff,
  onDisk,     \* series -> days it has pages of on disk
  writer,     \* series -> step of add_data_point()
  query,      \* shards a query holds
  rotating,   \* shards rotate() has yet to visit
  rollup,     \* step of Tsdb::rollup() and the shards it holds
  leaked,     \* references inst() took for a page that was never created
  points,
  rounds

shvars == <<shards, m_tsdbs, m_buff, m_ooo_buff, onDisk, writer, query, rotating,
            rollup, leaked, points, rounds>>

NotWriting == [at |-> "idle", day |-> 0, shard |-> 0, ooo |-> FALSE]

ShInit ==
  /\ shards = <<>>
  /\ m_tsdbs = <<>>
  /\ m_buff = [w \in Writers |-> 0]
  /\ m_ooo_buff = [w \in Writers |-> 0]
  /\ onDisk = [w \in Writers |-> {}]
  /\ writer = [w \in Writers |-> NotWriting]
  /\ query = {}
  /\ rotating = <<>>
  /\ rollup = [at |-> "idle", held |-> {}]
  /\ leaked = <<>>
  /\ points = 0
  /\ rounds = 0

\* search(): the shard of a day, 0 when the list has none.
search(d) ==
  LET here == {x \in ToSet(m_tsdbs) : shards[x].day = d}
  IN  IF here = {} THEN 0 ELSE CHOOSE x \in here : TRUE

\* inc_ref_count() and dec_ref_count() of several shards.
Ref(up, down) ==
  [x \in DOMAIN shards |->
     [shards[x] EXCEPT !.refs = (@ + (IF x \in up THEN 1 ELSE 0))
                                   - (IF x \in down THEN 1 ELSE 0)]]

-----------------------------------------------------------------------------
(* TimeSeries::add_data_point() and Tsdb::inst() *)

\* A point for a day: in order when the series has no page in memory or one of
\* an earlier day; late when its page is of a later day.  In the day of its page
\* it may be either, and needs another shard only if the other page has one.
StartPoint(w, d, late) ==
  LET here == m_buff[w]
      ooo == here # 0 /\ (d < shards[here].day \/ (d = shards[here].day /\ late))
      page == IF ooo THEN m_ooo_buff[w] ELSE here
  IN  /\ writer[w].at = "idle"
      /\ points < MaxPoints
      /\ points' = points + 1
      /\ writer' = IF page # 0 /\ shards[page].day = d
                   THEN writer
                   ELSE [writer EXCEPT ![w] = [at |-> "search", day |-> d,
                                               shard |-> 0, ooo |-> ooo]]
      /\ UNCHANGED <<shards, m_tsdbs, m_buff, m_ooo_buff, onDisk, query, rotating,
                     rollup, leaked, rounds>>

\* Under the read lock of the list.
Search(w) ==
  LET x == search(writer[w].day)
  IN  /\ writer[w].at = "search"
      /\ writer' = [writer EXCEPT ![w].at = IF x = 0 THEN "create" ELSE "ref",
                                  ![w].shard = x]
      /\ UNCHANGED <<shards, m_tsdbs, m_buff, m_ooo_buff, onDisk, query, rotating,
                     rollup, leaked, points, rounds>>

\* Under the write lock the list is searched again; only then a shard is
\* created, added and the list sorted.  A shard of a past month is neither
\* readable nor writable until it is used.
Create(w) ==
  LET x == search(writer[w].day)
      new == Len(shards) + 1
  IN  IF x # 0
      THEN /\ writer' = [writer EXCEPT ![w].at = "ref", ![w].shard = x]
           /\ UNCHANGED <<shards, leaked, m_tsdbs>>
      ELSE /\ shards' = Append(shards, [day |-> writer[w].day, refs |-> 0,
                                        rw |-> FALSE, rolled |-> FALSE])
           /\ leaked' = Append(leaked, 0)
           /\ m_tsdbs' = SortSeq(Append(m_tsdbs, new),
                                 LAMBDA a, b : shards'[a].day < shards'[b].day)
           /\ writer' = [writer EXCEPT ![w].at = "ref", ![w].shard = new]

CreateShard(w) ==
  /\ writer[w].at = "create"
  /\ Create(w)
  /\ UNCHANGED <<m_buff, m_ooo_buff, onDisk, query, rotating, rollup, points, rounds>>

\* inc_ref_count(), with neither lock of the list held.
TakeRef(w) ==
  /\ writer[w].at = "ref"
  /\ shards' = Ref({writer[w].shard}, {})
  /\ writer' = [writer EXCEPT ![w].at = "use"]
  /\ UNCHANGED <<m_tsdbs, m_buff, m_ooo_buff, onDisk, query, rotating, rollup,
                 leaked, points, rounds>>

\* Variant: a page that moves to another shard keeps the old reference.
MovesKeeping(old, new) == [Ref({}, {}) EXCEPT ![new].rolled = FALSE, ![new].rw = TRUE]

\* PageInMemory::init(): a page moves from one shard (0: a new page) to another.
\* What it held is given back; get_last_header_indices() makes its new shard
\* readable and no longer rolled up.
Moves(old, new) == [Ref({}, {old}) EXCEPT ![new].rolled = FALSE, ![new].rw = TRUE]

\* get_last_tstamp() as add_data_point() uses it: the first point of a series without
\* a page in memory may be late when the series has pages in the shard, and is taken
\* for late when the shard is rolled up.
LooksOnDisk(w) == ~writer[w].ooo /\ m_buff[w] = 0
RolledUp(w) == shards[writer[w].shard].rolled

\* The page in memory is created in, or moved to, the shard.  What was in it is
\* flushed to its old shard first, which is then writable.
Use(w) ==
  LET x == writer[w].shard
      old == IF writer[w].ooo THEN m_ooo_buff[w] ELSE m_buff[w]
      flushed == Moves(old, x)
  IN  /\ writer[w].at = "use"
      /\ ~(LooksOnDisk(w) /\ RolledUp(w))
      /\ shards' = IF old = 0 THEN flushed ELSE [flushed EXCEPT ![old].rw = TRUE]
      /\ onDisk' = IF old = 0 THEN onDisk
                   ELSE [onDisk EXCEPT ![w] = @ \cup {shards[old].day}]
      /\ m_buff' = IF writer[w].ooo THEN m_buff ELSE [m_buff EXCEPT ![w] = x]
      /\ m_ooo_buff' = IF writer[w].ooo THEN [m_ooo_buff EXCEPT ![w] = x] ELSE m_ooo_buff
      /\ writer' = [writer EXCEPT ![w] = NotWriting]
      /\ UNCHANGED <<m_tsdbs, query, rotating, rollup, leaked, points, rounds>>

\* The series has no page in memory, and its last point on disk in this shard is not
\* older or the shard is rolled up: the point is late.  No page takes the reference;
\* the late point goes through inst() again unless its page is there.
TooLate(w) ==
  LET x == writer[w].shard
      page == m_ooo_buff[w]
  IN  /\ writer[w].at = "use"
      /\ LooksOnDisk(w)
      /\ RolledUp(w) \/ writer[w].day \in onDisk[w]
      /\ leaked' = [leaked EXCEPT ![x] = @ + 1]
      /\ writer' = [writer EXCEPT ![w] =
           IF page # 0 /\ shards[page].day = writer[w].day
           THEN NotWriting
           ELSE [at |-> "search", day |-> writer[w].day, shard |-> 0, ooo |-> TRUE]]
      /\ UNCHANGED <<shards, m_tsdbs, m_buff, m_ooo_buff, onDisk, query, rotating,
                     rollup, points, rounds>>

\* close() and archive() write and delete both pages of a series.
CloseSeries(w) ==
  LET held == {m_buff[w], m_ooo_buff[w]} \ {0}
  IN  /\ writer[w].at = "idle"
      /\ held # {}
      /\ shards' = [x \in DOMAIN shards |->
           IF x \in held
           THEN [shards[x] EXCEPT !.rw = TRUE,
                   !.refs = @ - Cardinality({b \in {1, 2} :
                                  x = IF b = 1 THEN m_buff[w] ELSE m_ooo_buff[w]})]
           ELSE shards[x]]
      /\ onDisk' = [onDisk EXCEPT ![w] = @ \cup {shards[x].day : x \in held}]
      /\ m_buff' = [m_buff EXCEPT ![w] = 0]
      /\ m_ooo_buff' = [m_ooo_buff EXCEPT ![w] = 0]
      /\ UNCHANGED <<m_tsdbs, writer, query, rotating, rollup, leaked, points, rounds>>

-----------------------------------------------------------------------------
(* Queries, rotation and roll-up *)

\* insts(): a reference to every shard of the range, under the lock of the list.
StartQuery ==
  /\ query = {}
  /\ rounds < MaxQueries
  /\ rounds' = rounds + 1
  /\ \E days \in SUBSET Days \ {{}} :
       query' = {x \in ToSet(m_tsdbs) : shards[x].day \in days}
  /\ query' # {}
  /\ shards' = Ref(query', {})
  /\ UNCHANGED <<m_tsdbs, m_buff, m_ooo_buff, onDisk, writer, rotating, rollup,
                 leaked, points>>

\* The query has read its shards, which made them readable.
EndQuery ==
  /\ query # {}
  /\ shards' = [x \in DOMAIN shards |->
                  [Ref({}, query)[x] EXCEPT !.rw = @ \/ x \in query]]
  /\ query' = {}
  /\ UNCHANGED <<m_tsdbs, m_buff, m_ooo_buff, onDisk, writer, rotating, rollup,
                 leaked, points, rounds>>

StartRotate ==
  /\ rotating = <<>>
  /\ m_tsdbs # <<>>
  /\ rounds < MaxQueries
  /\ rounds' = rounds + 1
  /\ rotating' = m_tsdbs
  /\ shards' = Ref(ToSet(m_tsdbs), {})
  /\ UNCHANGED <<m_tsdbs, m_buff, m_ooo_buff, onDisk, writer, query, rollup, leaked,
                 points>>

\* Under the lock of one shard: when its files have not been used for a while
\* all are closed and it is unloaded.
RotateOne ==
  /\ rotating # <<>>
  /\ \E idle \in BOOLEAN :
       shards' = [Ref({}, {Head(rotating)}) EXCEPT ![Head(rotating)].rw = @ /\ ~idle]
  /\ rotating' = Tail(rotating)
  /\ UNCHANGED <<m_tsdbs, m_buff, m_ooo_buff, onDisk, writer, query, rollup, leaked,
                 points, rounds>>

\* rollup(): the oldest shard that is not rolled up must be neither writable nor
\* referenced; then a reference to every shard of its month is taken.
StartRollup ==
  LET open == SelectSeq(m_tsdbs, LAMBDA x : ~shards[x].rolled)
  IN  /\ rollup.at = "idle"
      /\ rounds < MaxQueries
      /\ open # <<>>
      /\ ~shards[Head(open)].rw
      /\ shards[Head(open)].refs = 0
      /\ rounds' = rounds + 1
      /\ shards' = Ref(ToSet(m_tsdbs), {})
      /\ rollup' = [at |-> "test", held |-> ToSet(m_tsdbs)]
      /\ UNCHANGED <<m_tsdbs, m_buff, m_ooo_buff, onDisk, writer, query, rotating,
                     leaked, points>>

\* Any other reference to one of them ends it.
TestInUse ==
  /\ rollup.at = "test"
  /\ IF \E x \in rollup.held : shards[x].refs > 1
     THEN /\ shards' = Ref({}, rollup.held)
          /\ rollup' = [at |-> "idle", held |-> {}]
     ELSE /\ rollup' = [rollup EXCEPT !.at = "mark"]
          /\ UNCHANGED shards
  /\ UNCHANGED <<m_tsdbs, m_buff, m_ooo_buff, onDisk, writer, query, rotating, leaked,
                 points, rounds>>

\* The daily entries are written; the shards are marked one by one.
MarkRolledUp ==
  /\ rollup.at = "mark"
  /\ \E x \in rollup.held :
       /\ shards' = [Ref({}, {x}) EXCEPT ![x].rolled = TRUE]
       /\ rollup' = IF rollup.held = {x} THEN [at |-> "idle", held |-> {}]
                    ELSE [rollup EXCEPT !.held = @ \ {x}]
  /\ UNCHANGED <<m_tsdbs, m_buff, m_ooo_buff, onDisk, writer, query, rotating, leaked,
                 points, rounds>>

ShNext ==
  \/ \E w \in Writers, d \in Days, late \in BOOLEAN : StartPoint(w, d, late)
  \/ \E w \in Writers : Search(w) \/ CreateShard(w) \/ TakeRef(w) \/ Use(w)
                        \/ TooLate(w) \/ CloseSeries(w)
  \/ StartQuery \/ EndQuery
  \/ StartRotate \/ RotateOne
  \/ StartRollup \/ TestInUse \/ MarkRolledUp

ShSpec == ShInit /\ [][ShNext]_shvars

-----------------------------------------------------------------------------
(* Properties *)

\* A shard with a user is never counted as unused, and one without users only
\* because of the late points inst() took a reference for: the reference count
\* is the pages, queries and maintenance tasks that hold the shard, plus those.
RefsAreHolders ==
  \A x \in DOMAIN shards :
    shards[x].refs = leaked[x]
      + Cardinality({w \in Writers : m_buff[w] = x})
      + Cardinality({w \in Writers : m_ooo_buff[w] = x})
      + Cardinality({w \in Writers : writer[w].at = "use" /\ writer[w].shard = x})
      + (IF x \in query THEN 1 ELSE 0)
      + (IF x \in ToSet(rotating) THEN 1 ELSE 0)
      + (IF x \in rollup.held THEN 1 ELSE 0)
=============================================================================
