------------------------------ MODULE Registry ------------------------------
(***************************************************************************)
(* Which time series a data point belongs to: the map of a metric          *)
(* (Mapping::m_map), its measurements, the ids of the series, and the meta *)
(* file ("ts") from which all of it is rebuilt at the next start.          *)
(*                                                                         *)
(* Points arrive in two formats.  'put' names a metric and tags; the       *)
(* line protocol names a metric, tags and fields, and gets one series per  *)
(* field, kept together in a Measurement.  A series of the first kind that *)
(* already exists becomes the "value" field of the Measurement.            *)
(*                                                                         *)
(* A mapping stands for one set of tags of a metric, in several spellings. *)
(* Ids come from one counter shared by all mappings; an id is drawn, and   *)
(* its line written to the meta file, under the lock of one mapping only.  *)
(***************************************************************************)
EXTENDS Naturals, Sequences, SequencesExt, FiniteSets

CONSTANTS
  Threads,    \* threads that handle requests
  Mappings,   \* metrics with a set of tags
  Spellings,  \* spellings of the tags
  Ordered,    \* the one with the tags in order
  Formats,    \* formats in use: "put", "line"
  Requests,   \* the lists of fields of line protocol requests
  MaxPuts,    \* bound on the number of requests
  MaxStarts   \* bound on the number of restarts

Value == "value"     \* TT_FIELD_VALUE
None == "none"
Free == "free"

VARIABLES
  m_next_id,    \* TimeSeries::m_next_id
  m_map,        \* mapping -> spelling -> type of what it is mapped to
  ts,           \* mapping -> ids of its series without a field
  mm,           \* mapping -> its Measurement: sequence of <<field, id>>
  file,         \* lines of the meta file
  lock,         \* mapping -> thread that holds its write lock
  mlock,        \* mapping -> thread that holds the lock of its Measurement
  thread,       \* thread -> what it is doing
  owner,        \* id -> the series whose points were stored under it
  puts, starts  \* number of requests, of restarts

vars == <<m_next_id, m_map, ts, mm, file, lock, mlock, thread, owner, puts, starts>>

Idle == [pc |-> "idle"]
NoMap == [sp \in Spellings |-> None]

Init ==
  /\ m_next_id = 0
  /\ m_map = [m \in Mappings |-> NoMap]
  /\ ts = [m \in Mappings |-> << >>]
  /\ mm = [m \in Mappings |-> << >>]
  /\ file = << >>
  /\ lock = [m \in Mappings |-> Free]
  /\ mlock = [m \in Mappings |-> Free]
  /\ thread = [t \in Threads |-> Idle]
  /\ owner = << >>
  /\ puts = 0
  /\ starts = 0

\* The meta file: one line per series, or per Measurement with its fields.
TsLine(m, id) == [m |-> m, format |-> "put", fields |-> <<<<Value, id>>>>]
FieldLine(m, fields) == [m |-> m, format |-> "line", fields |-> fields]

\* The id of a field of a Measurement, as a set.
IdOf(m, f) == {e[2] : e \in {x \in ToSet(mm[m]) : x[1] = f}}

-----------------------------------------------------------------------------
(* Looking up the mapping: get_ts() and get_measurement() *)

Goto(t, th) == thread' = [thread EXCEPT ![t] = th]
At(t, pc) == thread[t].pc = pc

\* A request arrives.  For 'put' the only field is the value.
Start(t, m, sp, format, fields) ==
  /\ At(t, "idle")
  /\ puts < MaxPuts
  /\ puts' = puts + 1
  /\ Goto(t, [pc |-> "find", m |-> m, sp |-> sp, format |-> format,
              bt |-> None, idx |-> 1, todo |-> fields, new |-> << >>])
  /\ UNCHANGED <<m_next_id, m_map, ts, mm, file, lock, mlock, owner, starts>>

\* What the format is looking for is there already.
Found(th, sp) == \/ m_map[th.m][sp] = "measurement"
                 \/ th.format = "put" /\ m_map[th.m][sp] = "ts"

\* Under the read lock, by the spelling of the request.
FindRaw(t) ==
  LET th == thread[t]
  IN  /\ At(t, "find")
      /\ lock[th.m] = Free
      /\ Goto(t, [th EXCEPT !.pc = IF Found(th, th.sp) THEN "add" ELSE "create",
                            !.bt = m_map[th.m][th.sp]])
      /\ UNCHANGED <<m_next_id, m_map, ts, mm, file, lock, mlock, owner, puts, starts>>

\* Under the write lock, by the ordered tags; the spelling of the request is
\* entered too.
FindOrdered(t) ==
  LET th == thread[t]
  IN  /\ At(t, "create")
      /\ lock[th.m] = Free
      /\ Found(th, Ordered)
      /\ m_map' = [m_map EXCEPT ![th.m][th.sp] = m_map[th.m][Ordered]]
      /\ Goto(t, [th EXCEPT !.pc = "add", !.bt = m_map[th.m][Ordered]])
      /\ UNCHANGED <<m_next_id, ts, mm, file, lock, mlock, owner, puts, starts>>

\* Variant: what another thread did before the lock was taken is not noticed.
LockMappingBlindly(t) ==
  LET th == thread[t]
  IN  /\ At(t, "create")
      /\ lock[th.m] = Free
      /\ lock' = [lock EXCEPT ![th.m] = t]
      /\ Goto(t, [th EXCEPT !.pc = "draw"])
      /\ UNCHANGED <<m_next_id, m_map, ts, mm, file, mlock, owner, puts, starts>>

\* It is not there: the write lock is kept while it is created.
LockMapping(t) ==
  LET th == thread[t]
  IN  /\ At(t, "create")
      /\ lock[th.m] = Free
      /\ ~Found(th, Ordered)
      /\ lock' = [lock EXCEPT ![th.m] = t]
      /\ Goto(t, [th EXCEPT !.pc = "draw"])
      /\ UNCHANGED <<m_next_id, m_map, ts, mm, file, mlock, owner, puts, starts>>

\* m_next_id.fetch_add(1), once for each new series.
DrawId(t) ==
  LET th == thread[t]
  IN  /\ At(t, "draw")
      /\ Len(th.new) < Len(th.todo)
      /\ m_next_id' = m_next_id + 1
      /\ Goto(t, [th EXCEPT !.new = Append(@, <<th.todo[Len(@) + 1], m_next_id>>)])
      /\ UNCHANGED <<m_map, ts, mm, file, lock, mlock, owner, puts, starts>>

\* The line of a new series is written; the series is entered in the map.
CreateTs(t) ==
  LET th == thread[t]
      id == th.new[1][2]
  IN  /\ At(t, "draw")
      /\ th.format = "put"
      /\ Len(th.new) = Len(th.todo)
      /\ file' = Append(file, TsLine(th.m, id))
      /\ ts' = [ts EXCEPT ![th.m] = Append(@, id)]
      /\ m_map' = [m_map EXCEPT ![th.m][Ordered] = "ts", ![th.m][th.sp] = "ts"]
      /\ lock' = [lock EXCEPT ![th.m] = Free]
      /\ Goto(t, [th EXCEPT !.pc = "add", !.bt = "ts", !.new = << >>])
      /\ UNCHANGED <<m_next_id, mm, mlock, owner, puts, starts>>

\* The line of a new Measurement is written, and it takes in the series that
\* the mapping had before.
CreateMeasurement(t) ==
  LET th == thread[t]
      old == [i \in DOMAIN ts[th.m] |-> <<Value, ts[th.m][i]>>]
  IN  /\ At(t, "draw")
      /\ th.format = "line"
      /\ Len(th.new) = Len(th.todo)
      /\ file' = Append(file, FieldLine(th.m, th.new))
      /\ mm' = [mm EXCEPT ![th.m] = th.new \o old]
      /\ m_map' = [m_map EXCEPT ![th.m][Ordered] = "measurement", ![th.m][th.sp] = "measurement"]
      /\ lock' = [lock EXCEPT ![th.m] = Free]
      /\ Goto(t, [th EXCEPT !.pc = "add", !.bt = "measurement", !.new = << >>])
      /\ UNCHANGED <<m_next_id, ts, mlock, owner, puts, starts>>

-----------------------------------------------------------------------------
(* Adding the points *)

\* A point of series <<m, f>> is stored under id.
Store(id, m, f) ==
  owner' = [i \in DOMAIN owner \cup {id} |->
              (IF i \in DOMAIN owner THEN owner[i] ELSE {}) \cup
              (IF i = id THEN {<<m, f>>} ELSE {})]

\* The map leads to a series without fields.
AddToTs(t) ==
  LET th == thread[t]
  IN  /\ At(t, "add")
      /\ th.bt = "ts"
      /\ Store(ts[th.m][1], th.m, Value)
      /\ Goto(t, Idle)
      /\ UNCHANGED <<m_next_id, m_map, ts, mm, file, lock, mlock, puts, starts>>

\* The map leads to a Measurement: the fields are looked for under its lock.
LockMeasurement(t) ==
  LET th == thread[t]
  IN  /\ At(t, "add")
      /\ th.bt = "measurement"
      /\ mlock[th.m] = Free
      /\ mlock' = [mlock EXCEPT ![th.m] = t]
      /\ Goto(t, [th EXCEPT !.pc = "field"])
      /\ UNCHANGED <<m_next_id, m_map, ts, mm, file, lock, owner, puts, starts>>

Swap(s, i, j) == [s EXCEPT ![i] = s[j], ![j] = s[i]]

\* Where field f is: looked for at place idx first.
PlaceOf(s, f, idx) ==
  IF idx <= Len(s) /\ s[idx][1] = f THEN idx ELSE CHOOSE k \in DOMAIN s : s[k][1] = f

\* The line protocol moves the field to the place it has in the request.
AddToField(t) ==
  LET th == thread[t]
      f == Head(th.todo)
      s == mm[th.m]
      i == PlaceOf(s, f, th.idx)
  IN  /\ At(t, "field")
      /\ th.todo # << >>
      /\ IdOf(th.m, f) # {}
      /\ Store(s[i][2], th.m, f)
      /\ mm' = IF th.format = "line" /\ th.idx <= Len(s)
               THEN [mm EXCEPT ![th.m] = Swap(s, i, th.idx)]
               ELSE mm
      /\ Goto(t, [th EXCEPT !.todo = Tail(@), !.idx = @ + 1])
      /\ UNCHANGED <<m_next_id, m_map, ts, file, lock, mlock, puts, starts>>

\* The Measurement has no such field yet: Measurement::add_ts().
DrawFieldId(t) ==
  LET th == thread[t]
  IN  /\ At(t, "field")
      /\ th.todo # << >>
      /\ IdOf(th.m, Head(th.todo)) = {}
      /\ m_next_id' = m_next_id + 1
      /\ Goto(t, [th EXCEPT !.pc = "addfield", !.new = <<<<Head(th.todo), m_next_id>>>>])
      /\ UNCHANGED <<m_map, ts, mm, file, lock, mlock, owner, puts, starts>>

AddField(t) ==
  LET th == thread[t]
  IN  /\ At(t, "addfield")
      /\ file' = Append(file, FieldLine(th.m, th.new))
      /\ mm' = [mm EXCEPT ![th.m] = @ \o th.new]
      /\ Store(th.new[1][2], th.m, Head(th.todo))
      /\ Goto(t, [th EXCEPT !.pc = "field", !.new = << >>, !.todo = Tail(@), !.idx = @ + 1])
      /\ UNCHANGED <<m_next_id, m_map, ts, lock, mlock, puts, starts>>

FieldsDone(t) ==
  LET th == thread[t]
  IN  /\ At(t, "field")
      /\ th.todo = << >>
      /\ mlock' = [mlock EXCEPT ![th.m] = Free]
      /\ Goto(t, Idle)
      /\ UNCHANGED <<m_next_id, m_map, ts, mm, file, lock, owner, puts, starts>>

-----------------------------------------------------------------------------
(* MetaFile::init() *)

EmptyRegistry == [next |-> 0, map |-> [m \in Mappings |-> NoMap],
                  ts |-> [m \in Mappings |-> << >>], mm |-> [m \in Mappings |-> << >>]]

MaxOf(a, b) == IF a < b THEN b ELSE a

\* restore_ts(): the series gets the id of its line.
RestoreTs(r, line) ==
  LET id == line.fields[1][2]
  IN  [r EXCEPT !.ts[line.m] = Append(@, id),
                !.map[line.m][Ordered] = "ts",
                !.next = MaxOf(@, id + 1)]

\* Variant: the counter is not advanced for all fields of a line.
RestoreFieldsOneId(r, line) ==
  LET old == IF r.map[line.m][Ordered] = "ts"
             THEN [i \in DOMAIN r.ts[line.m] |-> <<Value, r.ts[line.m][i]>>]
             ELSE r.mm[line.m]
      new == [i \in DOMAIN line.fields |-> <<line.fields[i][1], r.next + i - 1>>]
  IN  [r EXCEPT !.mm[line.m] = old \o new,
                !.map[line.m][Ordered] = "measurement",
                !.next = @ + 1]

\* restore_measurement(): the fields get new ids, in the order of the line.
RestoreFields(r, line) ==
  LET old == IF r.map[line.m][Ordered] = "ts"
             THEN [i \in DOMAIN r.ts[line.m] |-> <<Value, r.ts[line.m][i]>>]
             ELSE r.mm[line.m]
      new == [i \in DOMAIN line.fields |-> <<line.fields[i][1], r.next + i - 1>>]
  IN  [r EXCEPT !.mm[line.m] = old \o new,
                !.map[line.m][Ordered] = "measurement",
                !.next = @ + Len(new)]

RestoreLine(r, line) ==
  IF line.format = "put" THEN RestoreTs(r, line) ELSE RestoreFields(r, line)

\* A normal shutdown writes the whole file; the next start reads it.
Restart ==
  LET r == FoldLeft(RestoreLine, EmptyRegistry, file)
  IN  /\ starts < MaxStarts
      /\ starts' = starts + 1
      /\ \A t \in Threads : At(t, "idle")
      /\ m_next_id' = r.next
      /\ m_map' = r.map
      /\ ts' = r.ts
      /\ mm' = r.mm
      /\ UNCHANGED <<file, lock, mlock, thread, owner, puts>>

Put(t) ==
  \E m \in Mappings, sp \in Spellings :
    \/ "put" \in Formats /\ Start(t, m, sp, "put", <<Value>>)
    \/ "line" \in Formats /\ \E fields \in Requests : Start(t, m, sp, "line", fields)

Next ==
  \/ \E t \in Threads :
       \/ Put(t)
       \/ FindRaw(t)
       \/ FindOrdered(t)
       \/ LockMapping(t)
       \/ DrawId(t)
       \/ CreateTs(t)
       \/ CreateMeasurement(t)
       \/ AddToTs(t)
       \/ LockMeasurement(t)
       \/ AddToField(t)
       \/ DrawFieldId(t)
       \/ AddField(t)
       \/ FieldsDone(t)
  \/ Restart

Spec == Init /\ [][Next]_vars

-----------------------------------------------------------------------------
(* Properties *)

\* An id never gets points of two series, also over restarts: a series that
\* was restored finds its own pages under its id.
NoMixing == \A i \in DOMAIN owner : Cardinality(owner[i]) <= 1

\* Every line of a Measurement was written when the counter a restart rebuilds
\* from the lines before it stands at the first of its ids.
LinesInOrder ==
  \A k \in DOMAIN file : file[k].format = "line" =>
    LET next == FoldLeft(RestoreLine, EmptyRegistry, SubSeq(file, 1, k - 1)).next
    IN  \A i \in DOMAIN file[k].fields : file[k].fields[i][2] = next + i - 1

\* No restart yet, or only restarts from lines in order.
Orderly == starts = 0 \/ LinesInOrder

\* Two threads that see the same new series first create it once, and no two
\* series share an id: no field of a Measurement and no mapping occurs twice.
OneIdPerSeries == Orderly =>
  /\ \A m \in Mappings : Len(ts[m]) <= 1
  /\ \A m \in Mappings : \A i, j \in DOMAIN mm[m] :
       mm[m][i][1] = mm[m][j][1] \/ mm[m][i][2] = mm[m][j][2] => i = j
  /\ \A m, n \in Mappings : m # n =>
       {e[2] : e \in ToSet(mm[m])} \cap {e[2] : e \in ToSet(mm[n])} = {}

\* As long as the lines of Measurements reach the meta file in the order of
\* their ids, restarts change nothing: an id never gets points of two series
\* and is not handed out again, and all points of a series are under one id,
\* also when the series was taken into a Measurement.  Lines of single series
\* may come in any order.
OwnPages ==
  Orderly =>
    /\ NoMixing
    /\ \A i \in DOMAIN owner : i < m_next_id
    /\ \A i, j \in DOMAIN owner : owner[i] \cap owner[j] # {} => i = j
=============================================================================
