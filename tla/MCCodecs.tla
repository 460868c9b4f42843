----------------------------- MODULE MCCodecs ------------------------------
(***************************************************************************)
(* Finite instances, for TLC, of what turns data into bytes or text and    *)
(* back: BitSet, the compressors of pages, the roll-up data files, JSON    *)
(* and the handlers that store points.  A behaviour is one of one          *)
(* component, which part names; the others stay as they start.             *)
(***************************************************************************)
EXTENDS Integers, Sequences

CONSTANTS
  ByteBits, Bytes, Sources,
  FirstBits, SmallBits, MidBits, LargeBits, Half, HalfLog, DigitBits, LongBytes, Unit, SubUnit,
  Formats, Start, Times, Nums, PageBits, PageDps, CountMod, MaxDps,
  Entries, Base, Precision, BuffSize, MaxEntries,
  Documents,
  PlainRequests, JsonRequests, InfluxRequests, Batches, RefusedMetrics

VARIABLES
  part,
  bs, thrown, image, rd, out,
  cz, logged, given,
  disk, obj, added, dropped,
  text, asked, got,
  req, pos, success, counts, reply, taken, tried, cps

Bit == INSTANCE BitSet
Comp == INSTANCE Compressors
Roll == INSTANCE RollupFile
Js == INSTANCE Json
Put == INSTANCE Ingest

-----------------------------------------------------------------------------
(* Values of the constants *)

TwoBytes == {<<[i \in 0..1 |-> 1 - i], [i \in 0..1 |-> 1]>>}
Versions == {<<0, 1>>, <<1, 1>>, <<1, 2>>, <<2, 1>>, <<3, 1>>}

Entry(tid, cnt, min, max, sum) ==
  [tid |-> tid, cnt |-> cnt, min |-> min, max |-> max, sum |-> sum]
ThreeEntries == {Entry(1, 0, 0, 0, 0), Entry(2, 3, -9, 7, -64), Entry(9, 5, -40, 250, -250)}

Leaf(type, s) == [type |-> type, s |-> s]
Array(items) == [type |-> "array", items |-> items]
Object(pairs) == [type |-> "map", pairs |-> pairs]
Lists(vs) == {Array(<<>>)} \cup {Array(<<x>>) : x \in vs} \cup {Array(<<x, y>>) : x, y \in vs}
Maps(vs) ==
  {Object({})} \cup {Object({<<"k", x>>}) : x \in vs}
     \cup {Object({<<"k", x>>, <<"l", y>>}) : x, y \in vs}
Leaves == {Leaf("string", "a"), Leaf("double", "1")}
Nested == Leaves \cup {Leaf("bool", "true")} \cup Maps(Leaves) \cup Lists(Leaves)
TwoLevels == Lists(Nested) \cup Maps(Nested)

SeqsTo(set, n) == UNION {[1..k -> set] : k \in 1..n}
Tag(k, v, q) == [key |-> k, val |-> v, quoted |-> q]
TagLists ==
  {<<>>, <<Tag("a", "x", TRUE)>>, <<Tag("a", "x", TRUE), Tag("b", "1", FALSE)>>,
   <<Tag("b", "1", FALSE), Tag("a", "x", TRUE)>>}
Points ==
  {[metric |-> m, time |-> "5", value |-> "7", tags |-> t] : m \in {"good", "bad"}, t \in TagLists}
Lines ==
  {[kind |-> "put", point |-> p] : p \in {q \in Points : Len(q.tags) # 1}}
     \cup {[kind |-> k] : k \in {"cp", "blank", "other"}}
PlainPuts == SeqsTo(Lines, 3)
KeyOrders ==
  {<<"metric", "timestamp", "value", "tags">>, <<"tags", "metric", "timestamp", "value">>,
   <<"metric", "tags", "value", "timestamp">>, <<"metric", "extra">>}
Objects == {[point |-> p, order |-> o] : p \in Points, o \in KeyOrders}
JsonPuts ==
  {[array |-> a, points |-> <<x>>] : a \in BOOLEAN, x \in Objects}
     \cup {[array |-> TRUE, points |-> <<x, y>>] : x, y \in Objects}
FieldLists ==
  {<<[key |-> "f", val |-> "1"]>>, <<[key |-> "f", val |-> "1"], [key |-> "g", val |-> "2"]>>}
InfluxPuts ==
  SeqsTo({[kind |-> "line", metric |-> m, tags |-> t, fields |-> f, time |-> w] :
            m \in {"good", "bad"}, t \in TagLists, f \in FieldLists, w \in {"", "9"}}
           \cup {[kind |-> "comment"]}, 2)
Datagrams == SeqsTo(Points, 2)

-----------------------------------------------------------------------------

bitvars == <<bs, thrown, image, rd, out>>
compvars == <<cz, logged, given>>
rollvars == <<disk, obj, added, dropped>>
jsonvars == <<text, asked, got>>
putvars == <<req, pos, success, counts, reply, taken, tried, cps>>

\* A set of bits or a compressor that is not used has one initial state.
CodecsInit ==
  /\ part \in {"bit", "comp", "roll", "json", "put"}
  /\ IF part = "bit" THEN Bit!BInit
     ELSE /\ bs = Bit!Fresh(CHOOSE mem \in Bit!Memories : TRUE)
          /\ thrown = FALSE /\ image = [mem |-> <<>>, offset |-> 0, start |-> 0]
          /\ rd = Bit!new_cursor /\ out = <<>>
  /\ IF part = "comp" THEN Comp!CInit
     ELSE cz = Comp!Empty(<<3, 1>>) /\ logged = Comp!NoPage /\ given = <<>>
  /\ Roll!FInit /\ Js!JInit /\ Put!InInit

\* Receive() resets all of a handler: one request per behaviour is enough.
CodecsNext ==
  /\ UNCHANGED part
  /\ \/ part = "bit" /\ Bit!BNext /\ UNCHANGED <<compvars, rollvars, jsonvars, putvars>>
     \/ part = "comp" /\ Comp!CNext /\ UNCHANGED <<bitvars, rollvars, jsonvars, putvars>>
     \/ part = "roll" /\ Roll!FNext /\ UNCHANGED <<bitvars, compvars, jsonvars, putvars>>
     \/ part = "json" /\ Js!JNext /\ UNCHANGED <<bitvars, compvars, rollvars, putvars>>
     \/ /\ part = "put" /\ (req = Put!NoRequest => pos = 0) /\ Put!InNext
        /\ UNCHANGED <<bitvars, compvars, rollvars, jsonvars>>

CodecsSpec ==
  CodecsInit /\ [][CodecsNext]_<<part, bitvars, compvars, rollvars, jsonvars, putvars>>

-----------------------------------------------------------------------------
(* Properties, as the modules state them *)

\* BitSet: its bytes and cursors implement a log of bits.
ImplementsBitLog == Bit!ImplementsBitLog

\* Compressor: a page gives back the points it took.
RoundTrip == part = "comp" => Comp!RoundTrip

\* Compressor: rounding errors add up by less than a step of the precision per point.
DriftIsBounded == part = "comp" => Comp!DriftIsBounded

\* RollupDataFile: a query reads every entry, in order.
ReadsWhatWasAdded == part = "roll" => Roll!ReadsWhatWasAdded

\* RollupDataFile: a file cut short reads as its whole entries.
TornTailIsDropped == part = "roll" => Roll!TornTailIsDropped

\* JsonParser: what was written is what is parsed.
ParsesBack == part = "json" => Js!ParsesBack

\* Handlers of puts: every point that can be read is given to the store.
EveryPointTried == part = "put" => Put!EveryPointTried
=============================================================================
