------------------------------- MODULE Ingest -------------------------------
(***************************************************************************)
(* How data points come in: the plain, JSON and InfluxDB requests, and UDP *)
(* datagrams; their parsers, the loops of the handlers and the answers.    *)
(*                                                                         *)
(* A text is a sequence of symbols: separators and words.  The store       *)
(* refuses the points of some metrics (Mapping::add() returns false), and  *)
(* appends the others.                                                     *)
(***************************************************************************)
EXTENDS Integers, Sequences, SequencesExt

CONSTANTS
  PlainRequests,    \* sequences of lines, [kind, point]
  JsonRequests,     \* [array, points]: points with the order of their keys
  InfluxRequests,   \* sequences of lines, [kind, metric, tags, fields, time]
  Batches,          \* sequences of points, a datagram each
  RefusedMetrics    \* metrics whose points are refused

VARIABLES
  req,              \* [syntax, array, items], or NoRequest
  pos,              \* how far the handler is: items, or symbols of a JSON text
  success,          \* local of the plain and the write handler
  counts,           \* success and failed of the JSON handler
  reply,            \* <<>>, or the answer to the last request
  taken,            \* points of this request that were stored
  tried,            \* ghost: points of this request given to the store
  cps               \* ghost: for each check-point recorded, how many points were tried

invars == <<req, pos, success, counts, reply, taken, tried, cps>>

NoRequest == [syntax |-> "none", array |-> FALSE, items |-> <<>>]

-----------------------------------------------------------------------------
(* Texts *)

W(s) == [k |-> "word", s |-> s]
Q(s) == [k |-> "quoted", s |-> s]
S(k) == [k |-> k, s |-> ""]

\* The first symbol from i on that is one of ks, or the end.
Find(text, i, ks) ==
  LET later == {j \in i .. Len(text) : text[j].k \in ks}
  IN  IF later = {} THEN Len(text) + 1 ELSE CHOOSE j \in later : \A l \in later : j <= l

TagText(tags, comma) ==
  FlattenSeq([i \in 1 .. Len(tags) |->
                <<S(comma), W(tags[i].key), S("="), W(tags[i].val)>>])

\* "metric timestamp value tag1=val1 tag2=val2\n"
PlainText(p) ==
  <<W(p.metric), S(" "), W(p.time), S(" "), W(p.value)>> \o TagText(p.tags, " ") \o <<S("\n")>>

\* {"metric":..., "timestamp":..., "value":..., "tags":{...}}, in some order
JsonText(p, order) ==
  LET Tag(t) == <<Q(t.key), S(":"), IF t.quoted THEN Q(t.val) ELSE W(t.val)>>
      Listed(parts) == FlattenSeq([i \in 1 .. Len(parts) |->
                         IF i = 1 THEN parts[i] ELSE <<S(",")>> \o parts[i]])
      Part(key) ==
        <<Q(key), S(":")>> \o
        CASE key = "metric" -> <<Q(p.metric)>>
          [] key = "timestamp" -> <<W(p.time)>>
          [] key = "value" -> <<W(p.value)>>
          [] key = "tags" -> <<S("{")>> \o Listed([i \in 1 .. Len(p.tags) |-> Tag(p.tags[i])])
                               \o <<S("}")>>
          [] OTHER -> <<W(p.value)>>
  IN  <<S("{")>> \o Listed([i \in 1 .. Len(order) |-> Part(order[i])]) \o <<S("}")>>

\* One point, or an array of points.
JsonBody(r) ==
  LET Point(i) == JsonText(r.items[i].point, r.items[i].order)
  IN  IF ~r.array THEN Point(1)
      ELSE <<S("[")>> \o FlattenSeq([i \in 1 .. Len(r.items) |->
             IF i = 1 THEN Point(i) ELSE <<S(",")>> \o Point(i)]) \o <<S("]")>>

\* "measurement,tag1=val1,tag2=val2 field1=value1,field2=value2 timestamp\n"
InfluxText(l) ==
  LET fields == FlattenSeq([i \in 1 .. Len(l.fields) |->
                  <<S(IF i = 1 THEN " " ELSE ","), W(l.fields[i].key), S("="), W(l.fields[i].val)>>])
  IN  <<W(l.metric)>> \o TagText(l.tags, ",") \o fields \o
      (IF l.time = "" THEN <<>> ELSE <<S(" "), W(l.time)>>) \o <<S("\n")>>

-----------------------------------------------------------------------------
(* DataPoint::from_plain() and parse_raw_tags() *)

\* Tags between commas, each split at its equal sign.
RECURSIVE parse_raw_tags(_)
parse_raw_tags(raw) ==
  LET comma == Find(raw, 1, {","})
      eq == Find(raw, 1, {"="})
  IN  IF raw = <<>> THEN <<>>
      ELSE <<[key |-> raw[eq - 1].s, val |-> raw[eq + 1].s]>>
             \o parse_raw_tags(SubSeq(raw, comma + 1, Len(raw)))

\* The spaces between the tags become commas.
from_plain(text) ==
  LET t == Find(text, 1, {" "}) + 1
      v == Find(text, t, {" "}) + 1
      raw == Find(text, v, {" ", "\n"})
      end == Find(text, raw, {"\n"})
      tags == [i \in 1 .. end - raw - 1 |->
                 IF text[raw + i].k = " " THEN S(",") ELSE text[raw + i]]
  IN  [metric |-> text[1].s, time |-> text[t].s, value |-> text[v].s,
       tags |-> parse_raw_tags(tags)]

-----------------------------------------------------------------------------
(* DataPoint::from_json() *)

Null == [null |-> TRUE]

\* next_value(): the symbol after a word (a number or a Boolean) is overwritten,
\* and closed tells that it was the brace.  Other words are not accepted.
next_value(text, i) ==
  LET v == IF text[i].k = ":" THEN i + 1 ELSE i
  IN  CASE text[v].k = "quoted" -> [null |-> FALSE, val |-> text[v].s, at |-> v + 1, closed |-> FALSE]
        [] text[v].k = "word" -> [null |-> FALSE, val |-> text[v].s, at |-> v + 2,
                                  closed |-> text[v + 1].k = "}"]
        [] OTHER -> Null

\* The loop of next_tags(), up to a brace or the end of the text.
RECURSIVE TagsFrom(_, _, _, _)
TagsFrom(text, i, tags, closed) ==
  IF i > Len(text) \/ text[i].k = "}"
  THEN [null |-> FALSE, tags |-> tags, at |-> IF i > Len(text) \/ closed THEN i ELSE i + 1]
  ELSE LET name == Find(text, i, {"quoted"})
           r == IF name > Len(text) THEN Null ELSE next_value(text, name + 1)
       IN  IF r.null THEN Null
           ELSE TagsFrom(text, r.at, Append(tags, [key |-> text[name].s, val |-> r.val]),
                         closed \/ r.closed)

NoPoint == [metric |-> "", time |-> "", value |-> "", tags |-> <<>>]

\* The loop of from_json() over the keys.
RECURSIVE FieldsFrom(_, _, _)
FieldsFrom(text, i, p) ==
  IF i > Len(text) \/ text[i].k = "}" THEN [null |-> FALSE, point |-> p, at |-> i + 1]
  ELSE LET k == Find(text, i, {"quoted"})
           key == text[k].s
           word == Find(text, k + 1, {"quoted"})
           number == Find(text, k + 1, {"word"})
           tags == TagsFrom(text, Find(text, k + 1, {"{"}) + 1, <<>>, FALSE)
       IN  IF k > Len(text) THEN Null
           ELSE CASE key = "metric" -> FieldsFrom(text, word + 1, [p EXCEPT !.metric = text[word].s])
                  [] key = "timestamp" -> FieldsFrom(text, number + 1, [p EXCEPT !.time = text[number].s])
                  [] key = "value" -> FieldsFrom(text, number + 1, [p EXCEPT !.value = text[number].s])
                  [] key = "tags" -> IF tags.null THEN Null
                                     ELSE FieldsFrom(text, tags.at, [p EXCEPT !.tags = tags.tags])
                  [] OTHER -> Null

from_json(text, i) == FieldsFrom(text, Find(text, i, {"{"}) + 1, NoPoint)

-----------------------------------------------------------------------------
(* Tsdb::parse_line(): the metric, the tags, the fields and the timestamp *)

RECURSIVE LineFields(_, _)
LineFields(text, i) ==
  LET eq == Find(text, i, {"="})
      end == Find(text, eq, {",", " ", "\n"})
      rest == IF text[end].k = "," THEN LineFields(text, end + 1) ELSE [fields |-> <<>>, at |-> end]
  IN  [fields |-> <<[key |-> text[eq - 1].s, val |-> text[eq + 1].s]>> \o rest.fields,
       at |-> rest.at]

parse_line(text) ==
  LET name == Find(text, 1, {",", " "})
      space == Find(text, name, {" "})
      fs == LineFields(text, space + 1)
      tags == SubSeq(text, name + 1, space - 1)
  IN  [metric |-> text[1].s, tags |-> parse_raw_tags(tags), fields |-> fs.fields,
       time |-> IF text[fs.at].k = " " THEN text[fs.at + 1].s ELSE ""]

-----------------------------------------------------------------------------
(* The handlers *)

Accepts(p) == p.metric \notin RefusedMetrics

\* Tsdb::add_data_point()
Store(p) ==
  /\ tried' = Append(tried, p)
  /\ taken' = IF Accepts(p) THEN Append(taken, p) ELSE taken

Receive(r) ==
  /\ req' = r
  /\ pos' = IF r.syntax = "json" THEN 1 ELSE 0
  /\ success' = TRUE
  /\ counts' = <<0, 0>>
  /\ reply' = <<>>
  /\ taken' = <<>> /\ tried' = <<>> /\ cps' = <<>>

End(r) == IF r.syntax = "json" THEN Len(JsonBody(r)) + 1 ELSE Len(r.items)

\* A handler's loop still has an item to look at.
Busy(syntax) == req.syntax = syntax /\ pos < End(req)

item == req.items[pos + 1]

\* The loop is left.
Leave == pos' = End(req)

\* Variant: after a point was refused, add_data_point() is not called any more.
StopsTrying(p) ==
  /\ success' = (success /\ Accepts(p))
  /\ IF success THEN Store(p) ELSE UNCHANGED <<taken, tried>>

\* success = add_data_point(...) && success
StoreAnd(p) == success' = (Accepts(p) /\ success) /\ Store(p)

\* A line of http_api_put_handler_plain(): a blank ends the loop, "cp" records a
\* check-point, and "version", DONT_FORWARD and unknown lines are passed over.
PlainItem ==
  /\ Busy("plain")
  /\ \/ item.kind = "put" /\ StoreAnd(from_plain(PlainText(item.point))) /\ pos' = pos + 1 /\ UNCHANGED cps
     \/ item.kind = "blank" /\ Leave /\ UNCHANGED <<success, taken, tried, cps>>
     \/ /\ item.kind = "cp"
        /\ cps' = Append(cps, Len(tried))
        /\ pos' = pos + 1
        /\ UNCHANGED <<success, taken, tried>>
     \/ item.kind = "other" /\ pos' = pos + 1 /\ UNCHANGED <<success, taken, tried, cps>>
  /\ UNCHANGED <<req, counts, reply>>

\* http_api_put_handler_json(): a point that cannot be parsed ends the loop, and
\* is counted as failed only when it is not in an array.
JsonItem ==
  LET text == JsonBody(req)
      dp == from_json(text, IF req.array THEN pos + 1 ELSE pos)
      failed == <<counts[1], counts[2] + 1>>
  IN  /\ Busy("json")
      /\ IF dp.null
         THEN /\ Leave
              /\ counts' = IF req.array THEN counts ELSE failed
              /\ UNCHANGED <<taken, tried>>
         ELSE /\ IF req.array /\ dp.at <= Len(text) /\ text[dp.at].k # "]" THEN pos' = dp.at ELSE Leave
              /\ counts' = IF Accepts(dp.point) THEN <<counts[1] + 1, counts[2]>> ELSE failed
              /\ Store(dp.point)
      /\ UNCHANGED <<req, success, reply, cps>>

\* http_api_write_handler(): the fields of a line are stored together, at the
\* time of the line or of the request; a comment is passed over.
InfluxItem ==
  /\ Busy("influx")
  /\ pos' = pos + 1
  /\ IF item.kind = "comment" THEN UNCHANGED <<success, taken, tried>>
     ELSE LET l == parse_line(InfluxText(item))
          IN  StoreAnd([l EXCEPT !.time = IF @ = "" THEN "now" ELSE @])
  /\ UNCHANGED <<req, counts, reply, cps>>

\* UdpListener::process_one_line(), for each datagram of a batch.
Datagram ==
  /\ Busy("udp")
  /\ pos' = pos + 1
  /\ Store(from_plain(PlainText(item)))
  /\ UNCHANGED <<req, success, counts, reply, cps>>

\* response.init(); nobody answers a datagram.
Respond ==
  /\ req # NoRequest
  /\ pos = End(req)
  /\ req' = NoRequest
  /\ reply' = CASE req.syntax = "json" -> <<200, counts[1], counts[2]>>
                [] req.syntax \in {"plain", "influx"} -> <<IF success THEN 200 ELSE 400>>
                [] req.syntax = "udp" -> <<>>
  /\ UNCHANGED <<pos, success, counts, taken, tried, cps>>

Of(syntax, items) == [syntax |-> syntax, array |-> FALSE, items |-> items]

InRequests ==
  {Of("plain", r) : r \in PlainRequests} \cup {Of("influx", r) : r \in InfluxRequests} \cup
  {Of("udp", r) : r \in Batches} \cup
  {[syntax |-> "json", array |-> r.array, items |-> r.points] : r \in JsonRequests}

InInit ==
  /\ req = NoRequest /\ pos = 0 /\ success = TRUE /\ counts = <<0, 0>> /\ reply = <<>>
  /\ taken = <<>> /\ tried = <<>> /\ cps = <<>>

InNext ==
  \/ req = NoRequest /\ \E r \in InRequests : Receive(r)
  \/ PlainItem \/ JsonItem \/ InfluxItem \/ Datagram \/ Respond

InSpec == InInit /\ [][InNext]_invars

-----------------------------------------------------------------------------
(* Properties *)

\* A point as its sender means it.
Unquoted(tags) == [i \in 1 .. Len(tags) |-> [key |-> tags[i].key, val |-> tags[i].val]]
Meant(p) == [metric |-> p.metric, time |-> p.time, value |-> p.value, tags |-> Unquoted(p.tags)]

\* The items before the first one that ends the loop.
Before(items, Stops(_)) ==
  LET stops == {i \in 1 .. Len(items) : Stops(items[i])}
  IN  IF stops = {} THEN items
      ELSE SubSeq(items, 1, (CHOOSE i \in stops : \A j \in stops : i <= j) - 1)

Known(i) == \A k \in 1 .. Len(i.order) : i.order[k] \in {"metric", "timestamp", "value", "tags"}

\* The last tag is a number or a Boolean, and other keys follow the tags:
\* next_value() overwrites the brace and next_tags() reads on (see README).
ReadsOn(i) ==
  /\ i.point.tags # <<>>
  /\ ~Last(i.point.tags).quoted
  /\ Last(i.order) # "tags"

Blank(l) == l.kind = "blank"
Unknown(i) == ~Known(i)
IsPut(l) == l.kind = "put"
IsLine(l) == l.kind # "comment"

Sent(r) ==
  CASE r.syntax = "plain" ->
         LET puts == SelectSeq(Before(r.items, Blank), IsPut)
         IN  [i \in 1 .. Len(puts) |-> Meant(puts[i].point)]
    [] r.syntax = "json" ->
         LET known == Before(r.items, Unknown)
         IN  [i \in 1 .. Len(known) |-> Meant(known[i].point)]
    [] r.syntax = "influx" ->
         LET lines == SelectSeq(r.items, IsLine)
         IN  [i \in 1 .. Len(lines) |->
                [metric |-> lines[i].metric, tags |-> Unquoted(lines[i].tags), fields |-> lines[i].fields,
                 time |-> IF lines[i].time = "" THEN "now" ELSE lines[i].time]]
    [] r.syntax = "udp" -> [i \in 1 .. Len(r.items) |-> Meant(r.items[i])]

\* Whatever the syntax (plain lines, JSON with its keys in any order, InfluxDB
\* lines, datagrams), when a handler is through, the store was given exactly the
\* points that were sent, each once, in order and with its own tags, also the
\* ones after a point that was refused (tsdb.cpp:2599, 2649).  Not claimed for
\* what follows a line or a key not understood, and for tags that ReadsOn().
EveryPointTried ==
  (/\ req # NoRequest
   /\ pos = End(req)
   /\ req.syntax = "json" => \A i \in 1 .. Len(req.items) : ~ReadsOn(req.items[i]))
  => tried = Sent(req)
=============================================================================
