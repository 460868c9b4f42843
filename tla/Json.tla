-------------------------------- MODULE Json --------------------------------
(***************************************************************************)
(* JsonParser (utils/json.cpp), which reads the queries, and the way back. *)
(*                                                                         *)
(* A text is a sequence of symbols: a brace, bracket, comma, colon, equals *)
(* sign, space, a quoted string or a bare word.  Documents are well formed *)
(* and fit the buffer they are written to; keys of a map differ.  The pool *)
(* from which the values are allocated is not modelled.                    *)
(***************************************************************************)
EXTENDS Naturals, Sequences, FiniteSets, FiniteSetsExt, SequencesExt

CONSTANTS
  Documents     \* the values, arrays and maps, that are written and read

VARIABLES
  text,         \* the text to parse, with spaces, or none
  asked,        \* ghost: <<>>, or the value that the text stands for and its syntax
  got           \* <<>>, or <<value>> that was parsed

jvars == <<text, asked, got>>

Sym(k) == [k |-> k]
Quoted(s) == [k |-> "quoted", s |-> s]
Bare(s) == [k |-> "bare", s |-> s]
Space == Sym("space")

Str(s) == [type |-> "string", s |-> s]
Num(s) == [type |-> "double", s |-> s]
Bool(s) == [type |-> "bool", s |-> s]
Arr(items) == [type |-> "array", items |-> items]
Map(pairs) == [type |-> "map", pairs |-> pairs]

-----------------------------------------------------------------------------
(* to_json(): every member is followed by a comma, the last one by the end *)

Joined(parts, end) ==
  IF parts = <<>> THEN <<end>>
  ELSE LET all == FlattenSeq([i \in 1 .. Len(parts) |-> parts[i] \o <<Sym(",")>>])
       IN  [all EXCEPT ![Len(all)] = end]

RECURSIVE to_json(_)
to_json(v) ==
  CASE v.type = "string" -> <<Quoted(v.s)>>
    [] v.type \in {"double", "bool"} -> <<Bare(v.s)>>
    [] v.type = "array" ->
         <<Sym("[")>> \o Joined([i \in 1 .. Len(v.items) |-> to_json(v.items[i])], Sym("]"))
    [] v.type = "map" ->
         LET pairs == SetToSeq(v.pairs)
         IN  <<Sym("{")>> \o
             Joined([i \in 1 .. Len(pairs) |->
                       <<Quoted(pairs[i][1]), Sym(":")>> \o to_json(pairs[i][2])], Sym("}"))

-----------------------------------------------------------------------------
(* Parsing: the value, and where parsing goes on, 0 after an exception *)

Parsed(v, at) == [v |-> v, at |-> at]
Exception == Parsed([type |-> "exception"], 0)

\* The first symbol from i on that is of some kinds, or is not; the end, without one.
ScanTo(s, i, kinds) == Min({j \in i .. Len(s) : s[j].k \in kinds} \cup {Len(s) + 1})
SkipAll(s, i, kinds) == Min({j \in i .. Len(s) : s[j].k \notin kinds} \cup {Len(s) + 1})
skip(s, i) == SkipAll(s, i, {"space"})

EndsValue == {",", "]", "}"}
IsBool(x) == x.k = "bare" /\ x.s \in {"true", "false"}

\* true and false, or a number, after which all is passed over up to the next member.
parse_word(s, i) ==
  IF IsBool(s[i]) THEN Parsed(Bool(s[i].s), i + 1)
  ELSE Parsed(Num(s[i].s), ScanTo(s, i + 1, EndsValue))

RECURSIVE parse_array(_, _), parse_map(_, _), ArrayFrom(_, _, _), MapFrom(_, _, _)

\* A value behind the spaces.
parse_value(s, i) ==
  CASE s[i].k = "quoted" -> Parsed(Str(s[i].s), i + 1)
    [] s[i].k = "[" -> parse_array(s, i)
    [] s[i].k = "{" -> parse_map(s, i)
    [] s[i].k = "bare" -> parse_word(s, i)

\* The loop of parse_array(), after the items so far.
ArrayFrom(s, at, items) ==
  LET i == skip(s, at)
      item == parse_value(s, skip(s, IF s[i].k = "," THEN i + 1 ELSE i))
  IN  IF s[i].k = "]" THEN Parsed(Arr(items), i + 1)
      ELSE ArrayFrom(s, item.at, Append(items, item.v))

parse_array(s, i) == ArrayFrom(s, skip(s, i) + 1, <<>>)

\* A key, the colon and the value.
parse_key_value(s, i) ==
  LET k == skip(s, i)
      colon == skip(s, k + 1)
      r == parse_value(s, skip(s, colon + 1))
  IN  [r EXCEPT !.v = <<s[k].s, r.v>>]

\* Variant: a pair takes the place of the one before it.
RECURSIVE KeepsLastPair(_, _, _)
KeepsLastPair(s, at, pairs) ==
  LET i == skip(s, at)
      pair == parse_key_value(s, IF s[i].k = "," THEN i + 1 ELSE i)
  IN  IF s[i].k = "}" THEN Parsed(Map(pairs), i + 1)
      ELSE KeepsLastPair(s, pair.at, {pair.v})

\* The loop of parse_map(), after the pairs so far.
MapFrom(s, at, pairs) ==
  LET i == skip(s, at)
      pair == parse_key_value(s, IF s[i].k = "," THEN i + 1 ELSE i)
  IN  IF s[i].k = "}" THEN Parsed(Map(pairs), i + 1)
      ELSE MapFrom(s, pair.at, pairs \cup {pair.v})

parse_map(s, i) == MapFrom(s, skip(s, i) + 1, {})

\* The characters of a key or a value without quotes; what runs over the end of a word
\* is not told apart.
Word(run) == IF Len(run) = 1 /\ run[1].k = "bare" THEN run[1].s ELSE "garbled"

\* The syntax without quotes, {key=value,key=value}: a key ends at the delimiter or a
\* space, a value also at a comma or the end of the map.  A map inside it is parsed
\* with the delimiter ':' whatever the outer one is.  A key that reaches the end of
\* the text throws; a value that does reads on behind it, which is taken for the same.
RECURSIVE parse_map_unquoted(_, _, _), UnquotedFrom(_, _, _, _)
parse_key_value_unquoted(s, i, delim) ==
  LET k == skip(s, i)
      end == ScanTo(s, k + 1, {delim, "space"})
      v == SkipAll(s, end + 1, {delim, "space"})
      stop == ScanTo(s, v, {delim, "space"} \cup EndsValue)
      r == IF s[v].k = "{" THEN parse_map_unquoted(s, v, ":")
           ELSE IF s[v].k = "[" THEN parse_array(s, v)
           ELSE IF IsBool(s[v]) THEN Parsed(Bool(s[v].s), v + 1)
           ELSE IF stop > Len(s) THEN Exception
           ELSE Parsed(Str(Word(SubSeq(s, v, stop - 1))),
                       IF s[stop].k \in EndsValue THEN stop ELSE stop + 1)
  IN  IF v > Len(s) \/ r = Exception THEN Exception
      ELSE [r EXCEPT !.v = <<Word(SubSeq(s, k, end - 1)), r.v>>]

UnquotedFrom(s, at, pairs, delim) ==
  LET i == skip(s, at)
      pair == parse_key_value_unquoted(s, IF s[i].k = "," THEN i + 1 ELSE i, delim)
  IN  IF at > Len(s) THEN Parsed(Map(pairs), at)
      ELSE IF s[i].k = "}" THEN Parsed(Map(pairs), i + 1)
      ELSE IF pair = Exception THEN Exception
      ELSE UnquotedFrom(s, pair.at, pairs \cup {pair.v}, delim)

parse_map_unquoted(s, i, delim) == UnquotedFrom(s, skip(s, i) + 1, {}, delim)

-----------------------------------------------------------------------------
\* A text with a space before every k-th symbol.
Spaced(s, k) == FlattenSeq([i \in 1 .. Len(s) |-> IF i % k = 0 THEN <<Space, s[i]>> ELSE <<s[i]>>])

JInit == text = <<>> /\ asked = <<>> /\ got = <<>>

Write(v, k) ==
  /\ asked = <<>>
  /\ text' = Spaced(to_json(v), k)
  /\ asked' = <<v, "quoted">>
  /\ UNCHANGED got

\* A map of strings and Booleans, written without quotes.
RECURSIVE Plain(_)
Plain(v) == v.type = "map" /\ \A p \in v.pairs : p[2].type \in {"string", "bool"} \/ Plain(p[2])

WriteUnquoted(v, k) ==
  LET Bared(x) == CASE x.k = "quoted" -> Bare(x.s)
                    [] x.k = ":" -> Sym("=")
                    [] OTHER -> x
      all == to_json(v)
  IN  /\ asked = <<>>
      /\ Plain(v)
      /\ text' = Spaced([i \in 1 .. Len(all) |-> Bared(all[i])], k)
      /\ asked' = <<v, "unquoted">>
      /\ UNCHANGED got

\* Queries have objects in JSON, and the tags in a URL without quotes.
Parse ==
  /\ asked # <<>>
  /\ got = <<>>
  /\ LET r == IF asked[2] = "unquoted" THEN parse_map_unquoted(text, 1, "=")
              ELSE IF text[skip(text, 1)].k = "[" THEN parse_array(text, 1)
              ELSE parse_map(text, 1)
     IN  /\ got' = <<r.v>>
         /\ text' = IF r = Exception THEN <<>> ELSE SubSeq(text, r.at, Len(text))
  /\ UNCHANGED asked

JNext == (\E v \in Documents, k \in {1, 2, 3} : Write(v, k) \/ WriteUnquoted(v, k)) \/ Parse
JSpec == JInit /\ [][JNext]_jvars

-----------------------------------------------------------------------------
(* Properties *)

HoldsMap(v) == \E p \in v.pairs : p[2].type = "map"

\* What is parsed is what the text says, however it is nested and spaced, and nothing
\* of the text is left (parse_map(), parse_array(), parse_map_unquoted(), to_json()).
\* The one exception is a map inside a map without quotes: parse_key_value_unquoted()
\* forgets the delimiter, so that the inner map is refused or misread.
ParsesBack ==
  got # <<>> => \/ got = <<asked[1]>> /\ text = <<>>
                \/ asked[2] = "unquoted" /\ HoldsMap(asked[1])
=============================================================================
