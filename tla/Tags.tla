-------------------------------- MODULE Tags --------------------------------
(***************************************************************************)
(* Tags of time series (utils/tag.cpp, utils/kv.cpp): names and values are *)
(* interned as ids that threads hand out concurrently (Tag_v2), lists of   *)
(* tags are kept in the order of their keys (KeyValuePair, TagOwner), and  *)
(* the tags of a query are turned into matchers (TagMatcher), by which the *)
(* series of a metric are found (Mapping::query_for_ts).  Names are        *)
(* numbers, in the order of strcmp().                                      *)
(***************************************************************************)
EXTENDS Integers, Sequences, SequencesExt, FiniteSets, FiniteSetsExt

CONSTANTS
  Threads,      \* threads that create series
  TagLists,     \* tags as a client sends them: sequences of <<key, value>>
  Filters,      \* queried tags: sequences of [key, kind, vals]
  Field,        \* TT_FIELD_TAG_NAME
  NoField,      \* TT_FIELD_VALUE
  Growth        \* by how much the table of names grows (256)

VARIABLES
  m_map,        \* name -> id
  m_names,      \* id -> name, as far as the table reaches
  m_next_id,
  work          \* thread -> what it is doing

tvars == <<m_map, m_names, m_next_id, work>>

NoId == -1
NoName == -1

-----------------------------------------------------------------------------
(* Lists of tags *)

\* KeyValuePair::insert_in_order(): before the first tag whose key is not
\* smaller.
insert_in_order(list, kv) ==
  SelectSeq(list, LAMBDA e : e[1] < kv[1]) \o <<kv>> \o SelectSeq(list, LAMBDA e : e[1] >= kv[1])

\* TagOwner::parse(), add_tag()
parse(tags) == FoldLeft(insert_in_order, << >>, tags)

\* TagOwner::get_ordered_tags(): the key of a series, without its field.
get_ordered_tags(list) == SelectSeq(list, LAMBDA e : e[1] # Field)

-----------------------------------------------------------------------------
(* Interned names *)

get_id(name) == IF name \in DOMAIN m_map THEN m_map[name] ELSE NoId
get_name(id) == IF id \in DOMAIN m_names THEN m_names[id] ELSE NoName

\* set_name() with the growth of the table; the first table also holds the two
\* names that always exist.
set_name(names, id, name) ==
  LET grown == IF id \in DOMAIN names THEN names
               ELSE [i \in 0..(id + Growth - 1) |->
                      IF i \in DOMAIN names THEN names[i]
                      ELSE IF names = << >> /\ i = 0 THEN Field
                      ELSE IF names = << >> /\ i = 1 THEN NoField ELSE NoName]
  IN  [grown EXCEPT ![id] = name]

Idle == [at |-> "idle"]
Todo(w) == w.names[Len(w.ids) + 1]

\* Tag_v2(Tag*): the names of the list are looked up one by one.
NewSeries(t, tags) ==
  LET list == parse(tags)
  IN  /\ work[t] = Idle
      /\ work' = [work EXCEPT ![t] =
           [at |-> "find", tags |-> tags, ids |-> << >>,
            names |-> FlattenSeq([i \in DOMAIN list |-> list[i]])]]
      /\ UNCHANGED <<m_map, m_names, m_next_id>>

GotId(t, id) ==
  LET w == work[t]
      ids == Append(w.ids, id)
  IN  work' = [work EXCEPT ![t].ids = ids,
                           ![t].at = IF Len(ids) = Len(w.names) THEN "done" ELSE "find"]

\* get_or_set_id(): the search under the read lock.
FindName(t) ==
  /\ work[t].at = "find"
  /\ IF get_id(Todo(work[t])) # NoId THEN GotId(t, get_id(Todo(work[t])))
                                     ELSE work' = [work EXCEPT ![t].at = "set"]
  /\ UNCHANGED <<m_map, m_names, m_next_id>>

\* Variant: no second search.
SetUnseen(t) ==
  LET name == Todo(work[t])
  IN  /\ work[t].at = "set"
      /\ m_names' = set_name(m_names, m_next_id, name)
      /\ m_map' = [n \in DOMAIN m_map \cup {name} |-> IF n = name THEN m_next_id ELSE m_map[n]]
      /\ m_next_id' = m_next_id + 1
      /\ GotId(t, m_next_id)

\* The second search and the insertion, under the write lock.
SetName(t) ==
  LET name == Todo(work[t])
  IN  /\ work[t].at = "set"
      /\ IF get_id(name) # NoId
         THEN /\ GotId(t, get_id(name))
              /\ UNCHANGED <<m_map, m_names, m_next_id>>
         ELSE /\ m_names' = set_name(m_names, m_next_id, name)
              /\ m_map' = [n \in DOMAIN m_map \cup {name} |->
                             IF n = name THEN m_next_id ELSE m_map[n]]
              /\ m_next_id' = m_next_id + 1
              /\ GotId(t, m_next_id)

-----------------------------------------------------------------------------
(* Matching *)

\* Tag_v2::get_value_id()
get_value_id(ids, key_id) ==
  LET at == {i \in 1..(Len(ids) \div 2) : ids[2 * i - 1] = key_id}
  IN  IF at = {} THEN NoId ELSE ids[2 * (CHOOSE i \in at : \A j \in at : i <= j)]

\* TagMatcher::init() for one tag: ids of the values, or the prefix.
matcher(f) ==
  [key_id |-> get_id(f.key),
   value_ids |-> CASE f.kind = "choice" -> {get_id(v) : v \in f.vals} \ {NoId}
                   [] f.kind = "exact" -> {get_id(v) : v \in f.vals}
                   [] OTHER -> {},
   prefix |-> IF f.kind = "prefix" THEN <<f.vals>> ELSE << >>]

\* TagMatcher::match() of one matcher and of the chain.
match_one(m, ids) ==
  LET v == get_value_id(ids, m.key_id)
  IN  /\ m.key_id # NoId
      /\ v # NoId
      /\ m.value_ids # {} => v \in m.value_ids
      /\ (m.value_ids = {} /\ m.prefix # << >>) => get_name(v) \in m.prefix[1]
matches(fs, ids) == \A i \in DOMAIN fs : match_one(matcher(fs[i]), ids)

-----------------------------------------------------------------------------
(* The series of a metric; each thread has created at most one *)

Finished == {t \in Threads : work[t].at = "done"}
KeyOf(t) == get_ordered_tags(parse(work[t].tags))

Unset == -1
Inconsistent == -2

\* Variant: the number of tags of the series created last.
LatestCount(n, count) == n

\* Mapping::set_tag_count()
set_tag_count(n, count) ==
  IF n = count THEN count ELSE IF count = Unset THEN n ELSE Inconsistent

\* m_tag_count after all series were created, in whatever order.
m_tag_count == FoldSet(set_tag_count, Unset, {Len(KeyOf(t)) : t \in Finished})

\* Query::get_ordered_tags(): the tags of the query as a key; what is not exact is
\* no value of any series.
QueryKey(fs) ==
  get_ordered_tags(parse([i \in DOMAIN fs |->
    <<fs[i].key, IF fs[i].kind = "exact" THEN CHOOSE v \in fs[i].vals : TRUE ELSE NoName>>]))

\* The entry of m_map for the key: a series, or a measurement with a series for
\* every field, of which the query may name one.
ByKey(fs) ==
  LET rows == {t \in Finished : KeyOf(t) = QueryKey(fs)}
      named == {i \in DOMAIN fs : fs[i].key = Field}
      measured == \E t \in rows : \E e \in ToSet(work[t].tags) : e[1] = Field
  IN  IF measured /\ named # {}
      THEN {t \in rows : \E i \in named : \E e \in ToSet(work[t].tags) :
              e[1] = Field /\ e[2] \in fs[i].vals}
      ELSE rows

\* Mapping::query_for_ts(): by the key if all series have as many tags as the
\* query, and by matchers if that finds nothing.
query_for_ts(fs, explicit) ==
  LET direct == IF Len(QueryKey(fs)) = m_tag_count THEN ByKey(fs) ELSE {}
  IN  IF direct # {} THEN direct
      ELSE {t \in Finished : /\ (explicit /\ fs # << >>) => Len(work[t].ids) = 2 * Len(fs)
                             /\ matches(fs, work[t].ids)}

-----------------------------------------------------------------------------
TInit ==
  /\ m_map = [n \in {Field, NoField} |-> IF n = Field THEN 0 ELSE 1]
  /\ m_names = << >>
  /\ m_next_id = 2
  /\ work = [t \in Threads |-> Idle]

TNext ==
  \E t \in Threads :
    \/ \E tags \in TagLists : NewSeries(t, tags)
    \/ FindName(t)
    \/ SetName(t)

TSpec == TInit /\ [][TNext]_tvars

-----------------------------------------------------------------------------
(* Properties *)

\* However the threads interleave, a name has one id and an id one name, and the
\* ids of a series give back the names it was created with
\* (Tag_v2::get_or_set_id, set_name, get_name).
IdsAreNames ==
  /\ \A n, k \in DOMAIN m_map : m_map[n] = m_map[k] => n = k
  /\ \A t \in Finished :
       \A i \in DOMAIN work[t].ids :
         get_name(work[t].ids[i]) = work[t].names[i] /\ get_id(work[t].names[i]) = work[t].ids[i]

\* The meaning of one queried tag, in strings (Tag_v2::match with
\* names).
Means(f, tags) ==
  \E e \in ToSet(tags) : e[1] = f.key /\ (f.kind = "any" \/ e[2] \in f.vals)

\* A query finds exactly the series whose tags it describes, whether by the key or
\* by matchers, and with explicit tags only series that have no others but a field.
\* Two exceptions: a choice none of whose values was ever seen matches every value,
\* and a field may be given for series that have none
\* (Mapping::query_for_ts, TagMatcher::init, match).
QueriesFindTheirSeries ==
  \A fs \in Filters :
    (/\ \A i \in DOMAIN fs : fs[i].kind = "choice" => \E v \in fs[i].vals : get_id(v) # NoId
     /\ \A i \in DOMAIN fs : fs[i].key = Field =>
          \A t \in Finished : \E e \in ToSet(work[t].tags) : e[1] = Field) =>
      /\ query_for_ts(fs, FALSE) =
           {t \in Finished : \A i \in DOMAIN fs : Means(fs[i], work[t].tags)}
      /\ fs # << >> =>
           \A t \in query_for_ts(fs, TRUE) :
             /\ t \in query_for_ts(fs, FALSE)
             /\ \A e \in ToSet(work[t].tags) : e[1] = Field \/ \E i \in DOMAIN fs : fs[i].key = e[1]
=============================================================================
