---------------------------- MODULE QueryService ----------------------------
(***************************************************************************)
(* The two ways of asking a query (QueryExecutor in core/query.cpp): the   *)
(* JSON body of a POST, which may hold several queries, and the parameters *)
(* of a GET.  Each is parsed by a constructor of Query of its own; the     *)
(* queries are executed one by one and their results written as one JSON   *)
(* array into the buffer of the response.  A constructor may throw, an     *)
(* execution may end with an error, and the buffer may be too small.       *)
(*                                                                         *)
(* Texts are lengths: a result is a head and a text per point, with the    *)
(* zeros of the number at its end and, once they are cut off, without.     *)
(***************************************************************************)
EXTENDS Integers, Sequences, SequencesExt, FiniteSets

CONSTANTS
  AskedQueries,  \* queries clients ask: [metric, aggregator, downsample, rate, usage,
                 \* explicit, tags], with Absent where a part is not given
  Absent,
  ResultLists,   \* what an execution may return: sequences of results
  BufferSize,    \* size of the response buffer
  Slack,         \* to_json() stops this close to the end of the buffer (8)
  MaxQueries     \* bound: queries in a POST

VARIABLES
  request,       \* method, ms and the queries that were asked
  parsed,        \* the Query objects built so far
  results,       \* QueryResults collected so far
  error,         \* the last error of an execution
  answer,        \* the response, <<>> before there is one
  live,          \* QueryResults taken from the memory manager
  errors         \* history: errors of the executions

svars == <<request, parsed, results, error, answer, live, errors>>

-----------------------------------------------------------------------------
(* The constructors of Query *)

Usage(u) == IF u = "ROLLUP_RAW" THEN "RU_RAW" ELSE "RU_FALLBACK_RAW"

\* RateCalculator::init() with an option that was not given replaced by its default.
Rate(options) ==
  [counter |-> options.counter, drop_resets |-> options.drop_resets,
   counter_max |-> IF options.counter_max = Absent THEN "max" ELSE options.counter_max,
   reset_value |-> IF options.reset_value = Absent THEN "0" ELSE options.reset_value]

\* Query(JsonMap&, TimeRange&, StringBuffer&, bool): without milliseconds and
\* without a down-sampler, one of a second is added.
FromJson(q, ms) ==
  [metric |-> q.metric, aggregate |-> q.aggregator, rollup |-> Usage(q.usage),
   downsample |-> IF q.downsample = Absent /\ ~ ms THEN "1s" ELSE q.downsample,
   rate |-> [i \in 1..Len(q.rate) |-> Rate(q.rate[i])],
   explicit_tags |-> FALSE, tags |-> q.tags]

\* Query(JsonMap&, StringBuffer&): the parts are tokens between colons.  The fourth
\* option of a rate is read from the place of the third, which is a number.
FromUrl(q, ms) ==
  [metric |-> q.metric, aggregate |-> q.aggregator, rollup |-> Usage(q.usage),
   downsample |-> q.downsample,
   rate |-> [i \in 1..Len(q.rate) |-> Rate([q.rate[i] EXCEPT !.drop_resets = FALSE])],
   explicit_tags |-> q.explicit, tags |-> q.tags]

\* A query without a metric, or in a GET without an aggregator, is an exception.
Throws(r, q) == q.metric = Absent \/ (r.method = "GET" /\ q.aggregator = Absent)

-----------------------------------------------------------------------------
(* The response *)

\* QueryResults::to_json(): n characters are written, `left` points are not.  A
\* text that reaches the end of the buffer is cut there, zeros and all.
to_json(r, size) ==
  LET step(a, p) ==
        LET at == a.n + (IF a.first THEN 0 ELSE 1)
        IN  IF a.stop \/ a.n + Slack >= size THEN [a EXCEPT !.stop = TRUE, !.left = @ + 1]
            ELSE [n |-> IF at + p.full >= size THEN size ELSE at + p.short,
                  left |-> IF at + p.full >= size THEN a.left + 1 ELSE a.left,
                  first |-> FALSE, stop |-> FALSE]
      w == FoldLeft(step, [n |-> r.head, left |-> 0, first |-> TRUE, stop |-> FALSE], r.dps)
      end == IF size > w.n THEN w.n + 2 ELSE w.n
  IN  [n |-> IF end <= size THEN end ELSE size, left |-> w.left]

Written(rs) ==
  LET step(a, r) ==
        LET n == a.n + (IF a.n = 1 THEN 0 ELSE 1)
            j == to_json(r, BufferSize - n)
        IN  IF a.stop \/ r.dps = <<>> THEN a
            ELSE IF n >= BufferSize THEN [n |-> n, left |-> a.left + Len(r.dps), stop |-> TRUE]
            ELSE [n |-> n + j.n, left |-> a.left + j.left, stop |-> n + j.n >= BufferSize]
  IN  FoldLeft(step, [n |-> 1, left |-> 0, stop |-> FALSE], rs)

\* A bug: a response that does not fit is sent as it is.
AlwaysSent(rs, err) ==
  LET w == Written(rs)
  IN  [code |-> CASE err = "ENOMEM" -> 503 [] err = "other" -> 500 [] OTHER -> 200,
       n |-> w.n, left |-> w.left]

prepare_response(rs, err) ==
  LET w == Written(rs)
  IN  [code |-> CASE err = "ENOMEM" -> 503
                  [] err = "other" -> 500
                  [] err = "none" /\ w.n >= BufferSize -> 413
                  [] OTHER -> 200,
       n |-> w.n, left |-> w.left]

-----------------------------------------------------------------------------
(* The handlers *)

NoAnswer == [code |-> 0, n |-> 0, left |-> 0]

\* A POST without "start" or "queries" is answered at once.
Receive(method, qs, ms, whole) ==
  /\ request.method = "none"
  /\ method = "GET" => Len(qs) = 1
  /\ request' = [method |-> method, queries |-> qs, ms |-> ms]
  /\ answer' = IF whole THEN answer ELSE [NoAnswer EXCEPT !.code = 400]
  /\ UNCHANGED <<parsed, results, error, live, errors>>

NextError(old, new) == IF new # "none" THEN new ELSE old

\* Query::execute(): tasks, perform(), aggregate(), calculate_rate(); results are
\* taken from the memory manager.  After an exception process_request() answers.
ExecuteQuery(rs, err) ==
  LET i == Len(parsed) + 1
      q == request.queries[i]
  IN  /\ request.method # "none"
      /\ answer = NoAnswer
      /\ i <= Len(request.queries)
      /\ IF Throws(request, q)
         THEN /\ answer' = [NoAnswer EXCEPT !.code = 400]
              /\ UNCHANGED <<parsed, results, error, live, errors>>
         ELSE /\ parsed' = Append(parsed, IF request.method = "GET" THEN FromUrl(q, request.ms)
                                                                     ELSE FromJson(q, request.ms))
              /\ results' = results \o rs
              /\ live' = live + Len(rs)
              /\ error' = NextError(error, err)
              /\ errors' = errors \cup ({err} \ {"none"})
              /\ UNCHANGED answer
      /\ UNCHANGED request

\* prepare_response(), and the results go back to the memory manager.
Respond ==
  /\ request.method # "none"
  /\ answer = NoAnswer
  /\ Len(parsed) = Len(request.queries)
  /\ answer' = prepare_response(results, error)
  /\ live' = live - Len(results)
  /\ UNCHANGED <<request, parsed, results, error, errors>>

SInit ==
  /\ request = [method |-> "none", queries |-> <<>>, ms |-> FALSE]
  /\ parsed = <<>>
  /\ results = <<>>
  /\ error = "none"
  /\ answer = NoAnswer
  /\ live = 0
  /\ errors = {}

SNext ==
  \/ \E method \in {"GET", "POST"}, qs \in BoundedSeq(AskedQueries, MaxQueries), ms, whole \in BOOLEAN :
       qs # <<>> /\ Receive(method, qs, ms, whole)
  \/ \E rs \in ResultLists, err \in {"none", "ENOMEM", "other"} : ExecuteQuery(rs, err)
  \/ Respond

SSpec == SInit /\ [][SNext]_svars

-----------------------------------------------------------------------------
(* Properties *)

\* An answer of 200 means that every query of the request succeeded, and holds every
\* point of every result inside the buffer (http_post_api_query_handler).
\* The one exception is a response that comes within Slack of its end: to_json()
\* stops there, closes its brackets, and nothing tells that points are missing.
WholeOrRefused ==
  answer.code = 200 =>
    /\ errors = {}
    /\ answer.n < BufferSize
    /\ answer.left > 0 => answer.n + Slack >= BufferSize
=============================================================================
