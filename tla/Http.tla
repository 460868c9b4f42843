-------------------------------- MODULE Http --------------------------------
(***************************************************************************)
(* One HTTP connection (core/http.cpp): a request arrives in pieces that   *)
(* end anywhere, in its header or in its body, each piece is read by a     *)
(* task of the connection's worker (recv_http_data, recv_http_data_cont),  *)
(* and when the request is whole it is processed and answered.  The        *)
(* network buffer the pieces are collected in, and the one of the          *)
(* response, come from a pool and have to go back to it.                   *)
(*                                                                         *)
(* A request is a header of some pieces and a body of some pieces; a       *)
(* client sends the next request when the last one is answered.            *)
(***************************************************************************)
EXTENDS Integers, Sequences, SequencesExt, FiniteSets

CONSTANTS
  HttpRequests,  \* requests: [head, body: pieces, length: the Content-Length in
                 \* pieces, close: BOOLEAN, route, encoding]
  Handled,       \* routes with a handler
  BuffLen,       \* pieces that fit into a network buffer
  MaxRequests    \* bound: requests sent

VARIABLES
  client,        \* the request being sent: how much of it, and its answers
  socket,        \* pieces in the socket, not yet received
  conn,          \* HttpConnection: buff, offset, state, request, response
  pending_tasks, \* recv tasks of the connection
  pool,          \* network buffers taken from the pool
  failed,        \* history: a send failed outside of recv_http_data_cont()
  nsent

hvars == <<client, socket, conn, pending_tasks, pool, failed, nsent>>

NoRequest == [req |-> <<>>, sent |-> 0, answers |-> <<>>]
\* HttpRequest::init()
NoHeader == [header_ok |-> FALSE, complete |-> FALSE, length |-> 0, close |-> FALSE]
NewConn == [buff |-> FALSE, offset |-> 0, state |-> {}, request |-> NoHeader,
            response |-> FALSE]

\* A bug: a body is complete only when more than its length arrived.
LongBody(r, len) ==
  [header_ok |-> len >= r.head, close |-> len >= r.head /\ r.close,
   length |-> IF len >= r.head THEN r.length ELSE 0,
   complete |-> len >= r.head /\ (r.length <= 0 \/ len - r.head > r.length)]

\* parse_header() of the first len pieces of a request.
parse_header(r, len) ==
  [header_ok |-> len >= r.head, close |-> len >= r.head /\ r.close,
   length |-> IF len >= r.head THEN r.length ELSE 0,
   complete |-> len >= r.head /\ (r.length <= 0 \/ len - r.head >= r.length)]

\* get_get_handler(), get_post_handler()
has_handler(r) == r.route \in Handled

\* HttpRequest::uncompress(): whether the content could be inflated into one buffer.
uncompress(r) == r.encoding # "bad"

\* process_request(): the status, and whether the connection is kept.  A handler
\* answers 200, or fails, or throws.
process_request(r) ==
  IF ~has_handler(r) THEN {[code |-> 404, success |-> FALSE]}
  ELSE IF ~uncompress(r) THEN {[code |-> 400, success |-> FALSE]}
  ELSE {[code |-> 200, success |-> TRUE], [code |-> 503, success |-> FALSE],
        [code |-> 400, success |-> FALSE]}

Delivered(c, code, sends) == IF sends THEN [c EXCEPT !.answers = Append(@, code)] ELSE c

-----------------------------------------------------------------------------

\* A new request of the client.
Send(r) ==
  /\ client = NoRequest
  /\ nsent < MaxRequests
  /\ client' = [NoRequest EXCEPT !.req = r]
  /\ nsent' = nsent + 1
  /\ UNCHANGED <<socket, conn, pending_tasks, pool, failed>>

\* Some pieces arrive; the listener adds a task unless two are there already.
Arrive(k) ==
  /\ client # NoRequest
  /\ client.sent + k <= client.req.head + client.req.body
  /\ client' = [client EXCEPT !.sent = @ + k]
  /\ socket' = socket + k
  /\ pending_tasks' = IF pending_tasks < 2 THEN pending_tasks + 1 ELSE pending_tasks
  /\ UNCHANGED <<conn, pool, failed, nsent>>

\* recv_http_data(), when the connection has no buffer, or one of its former life.
recv_http_data(sends) ==
  LET fresh == conn.buff /\ "NEW" \in conn.state
      len == IF socket < BuffLen THEN socket ELSE BuffLen
      taken == pool + (IF fresh THEN 0 ELSE 1)
      h == parse_header(client.req, len)
      c0 == [conn EXCEPT !.buff = FALSE, !.state = @ \ {"NEW"}]
  IN  /\ pending_tasks > 0
      /\ ~ conn.buff \/ fresh
      /\ pending_tasks' = pending_tasks - 1
      /\ socket' = socket - len
      /\ IF len >= BuffLen
         THEN \* the buffer is freed even when the 413 could not be sent
              /\ client' = Delivered(client, 413, sends)
              /\ conn' = [c0 EXCEPT !.state = @ \cup {"ERROR"}, !.response = FALSE]
              /\ pool' = taken - 1
              /\ UNCHANGED failed
         ELSE IF len = 0
         THEN /\ conn' = [c0 EXCEPT !.response = FALSE]
              /\ pool' = taken - 1
              /\ UNCHANGED <<client, failed>>
         ELSE IF ~ h.complete
         THEN /\ conn' = [c0 EXCEPT !.buff = TRUE, !.offset = len, !.request = h]
              /\ pool' = taken
              /\ UNCHANGED <<client, failed>>
         ELSE \E p \in process_request(client.req) :
                LET length_required == IF h.length < 0 THEN <<411>> ELSE <<>>
                IN  /\ client' = IF sends THEN [client EXCEPT !.answers = @ \o length_required \o <<p.code>>]
                                          ELSE client
                    /\ conn' = [c0 EXCEPT !.request = h, !.response = ~ sends,
                                          !.state = IF h.close \/ h.length < 0 \/ ~ p.success \/ ~ sends
                                                    THEN @ \cup {"ERROR"} ELSE @]
                    /\ pool' = IF sends THEN taken - 1 ELSE taken
                    /\ failed' = IF sends THEN failed ELSE failed + 1
  /\ UNCHANGED nsent

\* recv_http_data_cont(): more of a request whose beginning is in conn.buff.  The
\* length is compared as a number without a sign, so that a negative one, which is
\* not answered by 411 here, is never reached.
recv_http_data_cont(sends) ==
  LET room == BuffLen - conn.offset
      len == conn.offset + (IF socket < room THEN socket ELSE room)
      parsed == IF conn.request.header_ok THEN conn.request ELSE parse_header(client.req, len)
      h == [parsed EXCEPT !.complete = /\ parsed.header_ok
                                       /\ parsed.length >= 0
                                       /\ parsed.length <= len - client.req.head]
      c0 == [conn EXCEPT !.state = IF conn.request.close THEN @ \cup {"ERROR"} ELSE @]
  IN  /\ pending_tasks > 0
      /\ conn.buff /\ "NEW" \notin conn.state
      /\ pending_tasks' = pending_tasks - 1
      /\ socket' = socket - (len - conn.offset)
      /\ IF len >= BuffLen
         THEN /\ client' = Delivered(client, 413, sends)
              /\ conn' = [c0 EXCEPT !.buff = FALSE, !.state = @ \cup {"ERROR"}]
              /\ pool' = pool - 1
         ELSE IF len = conn.offset
         THEN conn' = c0 /\ UNCHANGED <<client, pool>>
         ELSE IF ~ h.complete
         THEN conn' = [c0 EXCEPT !.offset = len, !.request = h] /\ UNCHANGED <<client, pool>>
         ELSE \E p \in process_request(client.req) :
                /\ client' = Delivered(client, p.code, sends)
                /\ conn' = [c0 EXCEPT !.buff = ~ sends, !.request = h, !.response = TRUE,
                                      !.state = IF ~ p.success \/ ~ sends THEN @ \cup {"ERROR"} ELSE @]
                /\ pool' = IF sends THEN pool - 1 ELSE pool
  /\ UNCHANGED <<failed, nsent>>

\* The client has its answer and may go on; after a 413 it hangs up.
Answered ==
  /\ client # NoRequest
  /\ client.answers # <<>>
  /\ 413 \notin ToSet(client.answers)
  /\ client.sent = client.req.head + client.req.body
  /\ socket = 0 /\ pending_tasks = 0
  /\ client' = NoRequest
  /\ UNCHANGED <<socket, conn, pending_tasks, pool, failed, nsent>>

\* EPOLLRDHUP and close_conn(): the client hangs up, after an error or in the
\* middle of a request; the connection is recycled with its buffer, or the same
\* file descriptor is accepted again before that (new_conn0 sets TCS_NEW).
HangUp(reused) ==
  /\ pending_tasks = 0
  /\ conn # NewConn
  /\ reused => conn.buff
  /\ conn' = IF reused THEN [conn EXCEPT !.state = {"NEW"}] ELSE NewConn
  /\ pool' = IF conn.buff /\ ~ reused THEN pool - 1 ELSE pool
  /\ client' = NoRequest
  /\ socket' = 0
  /\ UNCHANGED <<pending_tasks, failed, nsent>>

HInit ==
  /\ client = NoRequest
  /\ socket = 0
  /\ conn = NewConn
  /\ pending_tasks = 0
  /\ pool = 0
  /\ failed = 0
  /\ nsent = 0

Recv == \E sends \in BOOLEAN : recv_http_data(sends) \/ recv_http_data_cont(sends)

HNext ==
  \/ \E r \in HttpRequests : Send(r)
  \/ \E k \in 1..BuffLen : Arrive(k)
  \/ \E sends \in BOOLEAN : recv_http_data(sends)
  \/ \E sends \in BOOLEAN : recv_http_data_cont(sends)
  \/ Answered
  \/ \E reused \in BOOLEAN : HangUp(reused)

HSpec == HInit /\ [][HNext]_hvars /\ WF_hvars(Recv)

-----------------------------------------------------------------------------
(* Properties *)

Fits(r) == r.head + r.body < BuffLen

\* The header came in more than one piece and names a negative length.
NeverComplete ==
  conn.buff /\ "NEW" \notin conn.state /\ conn.request.header_ok /\ conn.request.length < 0

\* When all of a request that fits has arrived, it is answered, or the sending
\* failed, or the client hung up: no piece is left lying in the socket or in the
\* buffer without a task that will look at it.  The one exception is a negative
\* length found by recv_http_data_cont(): the code waits for the rest of such a
\* request for ever.
WholeRequestIsAnswered ==
  (client # NoRequest /\ Fits(client.req) /\ client.sent = client.req.head + client.req.body)
     ~> (client = NoRequest \/ client.answers # <<>> \/ "ERROR" \in conn.state \/ NeverComplete)
=============================================================================
