---------------------------- MODULE TcpConnection ---------------------------
(***************************************************************************)
(* The life of TCP connections between the thread that accepts them        *)
(* (listener0), the thread that waits for events on them (listener1) and   *)
(* its responders, which read them.                                        *)
(*                                                                         *)
(* Only listener1 looks at the map from descriptors to connections.  The   *)
(* other threads talk to it through a pipe, in commands that name a        *)
(* descriptor: "new", "resubmit", "close".  The tasks of the responders    *)
(* hold a pointer to the connection, whose pending_tasks counts them.      *)
(* epoll is edge-triggered: what a responder leaves in the socket is not   *)
(* reported again.                                                         *)
(*                                                                         *)
(* A client is the peer of one accepted socket.  It sends whole lines, may *)
(* hang up (EPOLLRDHUP) or reset the connection (EPOLLERR, EPOLLHUP).      *)
(***************************************************************************)
EXTENDS Naturals, Sequences, SequencesExt, FiniteSetsExt

CONSTANTS
  Fds,          \* descriptors the system hands out, lowest first
  Workers,      \* responders
  Resets,       \* may clients reset connections?
  BuffSize,     \* lines that fit into a network buffer
  MaxClients,   \* bound on the number of clients
  MaxSent       \* bound on the number of lines a client sends

ASSUME FdAssumption == Fds \subseteq Nat \ {0}
ASSUME ResetAssumption == Resets \in BOOLEAN
ASSUME BuffAssumption == BuffSize \in Nat \ {0}
ASSUME TcpBounds == MaxClients \in Nat /\ MaxSent \in Nat

VARIABLES
  sock,       \* descriptor -> client it is connected to, 0 if it is closed
  client,     \* clients accepted so far: what they sent, what is unread, ...
  registered, \* descriptors registered with epoll
  ready,      \* descriptors with an event that epoll_wait() has not returned
  fetched,    \* events that it returned and listener1 has not handled
  pipe,       \* commands for listener1
  m_conn_map, \* descriptor -> TcpConnection, 0 if there is none
  conn,       \* the TcpConnection objects
  free,       \* free list of the memory manager, last freed first
  listener,   \* step of listener1
  m_tasks,    \* responder -> connections of the tasks in its queue
  worker,     \* responder -> its step
  crashed,    \* was a null connection used?
  hurt        \* clients that had lines dropped or read for somebody else

vars == <<sock, client, registered, ready, fetched, pipe, m_conn_map, conn, free, listener,
          m_tasks, worker, crashed, hurt>>

Clients == 1 .. MaxClients
Conns == 1 .. Cardinality(Fds)
Pipe == [fd |-> 0]
Idle == [pc |-> "idle"]

\* TcpConnection::init().  'of' is the client it was made for.
NewConn == [fd |-> 0, pending |-> 0, closed |-> FALSE, registered |-> FALSE,
            worker_id |-> 0, of |-> 0]

Init ==
  /\ sock = [fd \in Fds |-> 0]
  /\ client = << >>
  /\ registered = {}
  /\ ready = {}
  /\ fetched = {}
  /\ pipe = << >>
  /\ m_conn_map = [fd \in Fds |-> 0]
  /\ conn = [c \in Conns |-> NewConn]
  /\ free = [c \in Conns |-> c]
  /\ listener = Idle
  /\ m_tasks = [w \in Workers |-> << >>]
  /\ worker = [w \in Workers |-> Idle]
  /\ crashed = FALSE
  /\ hurt = {}

kernel == <<sock, client, registered, ready>>
server == <<fetched, m_conn_map, conn, free, listener>>
responders == <<m_tasks, worker>>

-----------------------------------------------------------------------------
(* The clients and the kernel *)

Connected(k) == \E fd \in Fds : sock[fd] = k
Unread(fd) == IF sock[fd] = 0 THEN 0 ELSE client[sock[fd]].unread

\* An event on the socket of client k, if epoll watches it.
Signal(k) == ready' = ready \cup {fd \in registered : sock[fd] = k}

Send(k) ==
  /\ Connected(k) /\ client[k].sent < MaxSent /\ ~client[k].hup /\ ~client[k].rst
  /\ client' = [client EXCEPT ![k].sent = @ + 1, ![k].unread = @ + 1]
  /\ Signal(k)
  /\ UNCHANGED <<sock, registered, pipe, server, responders, crashed, hurt>>

HangUp(k) ==
  /\ Connected(k) /\ ~client[k].hup /\ ~client[k].rst
  /\ client' = [client EXCEPT ![k].hup = TRUE]
  /\ Signal(k)
  /\ UNCHANGED <<sock, registered, pipe, server, responders, crashed, hurt>>

\* What was not read yet is gone.
Reset(k) ==
  /\ Resets /\ Connected(k) /\ ~client[k].rst
  /\ client' = [client EXCEPT ![k].rst = TRUE, ![k].unread = 0]
  /\ Signal(k)
  /\ UNCHANGED <<sock, registered, pipe, server, responders, crashed, hurt>>

\* Somebody still means an earlier client by the descriptor: a command in the
\* pipe, the map, an event, or a responder that has not looked for TCS_CLOSED yet.
Stale(fd) ==
  \/ \E i \in DOMAIN pipe : pipe[i].fd = fd
  \/ m_conn_map[fd] # 0
  \/ \E e \in fetched : e.fd = fd
  \/ \E w \in Workers : worker[w] # Idle /\ conn[worker[w].conn].fd = fd
  \/ listener # Idle /\ conn[listener.conn].fd = fd

\* listener0: accept4(), then the descriptor is passed on.
new_conn0 ==
  LET fd == Min({f \in Fds : sock[f] = 0})
  IN  /\ Len(client) < MaxClients
      /\ \E f \in Fds : sock[f] = 0
      /\ client' = Append(client, [sent |-> 0, unread |-> 0, hup |-> FALSE, rst |-> FALSE,
                                   stale |-> Stale(fd)])
      /\ sock' = [sock EXCEPT ![fd] = Len(client) + 1]
      /\ pipe' = Append(pipe, [cmd |-> "new", fd |-> fd])
      /\ UNCHANGED <<registered, ready, server, responders, crashed, hurt>>

-----------------------------------------------------------------------------
(* listener1 *)

\* The connection of a descriptor that is in the map, or one from the free list.
get_or_create_conn(fd) ==
  IF m_conn_map[fd] # 0
  THEN [id |-> m_conn_map[fd], is |-> conn[m_conn_map[fd]], free |-> free]
  ELSE [id |-> Head(free), is |-> [NewConn EXCEPT !.fd = fd, !.of = sock[fd]],
        free |-> Tail(free)]

\* The descriptor is registered, unless the connection says that it is already.
new_conn2(fd) ==
  LET c == get_or_create_conn(fd)
      k == sock[fd]
      reg == ~c.is.registered /\ k # 0
  IN  /\ m_conn_map' = [m_conn_map EXCEPT ![fd] = c.id]
      /\ free' = c.free
      /\ conn' = [conn EXCEPT ![c.id] = [c.is EXCEPT !.closed = FALSE, !.registered = TRUE]]
      /\ registered' = IF reg THEN registered \cup {fd} ELSE registered
      /\ ready' = IF reg /\ (client[k].unread > 0 \/ client[k].hup \/ client[k].rst)
                  THEN ready \cup {fd} ELSE ready
      /\ UNCHANGED <<sock, client, listener, responders, crashed, hurt>>

\* deregister_with_epoll() and close().
CloseFd(fd) ==
  /\ sock' = [sock EXCEPT ![fd] = 0]
  /\ registered' = registered \ {fd}
  /\ ready' = ready \ {fd}
  /\ hurt' = IF Unread(fd) > 0 THEN hurt \cup {sock[fd]} ELSE hurt
  /\ UNCHANGED client

\* Variant: pending tasks are not looked at.
CloseAnyway(fd) ==
  LET c == m_conn_map[fd]
  IN  /\ m_conn_map' = [m_conn_map EXCEPT ![fd] = 0]
      /\ free' = IF c = 0 THEN free ELSE <<c>> \o free
      /\ CloseFd(fd)
      /\ UNCHANGED <<conn, listener, responders, crashed>>

Busy(c) == IF c = 0 THEN FALSE ELSE conn[c].pending > 0

\* A connection with pending tasks is not freed; MarkClosed goes on then.
close_conn(fd) ==
  LET c == m_conn_map[fd]
  IN  \/ /\ ~Busy(c)
         /\ m_conn_map' = [m_conn_map EXCEPT ![fd] = 0]
         /\ free' = IF c = 0 THEN free ELSE <<c>> \o free
         /\ CloseFd(fd)
         /\ UNCHANGED <<conn, listener, responders, crashed>>
      \/ /\ Busy(c)
         /\ listener' = [pc |-> "mark", conn |-> c]
         /\ UNCHANGED <<kernel, m_conn_map, conn, free, responders, crashed, hurt>>

MarkClosed ==
  /\ listener.pc = "mark"
  /\ LET c == listener.conn
     IN  /\ conn' = [conn EXCEPT ![c].closed = TRUE, ![c].registered = FALSE]
         /\ CloseFd(conn[c].fd)
  /\ listener' = Idle
  /\ UNCHANGED <<fetched, pipe, m_conn_map, free, responders, crashed>>

\* submit_task(): to any responder, or to the one that has worker_id.
SubmitTo(w, c) == m_tasks' = [m_tasks EXCEPT ![w] = Append(@, c)]

\* Variant: every task goes to any responder.
WorkersAny(c) == Workers

WorkersFor(c) == IF conn[c].pending = 1 THEN Workers ELSE {conn[c].worker_id}

\* resubmit() does not ask whether there still is a connection.
resubmit(fd) ==
  LET c == m_conn_map[fd]
      counted == [conn EXCEPT ![c].pending = @ + 1]
  IN  IF c = 0
      THEN crashed' = TRUE /\ UNCHANGED <<kernel, m_conn_map, conn, free, listener, responders, hurt>>
      ELSE /\ \E w \in IF counted[c].pending = 1 THEN Workers ELSE {conn[c].worker_id} :
                /\ conn' = [counted EXCEPT ![c].worker_id = w]
                /\ SubmitTo(w, c)
           /\ UNCHANGED <<kernel, m_conn_map, free, listener, worker, crashed, hurt>>

EpollWait ==
  /\ listener = Idle /\ fetched = {}
  /\ fetched' = {[fd |-> fd, hup |-> client[sock[fd]].hup, rst |-> client[sock[fd]].rst] :
                  fd \in ready} \cup (IF pipe = << >> THEN {} ELSE {Pipe})
  /\ fetched' # {}
  /\ ready' = {}
  /\ UNCHANGED <<sock, client, registered, pipe, m_conn_map, conn, free, listener,
                 responders, crashed, hurt>>

\* The next command; the pipe is read until it is empty.
Command ==
  /\ listener = Idle /\ Pipe \in fetched
  /\ pipe' = Tail(pipe)
  /\ fetched' = IF pipe' = << >> THEN fetched \ {Pipe} ELSE fetched
  /\ \/ Head(pipe).cmd = "new" /\ new_conn2(Head(pipe).fd)
     \/ Head(pipe).cmd = "close" /\ close_conn(Head(pipe).fd)
     \/ Head(pipe).cmd = "resubmit" /\ resubmit(Head(pipe).fd)

\* An error on a socket.
ErrorEvent(e) ==
  /\ listener = Idle /\ e # Pipe /\ e.rst
  /\ fetched' = fetched \ {e}
  /\ close_conn(e.fd)
  /\ UNCHANGED pipe

\* Variant: one pending task is taken to be enough.
DataEventOnce(e) ==
  LET c == m_conn_map[e.fd]
      submit == c # 0 /\ (conn[c].pending < 1 \/ e.hup)
  IN  /\ listener = Idle /\ e # Pipe /\ ~e.rst
      /\ fetched' = fetched \ {e}
      /\ listener' = IF submit THEN [pc |-> "submit", conn |-> c] ELSE Idle
      /\ conn' = IF submit
                 THEN [conn EXCEPT ![c].pending = @ + 1, ![c].closed = @ \/ e.hup]
                 ELSE conn
      /\ UNCHANGED <<kernel, pipe, m_conn_map, free, responders, crashed, hurt>>

\* New lines, or the client hung up.  With two tasks pending one of them has
\* not begun to read, so no third one is needed.
DataEvent(e) ==
  LET c == m_conn_map[e.fd]
      submit == c # 0 /\ (conn[c].pending < 2 \/ e.hup)
  IN  /\ listener = Idle /\ e # Pipe /\ ~e.rst
      /\ fetched' = fetched \ {e}
      /\ listener' = IF submit THEN [pc |-> "submit", conn |-> c] ELSE Idle
      /\ conn' = IF submit
                 THEN [conn EXCEPT ![c].pending = @ + 1, ![c].closed = @ \/ e.hup]
                 ELSE conn
      /\ UNCHANGED <<kernel, pipe, m_conn_map, free, responders, crashed, hurt>>

\* The task goes to the responder that has the other one.  By now that one may
\* be done, and pending_tasks be 1.
Submit ==
  /\ listener.pc = "submit"
  /\ LET c == listener.conn
     IN  \E w \in WorkersFor(c) :
           /\ SubmitTo(w, c)
           /\ conn' = [conn EXCEPT ![c].worker_id = w]
  /\ listener' = Idle
  /\ UNCHANGED <<kernel, fetched, pipe, m_conn_map, free, worker, crashed, hurt>>

Listener ==
  /\ ~crashed
  /\ \/ EpollWait
     \/ Command
     \/ \E e \in fetched : ErrorEvent(e)
     \/ \E e \in fetched : DataEvent(e)
     \/ MarkClosed
     \/ Submit

-----------------------------------------------------------------------------
(* Responders: recv_tcp_data() *)

\* A task is dequeued and reads until the socket or the room in the buffer is
\* exhausted; on a closed descriptor recv() fails.
Recv(w) ==
  /\ worker[w] = Idle /\ m_tasks[w] # << >>
  /\ LET c == Head(m_tasks[w])
         fd == conn[c].fd
         len == Min({Unread(fd), BuffSize})
     IN  /\ m_tasks' = [m_tasks EXCEPT ![w] = Tail(@)]
         /\ worker' = [worker EXCEPT ![w] =
              [pc |-> IF len >= BuffSize THEN "again" ELSE "done", conn |-> c]]
         /\ client' = IF len > 0 THEN [client EXCEPT ![sock[fd]].unread = @ - len] ELSE client
         /\ hurt' = IF len > 0 /\ conn[c].of # sock[fd] THEN hurt \cup {sock[fd]} ELSE hurt
  /\ UNCHANGED <<sock, registered, ready, pipe, server, crashed>>

\* The buffer was full: unless another task is pending, listener1 is asked for
\* one more.
Again(w) ==
  /\ worker[w].pc = "again"
  /\ LET c == worker[w].conn
     IN  pipe' = IF conn[c].pending <= 1
                 THEN Append(pipe, [cmd |-> "resubmit", fd |-> conn[c].fd]) ELSE pipe
  /\ worker' = [worker EXCEPT ![w].pc = "done"]
  /\ UNCHANGED <<kernel, server, m_tasks, crashed, hurt>>

Done(w) ==
  /\ worker[w].pc = "done"
  /\ LET c == worker[w].conn
     IN  /\ conn' = [conn EXCEPT ![c].pending = @ - 1]
         /\ worker' = [worker EXCEPT ![w] =
              IF conn[c].pending <= 1 THEN [pc |-> "last", conn |-> c] ELSE Idle]
  /\ UNCHANGED <<kernel, fetched, pipe, m_conn_map, free, listener, m_tasks, crashed, hurt>>

\* Variant: what is left in the socket is not looked at.
CloseUnread(w) ==
  /\ worker[w].pc = "last"
  /\ LET c == conn[worker[w].conn]
     IN  pipe' = IF c.closed THEN Append(pipe, [cmd |-> "close", fd |-> c.fd]) ELSE pipe
  /\ worker' = [worker EXCEPT ![w] = Idle]
  /\ UNCHANGED <<kernel, server, m_tasks, crashed, hurt>>

\* The last pending task closes the connection if the client hung up, unless
\* something is left to read.
close_conn_by_responder(w) ==
  /\ worker[w].pc = "last"
  /\ LET c == conn[worker[w].conn]
     IN  pipe' = IF c.closed /\ Unread(c.fd) = 0
                 THEN Append(pipe, [cmd |-> "close", fd |-> c.fd]) ELSE pipe
  /\ worker' = [worker EXCEPT ![w] = Idle]
  /\ UNCHANGED <<kernel, server, m_tasks, crashed, hurt>>

Work(w) == ~crashed /\ (Recv(w) \/ Again(w) \/ Done(w) \/ close_conn_by_responder(w))

Next ==
  \/ ~crashed /\ (new_conn0 \/ \E k \in DOMAIN client : Send(k) \/ HangUp(k) \/ Reset(k))
  \/ Listener
  \/ \E w \in Workers : Work(w)

\* listener1 and the responders run when they have something to do.  Clients
\* need not do anything.
Fairness == WF_vars(Listener) /\ \A w \in Workers : WF_vars(Work(w))

Spec == Init /\ [][Next]_vars /\ Fairness

-----------------------------------------------------------------------------
(* Properties *)

\* The tasks for connection c: queued, in the hands of a responder that has
\* not counted itself out yet, or about to be queued.
Queued(w, c) == {i \in DOMAIN m_tasks[w] : m_tasks[w][i] = c}
InHand(w, c) == worker[w] # Idle /\ worker[w].pc # "last" /\ worker[w].conn = c
TasksOf(c) ==
  FoldSet(LAMBDA w, n : n + Cardinality(Queued(w, c)) + (IF InHand(w, c) THEN 1 ELSE 0), 0, Workers)
  + (IF listener # Idle /\ listener.pc = "submit" /\ listener.conn = c THEN 1 ELSE 0)

\* pending_tasks counts exactly the tasks of a connection, so it is never
\* negative; and a connection with tasks is in the map, not on the free list: it is
\* not recycled before the decrement of its last task.  (A responder still reads the
\* state of the connection after its own decrement.)
PendingExact ==
  \A c \in Conns :
    /\ conn[c].pending = TasksOf(c)
    /\ TasksOf(c) > 0 => m_conn_map[conn[c].fd] = c

\* The tasks of a connection are with one responder, so no two of them read
\* its socket, or fill its buffer, at the same time.
OneAtATime ==
  \A c \in Conns, v, w \in Workers :
    (Queued(v, c) # {} \/ InHand(v, c)) /\ (Queued(w, c) # {} \/ InHand(w, c)) => v = w

\* Only a client that got a descriptor somebody still used for an earlier one
\* can have lines dropped by close(), or taken for those of another client.
OnlyStaleHurt == \A k \in hurt : client[k].stale

Excused(k) == crashed \/ client[k].stale \/ client[k].rst

\* What a client sent is read, although events are reported once and dropped
\* while two tasks are pending, and a task reads no more than a buffer.
EventuallyRead ==
  \A k \in Clients :
    (k \in DOMAIN client /\ client[k].unread > 0) ~>
      (k \in DOMAIN client /\ (client[k].unread = 0 \/ Excused(k)))
=============================================================================
