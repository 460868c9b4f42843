----------------------------- MODULE MCService -----------------------------
(***************************************************************************)
(* Finite instances, for TLC, of the threads of the server: the queue of a *)
(* worker, the workers, HTTP connections, the memory manager, the          *)
(* forwarder to a partition and the pipe of a listener.  A behaviour is    *)
(* one of one component, which part names; the others stay as they start.  *)
(***************************************************************************)
EXTENDS Queue11, Integers

CONSTANTS
  m_thread_count, Conns, Room, MaxTasks,
  HttpRequests, Handled, BuffLen, MaxRequests,
  Users, Memory, UsageSize, MaxAllocs,
  Threads, MaxFwd, BuffCap, MaxBuffs, WorkerBuffs, RotationSize, SizeMod, MaxOutages,
  Writers, Lines, Newline, StopLine, PipeRoom, BuffSize, ReadTries, MaxLines

VARIABLES
  part,
  m_tasks, m_next_worker, worker_id, submit, submitted, asked, stopping, m_shutdown,
  worker, task, executed, joined,
  client, socket, conn, pending_tasks, pool, failed, nsent,
  free_list, m_free, m_total, held, exist, creating, m_max_usage, m_max_usage_idx, gc, allocs,
  m_buffers, m_buff_count, mine, taken, m_fd, m_backlog, m_size, files, position, remote,
  sent, dropped, accepted, crashed, outages, offered,
  pipe, signalled, writer, written, nlines, listener, tries, m_buff, m_buff2, commands, stop

Tasks == INSTANCE TaskScheduler
Conn == INSTANCE Http
Heap == INSTANCE MemoryManager
Fwd == INSTANCE Forwarder
Cmd == INSTANCE Pipe

HttpReq(head, body, length, close, route, encoding) ==
  [head |-> head, body |-> body, length |-> length, close |-> close, route |-> route,
   encoding |-> encoding]
SixRequests ==
  {HttpReq(2, 0, 0, FALSE, "q", "ok"), HttpReq(2, 2, 2, FALSE, "put", "ok"),
   HttpReq(1, 2, 2, TRUE, "put", "bad"), HttpReq(1, 0, 0, TRUE, "x", "ok"),
   HttpReq(3, 3, 3, FALSE, "put", "ok"), HttpReq(2, 0, -1, FALSE, "put", "ok")}

\* Two commands, one of them with a descriptor.
TwoLines == {<<"s", "eol">>, <<"x", "7", "eol">>}
Stop == <<"s", "eol">>

tasksvars ==
  <<m_tasks, m_next_worker, worker_id, submit, submitted, asked, stopping, m_shutdown,
    worker, task, executed, joined>>
connvars == <<client, socket, conn, pending_tasks, pool, failed, nsent>>
heapvars ==
  <<free_list, m_free, m_total, held, exist, creating, m_max_usage, m_max_usage_idx, gc,
    allocs>>
fwdvars ==
  <<m_buffers, m_buff_count, mine, taken, m_fd, m_backlog, m_size, files, position, remote,
    sent, dropped, accepted, crashed, outages, offered>>
pipevars ==
  <<pipe, signalled, writer, written, nlines, listener, tries, m_buff, m_buff2, commands,
    stop>>
servicevars == <<part, vars, tasksvars, connvars, heapvars, fwdvars, pipevars>>

\* A forwarder that does not run has no backlog.
ServiceInit ==
  /\ part \in {"queue", "tasks", "http", "heap", "fwd", "pipe"}
  /\ Init /\ Tasks!Init /\ Conn!HInit /\ Heap!GInit /\ Fwd!FwInit /\ Cmd!PipeInit
  /\ part = "fwd" \/ (files = <<>> /\ remote)

\* Everything but the variables of the component that runs is unchanged.
OthersUnchanged ==
  /\ UNCHANGED part
  /\ IF part = "queue" THEN TRUE ELSE UNCHANGED vars
  /\ IF part = "tasks" THEN TRUE ELSE UNCHANGED tasksvars
  /\ IF part = "http" THEN TRUE ELSE UNCHANGED connvars
  /\ IF part = "heap" THEN TRUE ELSE UNCHANGED heapvars
  /\ IF part = "fwd" THEN TRUE ELSE UNCHANGED fwdvars
  /\ IF part = "pipe" THEN TRUE ELSE UNCHANGED pipevars

ServiceNext ==
  /\ OthersUnchanged
  /\ \/ part = "queue" /\ Next
     \/ part = "tasks" /\ Tasks!Next
     \/ part = "http" /\ Conn!HNext
     \/ part = "heap" /\ Heap!GNext
     \/ part = "fwd" /\ Fwd!FwNext
     \/ part = "pipe" /\ Cmd!PipeNext

\* The fairness that the components state for themselves.  Only one of them runs, so
\* that conditions of different components can share a conjunct.
Main ==
  /\ OthersUnchanged
  /\ \/ part = "tasks" /\ Tasks!Submitting
     \/ part = "http" /\ Conn!Recv
     \/ part = "fwd" /\ Fwd!Worker
     \/ part = "pipe" /\ Cmd!Listener

Thread(i) ==
  /\ OthersUnchanged
  /\ \/ part = "tasks" /\ i \in Tasks!Workers /\ Tasks!Work(i)
     \/ part = "fwd" /\ i \in Threads /\ Fwd!Submit(i)
     \/ part = "pipe" /\ i \in Writers /\ Cmd!write_pipe(i)

ServiceFair ==
  /\ WF_servicevars(Main)
  /\ \A i \in Tasks!Workers \cup Threads \cup Writers : WF_servicevars(Thread(i))
  /\ WF_servicevars(OthersUnchanged /\ part = "tasks" /\ Tasks!Stopping)

ServiceSpec == ServiceInit /\ [][ServiceNext]_servicevars /\ ServiceFair

-----------------------------------------------------------------------------
(* Properties, as the modules state them *)

\* TaskScheduler: the tasks of a connection are executed in order.
InOrderPerConn == Tasks!InOrderPerConn

\* TaskScheduler: a shutdown comes to its end.
ShutdownEnds == Tasks!ShutdownEnds

\* HttpServer: a whole request does not stay unanswered.
WholeRequestIsAnswered == Conn!WholeRequestIsAnswered

\* MemoryManager: an object has one owner.
OneOwnerEach == Heap!OneOwnerEach

\* PartitionServer: the backlog is sent when the peer is back.
BacklogIsBackfilled == Fwd!BacklogIsBackfilled

\* TcpListener: a command in the pipe is read.
CommandsAreRead == Cmd!CommandsAreRead
=============================================================================
