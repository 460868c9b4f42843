----------------------------- MODULE Forwarder -----------------------------
(***************************************************************************)
(* Forwarding of data points to another server (PartitionServer, BackLog   *)
(* and PartitionBuffer): threads fill buffers, one worker sends them, and  *)
(* while the other server cannot be reached they go to backlog files that  *)
(* are sent once it can.                                                   *)
(*                                                                         *)
(* Which partition a point belongs to is not modelled: there is one        *)
(* partition with one remote server, the only case that add_data_point()   *)
(* implements.  A point is a number; a buffer or a file is a sequence.     *)
(***************************************************************************)
EXTENDS Naturals, Sequences, FiniteSets, FiniteSetsExt, SequencesExt

CONSTANTS
  Threads,      \* threads that forward points
  MaxFwd,       \* bound on the points
  BuffCap,      \* points that fit in a buffer
  MaxBuffs,     \* most buffers in all for forward() still to create one
  WorkerBuffs,  \* most buffers in all for the worker still to create one
  RotationSize, \* points in a file after which the next one is begun
  SizeMod,      \* 2^64, of the counter of the file's size
  MaxOutages    \* bound on the times the other server goes away

VARIABLES
  m_buffers,    \* the deque
  m_buff_count,
  mine,         \* thread -> <<>> or <<buffer>> it is filling
  taken,        \* <<>> or <<buffer>> the worker holds
  m_fd,         \* the connection: "closed", "open", or "broken" unnoticed
  m_backlog,    \* the BackLog object: none, closed, open for read or append
  m_size,       \* its m_size
  files,        \* backlog files, oldest first
  position,     \* how far the file open for read was read
  remote,       \* can the other server be reached?
  sent,         \* points given to a connection that had its other end
  dropped,      \* ghost: points given to one that no longer had it
  accepted,     \* points for which forward() returned true
  crashed,      \* the worker used a file or a buffer it does not have
  outages,
  offered

fwvars == <<m_buffers, m_buff_count, mine, taken, m_fd, m_backlog, m_size, files,
            position, remote, sent, dropped, accepted, crashed, outages, offered>>
\* what only the worker uses, and what it leaves alone
worker == <<taken, m_fd, m_backlog, m_size, files, position, sent, dropped, crashed>>
others == <<mine, remote, accepted, outages, offered>>

\* A backlog file may be left from an earlier run of the server.
FwInit ==
  /\ m_buffers = <<>>
  /\ m_buff_count = 0
  /\ mine = [t \in Threads |-> <<>>]
  /\ taken = <<>>
  /\ m_fd = "closed"
  /\ files \in {<<>>, << <<0>> >>}
  /\ m_backlog = IF files = <<>> THEN "none" ELSE "closed"
  /\ m_size = 0
  /\ position = 0
  /\ remote \in BOOLEAN
  /\ sent = {} /\ dropped = {}
  /\ accepted = IF files = <<>> THEN {} ELSE {0}
  /\ crashed = FALSE
  /\ outages = 0
  /\ offered = 0

-----------------------------------------------------------------------------
(* PartitionServer::forward() and submit_buffer() *)

\* PartitionBuffer::append(): false when the line does not fit.
append(buffer, p) ==
  IF Len(buffer) < BuffCap THEN <<Append(buffer, p), TRUE>> ELSE <<buffer, FALSE>>

\* The thread's own buffer; else the first of the deque that is not full; else a
\* new one; else the point is refused.
Forward(t) ==
  LET open == {i \in DOMAIN m_buffers : Len(m_buffers[i]) < BuffCap}
      p == offered + 1
      Put(buffer) == /\ mine' = [mine EXCEPT ![t] = <<append(buffer, p)[1]>>]
                     /\ accepted' = IF append(buffer, p)[2] THEN accepted \cup {p} ELSE accepted
  IN  /\ offered < MaxFwd
      /\ offered' = p
      /\ \/ /\ mine[t] # <<>>
            /\ Put(Head(mine[t]))
            /\ UNCHANGED <<m_buffers, m_buff_count>>
         \/ /\ mine[t] = <<>>
            /\ open # {}
            /\ Put(m_buffers[Min(open)])
            /\ m_buffers' = RemoveAt(m_buffers, Min(open))
            /\ UNCHANGED m_buff_count
         \/ /\ mine[t] = <<>>
            /\ open = {}
            /\ IF m_buff_count < MaxBuffs
               THEN Put(<<>>) /\ m_buff_count' = m_buff_count + 1
               ELSE UNCHANGED <<mine, accepted, m_buff_count>>
            /\ UNCHANGED m_buffers
      /\ UNCHANGED <<worker, remote, outages>>

\* submit_data_points() at the end of a request.
Submit(t) ==
  /\ mine[t] # <<>>
  /\ m_buffers' = Append(m_buffers, Head(mine[t]))
  /\ mine' = [mine EXCEPT ![t] = <<>>]
  /\ UNCHANGED <<m_buff_count, worker, remote, accepted, outages, offered>>

-----------------------------------------------------------------------------
(* PartitionServer::do_work() *)

\* get_buffer(): the last of the deque that is, or is not, empty.
LastOf(empty) == {i \in DOMAIN m_buffers : (m_buffers[i] = <<>>) = empty}

\* A buffer with points is taken out of the deque.
TakeBuffer ==
  /\ ~crashed
  /\ taken = <<>>
  /\ LastOf(FALSE) # {}
  /\ taken' = <<m_buffers[Max(LastOf(FALSE))]>>
  /\ m_buffers' = RemoveAt(m_buffers, Max(LastOf(FALSE)))
  /\ UNCHANGED <<m_buff_count, m_fd, m_backlog, m_size, files, position, sent, dropped,
                 crashed, others>>

\* send(): the kernel takes all of it, also of a connection that no longer has
\* another end; or takes some of it until such a connection fails, and it is closed.
send(points, fd, ok) ==
  /\ ok \/ fd = "broken"
  /\ m_fd' = IF ok THEN fd ELSE "closed"
  /\ \E n \in IF ok THEN {Len(points)} ELSE 0 .. Len(points) - 1 :
       LET given == ToSet(SubSeq(points, 1, n)) IN
       IF fd = "broken" THEN dropped' = dropped \cup given /\ UNCHANGED sent
       ELSE sent' = sent \cup given /\ UNCHANGED dropped

\* The worker puts its buffer, emptied or not, at the front of the deque.
PutBack(buffer) == m_buffers' = <<buffer>> \o m_buffers /\ taken' = <<>>

\* Connected, or connecting succeeds, which closes a file open for append: the
\* buffer is sent, and kept when that fails.
SendBuffer ==
  /\ ~crashed
  /\ taken # <<>>
  /\ m_fd # "closed" \/ remote
  /\ m_backlog' = IF m_fd = "closed" /\ m_backlog = "append" THEN "closed" ELSE m_backlog
  /\ \E ok \in BOOLEAN :
       /\ send(Head(taken), IF m_fd = "closed" THEN "open" ELSE m_fd, ok)
       /\ PutBack(IF ok THEN <<>> ELSE Head(taken))
  /\ UNCHANGED <<m_buff_count, m_size, files, position, crashed, others>>

\* BackLog::append() of a buffer.  Past the rotation size the next file is opened,
\* which is the same one within the second; a file open for read takes nothing
\* (fprintf() returns -1); without a file the process ends.
Saved(buffer) ==
  LET full == m_size >= RotationSize
      rotates == m_backlog = "none" \/ full
  IN  \/ /\ rotates \/ m_backlog = "append"
         /\ m_backlog' = "append"
         /\ m_size' = (IF rotates THEN 0 ELSE m_size) + Len(buffer)
         /\ \E anew \in IF rotates THEN {TRUE, files = <<>>} ELSE {FALSE} :
              files' = IF anew THEN Append(files, buffer)
                       ELSE [files EXCEPT ![Len(files)] = @ \o buffer]
         /\ PutBack(<<>>)
         /\ UNCHANGED crashed
      \/ /\ ~rotates
         /\ m_backlog = "read"
         /\ m_size' = (m_size + SizeMod - 1) % SizeMod
         /\ PutBack(buffer)
         /\ UNCHANGED <<m_backlog, files, crashed>>
      \/ /\ ~rotates
         /\ m_backlog = "closed"
         /\ crashed' = TRUE
         /\ UNCHANGED <<m_backlog, m_size, files, m_buffers, taken>>

\* Connecting failed: the buffer goes to the backlog, which is opened for append
\* here only when there is no BackLog object yet.
SaveBuffer ==
  /\ ~crashed
  /\ taken # <<>>
  /\ m_fd = "closed"
  /\ ~remote
  /\ Saved(Head(taken))
  /\ UNCHANGED <<m_buff_count, m_fd, position, sent, dropped, others>>

\* The worker found no buffer with points in it, and there is a backlog.
IdleWithBacklog == ~crashed /\ taken = <<>> /\ LastOf(FALSE) = {} /\ m_backlog # "none"

\* Variant: only a buffer with points is a reason to connect.
ConnectForPoints ==
  /\ ~crashed
  /\ taken = <<>>
  /\ LastOf(FALSE) # {}
  /\ m_fd = "closed"
  /\ remote
  /\ m_fd' = "open"
  /\ UNCHANGED <<m_buffers, m_buff_count, taken, m_backlog, m_size, files, position,
                 sent, dropped, crashed, others>>

\* Not connected: the backlog is the reason to connect.
Connect ==
  /\ IdleWithBacklog
  /\ m_fd = "closed"
  /\ remote
  /\ m_fd' = "open"
  /\ UNCHANGED <<m_buffers, m_buff_count, taken, m_backlog, m_size, files, position,
                 sent, dropped, crashed, others>>

\* What the files, the BackLog and the buffer are after the points from at to n of
\* the oldest file were read and sent, or not sent: when there were no more the
\* file is removed; when sending failed it is closed, and read again from its
\* start, and the buffer is kept.
AfterRead(at, n, ok) ==
  IF at = Len(Head(files))
  THEN [files |-> Tail(files), position |-> 0, m_backlog |-> "closed", left |-> <<>>]
  ELSE [files |-> files, position |-> n, m_backlog |-> IF ok THEN "read" ELSE "closed",
        left |-> IF ok THEN <<>> ELSE SubSeq(Head(files), at + 1, n)]

\* Connected: the backlog is read into an empty buffer, a buffer's worth at a
\* time, and sent.  The worker relies on finding a buffer.
SendBacklog ==
  LET at == IF m_backlog = "read" THEN position ELSE 0
      n == Min({at + BuffCap, Len(Head(files))})
      empty == LastOf(TRUE)
      kept == IF empty = {} THEN m_buffers ELSE RemoveAt(m_buffers, Max(empty))
  IN  /\ IdleWithBacklog
      /\ m_fd # "closed"
      /\ files # <<>>
      /\ \/ /\ empty # {} \/ m_buff_count < WorkerBuffs
            /\ m_buff_count' = m_buff_count + (IF empty = {} THEN 1 ELSE 0)
            /\ \E ok \in BOOLEAN :
                 LET after == AfterRead(at, n, ok) IN
                 /\ send(SubSeq(Head(files), at + 1, n), m_fd, ok)
                 /\ files' = after.files
                 /\ position' = after.position
                 /\ m_backlog' = after.m_backlog
                 /\ m_buffers' = <<after.left>> \o kept
            /\ UNCHANGED crashed
         \/ /\ empty = {}
            /\ m_buff_count >= WorkerBuffs
            /\ crashed' = TRUE
            /\ UNCHANGED <<m_buffers, m_buff_count, files, position, m_backlog, sent,
                           dropped, m_fd>>
      /\ UNCHANGED <<taken, m_size, others>>

\* No file is left: the BackLog is deleted.
EndBacklog ==
  /\ IdleWithBacklog
  /\ m_fd # "closed"
  /\ files = <<>>
  /\ m_backlog' = "none"
  /\ m_size' = 0
  /\ UNCHANGED <<m_buffers, m_buff_count, taken, m_fd, files, position, sent, dropped,
                 crashed, others>>

Worker == TakeBuffer \/ SendBuffer \/ SaveBuffer \/ Connect \/ SendBacklog \/ EndBacklog

\* The other server goes away, which a connection to it does not show at once,
\* and comes back.
Outage ==
  /\ IF remote THEN outages < MaxOutages /\ outages' = outages + 1 ELSE UNCHANGED outages
  /\ remote' = ~remote
  /\ m_fd' = IF m_fd = "open" THEN "broken" ELSE m_fd
  /\ UNCHANGED <<m_buffers, m_buff_count, mine, taken, m_backlog, m_size, files,
                 position, sent, dropped, accepted, crashed, offered>>

FwNext ==
  \/ \E t \in Threads : Forward(t) \/ Submit(t)
  \/ Worker
  \/ Outage

\* The worker has a thread of its own; every request ends.
FwFair == WF_fwvars(Worker) /\ \A t \in Threads : WF_fwvars(Submit(t))
FwSpec == FwInit /\ [][FwNext]_fwvars /\ FwFair

-----------------------------------------------------------------------------
(* Properties *)

\* Once the other server recovers and stays, every accepted point has been given to a
\* connection, also those saved in backlog files (unless the worker ended the process).
\* The points in dropped are lost: do_work() clears a buffer that the kernel took, and
\* learns only later that the connection had no other end.
BacklogIsBackfilled ==
  (<>[](remote /\ ~crashed)) => <>[](accepted \subseteq sent \cup dropped)
=============================================================================
