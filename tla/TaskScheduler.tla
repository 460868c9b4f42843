--------------------------- MODULE TaskScheduler ---------------------------
(***************************************************************************)
(* TaskScheduler: one thread that submits tasks (a listener or the timer), *)
(* the worker threads that execute them, and the thread that shuts them    *)
(* down.  Every worker has a queue of its own, a Queue11, which is used    *)
(* here as the bounded FIFO queue that Queue11 is shown to implement: a    *)
(* try_enqueue() and a try_dequeue() is one step.                          *)
(*                                                                         *)
(* A task belongs to a connection.  Its first task goes to any worker, the *)
(* later ones to the same worker, as the listener does with worker_id.     *)
(***************************************************************************)
EXTENDS Naturals, Sequences, FiniteSets, SequencesExt

CONSTANTS
  m_thread_count,   \* number of workers
  Conns,            \* the connections tasks are submitted for
  Room,             \* how many tasks fit into the queue of a worker
  MaxTasks          \* bound on the number of tasks

VARIABLES
  m_tasks,          \* worker -> its queue
  m_next_worker,    \* worker to try next
  worker_id,        \* connection -> worker of its tasks, None at first
  submit,           \* step of submit_task(): task, attempts, assignee
  submitted,        \* tasks put into a queue, in that order
  asked,            \* number of calls of submit_task()
  stopping,         \* shutdown was requested of the scheduler
  m_shutdown,       \* workers of which shutdown was requested
  worker,           \* worker -> its step
  task,             \* worker -> the task it has dequeued
  executed,         \* worker -> tasks executed, in that order
  joined            \* has wait() returned?

vars == <<m_tasks, m_next_worker, worker_id, submit, submitted, asked, stopping,
          m_shutdown, worker, task, executed, joined>>

Workers == 0 .. (m_thread_count - 1)
None == m_thread_count
Tasks == [conn : Conns, n : 1 .. MaxTasks]
Idle == [step |-> "idle"]

Init ==
  /\ m_tasks = [w \in Workers |-> << >>]
  /\ m_next_worker = 0
  /\ worker_id = [c \in Conns |-> None]
  /\ submit = Idle
  /\ submitted = << >>
  /\ asked = 0
  /\ stopping = FALSE
  /\ m_shutdown = {}
  /\ worker = [w \in Workers |-> "loop"]
  /\ task = [w \in Workers |-> Idle]
  /\ executed = [w \in Workers |-> << >>]
  /\ joined = FALSE

-----------------------------------------------------------------------------
(* submit_task(), called by one thread *)

sharedvars == <<stopping, m_shutdown, worker, task, executed, joined>>
NextWorker == (m_next_worker + 1) % m_thread_count

\* The call; it fails at once when a shutdown was requested.
Submit(c) ==
  /\ submit = Idle
  /\ asked < MaxTasks
  /\ asked' = asked + 1
  /\ submit' = IF stopping THEN Idle
               ELSE [step |-> "try", task |-> [conn |-> c, n |-> asked + 1], i |-> 0]
  /\ UNCHANGED <<m_tasks, m_next_worker, worker_id, submitted>>
  /\ UNCHANGED sharedvars

\* The task is put into the queue of worker w and submit_task() returns w.
Enqueue(w) ==
  /\ Len(m_tasks[w]) < Room
  /\ m_tasks' = [m_tasks EXCEPT ![w] = Append(@, submit.task)]
  /\ submitted' = Append(submitted, submit.task)
  /\ worker_id' = [worker_id EXCEPT ![submit.task.conn] = w]
  /\ m_next_worker' = NextWorker
  /\ submit' = Idle
  /\ UNCHANGED asked
  /\ UNCHANGED sharedvars

\* Variant: the worker of the connection is not preferred when it is busy.
TryAny ==
  /\ submit.step = "try"
  /\ \E w \in Workers : Enqueue(w)

\* A connection that has a worker waits for room in the queue of that worker.
TryAssigned ==
  /\ submit.step = "try"
  /\ worker_id[submit.task.conn] # None
  /\ Enqueue(worker_id[submit.task.conn])

\* The others try the workers in turn.
TryInTurn ==
  /\ submit.step = "try"
  /\ worker_id[submit.task.conn] = None
  /\ Enqueue(m_next_worker)

\* The next worker is full: on to the one after it, and after all of them were
\* tried, or the only one allowed was, the shutdown request is looked at.
TryNext ==
  /\ submit.step = "try"
  /\ worker_id[submit.task.conn] = None
  /\ Len(m_tasks[m_next_worker]) = Room
  /\ m_next_worker' = NextWorker
  /\ submit' = IF submit.i + 1 < m_thread_count
               THEN [submit EXCEPT !.i = @ + 1] ELSE [submit EXCEPT !.step = "full"]
  /\ UNCHANGED <<m_tasks, worker_id, submitted, asked>>
  /\ UNCHANGED sharedvars

AssignedFull ==
  /\ submit.step = "try"
  /\ worker_id[submit.task.conn] # None
  /\ Len(m_tasks[worker_id[submit.task.conn]]) = Room
  /\ submit' = [submit EXCEPT !.step = "full"]
  /\ UNCHANGED <<m_tasks, m_next_worker, worker_id, submitted, asked>>
  /\ UNCHANGED sharedvars

\* Variant: the request is not looked at while waiting for room.
WaitForever ==
  /\ submit.step = "full"
  /\ submit' = [submit EXCEPT !.step = "try", !.i = 0]
  /\ UNCHANGED <<m_next_worker, m_tasks, worker_id, submitted, asked>>
  /\ UNCHANGED sharedvars

\* spin_yield() and another round, or give up.
GiveUpOrRetry ==
  /\ submit.step = "full"
  /\ submit' = IF stopping THEN Idle ELSE [submit EXCEPT !.step = "try", !.i = 0]
  /\ m_next_worker' = IF stopping THEN NextWorker ELSE m_next_worker
  /\ UNCHANGED <<m_tasks, worker_id, submitted, asked>>
  /\ UNCHANGED sharedvars

Submitter ==
  \/ \E c \in Conns : Submit(c)
  \/ TryAssigned
  \/ TryInTurn
  \/ TryNext
  \/ AssignedFull
  \/ GiveUpOrRetry

-----------------------------------------------------------------------------
(* Worker::work() *)

submitvars == <<m_next_worker, worker_id, submit, submitted, asked, stopping, m_shutdown, joined>>

\* The loop ends when a shutdown was requested of this worker.
LoopTest(w) ==
  /\ worker[w] = "loop"
  /\ worker' = [worker EXCEPT ![w] = IF w \in m_shutdown THEN "stopped" ELSE "poll"]
  /\ UNCHANGED <<m_tasks, task, executed>>
  /\ UNCHANGED submitvars

\* try_dequeue() returns a task.
Dequeue(w) ==
  /\ worker[w] = "poll"
  /\ m_tasks[w] # << >>
  /\ task' = [task EXCEPT ![w] = Head(m_tasks[w])]
  /\ m_tasks' = [m_tasks EXCEPT ![w] = Tail(@)]
  /\ worker' = [worker EXCEPT ![w] = "check"]
  /\ UNCHANGED executed
  /\ UNCHANGED submitvars

\* There is none, and a shutdown was requested: back to the test of the loop.
LeavePoll(w) ==
  /\ worker[w] = "poll"
  /\ m_tasks[w] = << >>
  /\ w \in m_shutdown
  /\ worker' = [worker EXCEPT ![w] = "loop"]
  /\ UNCHANGED <<m_tasks, task, executed>>
  /\ UNCHANGED submitvars

\* The request is looked at again: a task that was dequeued is dropped.
CheckShutdown(w) ==
  /\ worker[w] = "check"
  /\ worker' = [worker EXCEPT ![w] = IF w \in m_shutdown THEN "stopped" ELSE "run"]
  /\ UNCHANGED <<m_tasks, task, executed>>
  /\ UNCHANGED submitvars

\* The task returns, or ends with an exception, which is caught.
Execute(w) ==
  /\ worker[w] = "run"
  /\ worker' = [worker EXCEPT ![w] = "loop"]
  /\ executed' = [executed EXCEPT ![w] = Append(@, task[w])]
  /\ task' = [task EXCEPT ![w] = Idle]
  /\ UNCHANGED m_tasks
  /\ UNCHANGED submitvars

Work(w) ==
  \/ LoopTest(w)
  \/ Dequeue(w)
  \/ LeavePoll(w)
  \/ CheckShutdown(w)
  \/ Execute(w)

-----------------------------------------------------------------------------
(* shutdown() and wait(), called by another thread *)

Shutdown ==
  /\ ~stopping
  /\ stopping' = TRUE
  /\ UNCHANGED <<m_tasks, m_next_worker, worker_id, submit, submitted, asked,
                 m_shutdown, worker, task, executed, joined>>

\* The workers are told one after the other.
ShutdownWorker(w) ==
  /\ stopping
  /\ m_shutdown = 0 .. (w - 1)
  /\ m_shutdown' = m_shutdown \cup {w}
  /\ UNCHANGED <<m_tasks, m_next_worker, worker_id, submit, submitted, asked,
                 stopping, worker, task, executed, joined>>

\* Every thread has been joined.
Wait ==
  /\ m_shutdown = Workers
  /\ \A w \in Workers : worker[w] = "stopped"
  /\ ~joined
  /\ joined' = TRUE
  /\ UNCHANGED <<m_tasks, m_next_worker, worker_id, submit, submitted, asked,
                 stopping, m_shutdown, worker, task, executed>>

Stopper == Shutdown \/ (\E w \in Workers : ShutdownWorker(w)) \/ Wait

Next == Submitter \/ (\E w \in Workers : Work(w)) \/ Stopper

\* The loop of submit_task(), once it was called.
Submitting == TryAssigned \/ TryInTurn \/ TryNext \/ AssignedFull \/ GiveUpOrRetry

\* shutdown() and wait(), once shutdown was requested.
Stopping == (\E w \in Workers : ShutdownWorker(w)) \/ Wait

\* A thread that can run runs: submit_task() and work() spin without a lock,
\* and a shutdown that was begun is finished.  Nobody has to begin one.
Fairness ==
  /\ WF_vars(Submitting)
  /\ \A w \in Workers : WF_vars(Work(w))
  /\ WF_vars(Stopping)

Spec == Init /\ [][Next]_vars /\ Fairness

-----------------------------------------------------------------------------
(* Properties *)

\* Where the tasks of a worker are: executed, dequeued, or in its queue.
InHand(w) == IF worker[w] \in {"check", "run", "stopped"} /\ task[w] # Idle
             THEN <<task[w]>> ELSE << >>
History(w) == executed[w] \o InHand(w) \o m_tasks[w]

\* The tasks of a connection are executed by one worker, in the order in which
\* they were submitted, so a request never overtakes an earlier one of its
\* connection, whatever happens to the other connections.
InOrderPerConn ==
  \A c \in Conns : \A w \in Workers :
    LET mine(seq) == SelectSeq(seq, LAMBDA t : t.conn = c)
    IN  mine(History(w)) = IF w = worker_id[c] THEN mine(submitted) ELSE << >>

\* A shutdown comes to its end: every worker stops, also one that is waiting
\* for a task, and submit_task() returns, also when the queues are full.
ShutdownEnds == stopping ~> (joined /\ submit = Idle)
=============================================================================
