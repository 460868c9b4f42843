---------------------------- MODULE CheckPoints ----------------------------
(***************************************************************************)
(* Check-points that leaders send with their data (CheckPointManager), the *)
(* timer's rotate task that flushes the shards and persists them, shutdown *)
(* and restart.                                                            *)
(*                                                                         *)
(* A leader numbers its check-points; 0 stands for none.  A channel stands *)
(* for a <leader>:<channel> pair.  A check-point file is the function from *)
(* channels to what its line says, with the shards it was written for.     *)
(*                                                                         *)
(* Points reach the files of a shard a page at a time.  What is still in a *)
(* page in memory is flushed by no rotation and is not modelled; shutdown  *)
(* writes those pages first (Tsdb::shutdown()).                            *)
(***************************************************************************)
EXTENDS Naturals, Sequences, FiniteSets, FiniteSetsExt

CONSTANTS
  Channels,
  MaxCp,      \* bound on the check-points of a channel
  DayCount,   \* bound on the shards
  Retain,     \* check-point files that are kept
  Digit,      \* the base in which a check-point is written
  MaxClock,   \* bound on the seconds
  MaxRestarts

VARIABLES
  m_cps, m_snapshot, m_persisted,
  cp_files,   \* second -> [cps, of]: content of <second>.cp, shards listed for it
  writing,    \* <<>>, or <<second, channels whose line is still to be written>>
  clock,
  days,       \* shards there are
  readable,   \* shards with TSDB_MODE_READ
  due,        \* rotate tasks the timer has submitted and the worker not begun
  rotate,     \* [at, todo]: where the worker is in rotate(), shards to flush
  stage,      \* "up", then the stages of the shutdown, "stopped"
  received,   \* ghost: the newest check-point that each channel sent
  unflushed,  \* ghost: shard -> what was received before the oldest page that was
              \* written to its files and not flushed; MaxCp without such a page
  listed,     \* ghost: shards that the rotation of m_snapshot lists
  told,       \* ghost: shards that the rotation of m_persisted listed
  resumed,    \* ghost: the check-points that the last start loaded,
  lost,       \* ghost: and what unflushed was then, for the shards of that file
  restarts

cpvars == <<m_cps, m_snapshot, m_persisted, cp_files, writing, clock, days, readable, due,
            rotate, stage, received, unflushed, listed, told, resumed, lost, restarts>>
shards == <<days, readable, unflushed>>
atStart == <<resumed, lost, restarts>>
maps == <<m_cps, m_snapshot, m_persisted>>

None == [c \in Channels |-> 0]
Clean == [c \in Channels |-> MaxCp]
Least(f, g) == [c \in Channels |-> Min({f[c], g[c]})]

\* Until the servers have stopped, requests arrive.
Serving == stage \in {"up", "requested"}
Idle == [at |-> "idle", todo |-> {}]

CpInit ==
  /\ m_cps = None /\ m_snapshot = None /\ m_persisted = None
  /\ cp_files = <<>>
  /\ writing = <<>>
  /\ clock = 1
  /\ days = 1
  /\ readable \in {{}, {1}}
  /\ due = 0
  /\ rotate = Idle
  /\ stage = "up"
  /\ received = None
  /\ unflushed = [s \in 1 .. DayCount |-> Clean]
  /\ listed = {} /\ told = {}
  /\ resumed = None /\ lost = Clean
  /\ restarts = 0

-----------------------------------------------------------------------------
(* Leaders *)

\* CheckPointManager::add(), on the line "cp <leader>:<channel>:<check-point>".
\* It takes m_lock, which persist() holds until the file is written.
Add(c) ==
  /\ Serving
  /\ writing = <<>>
  /\ received[c] < MaxCp
  /\ received' = [received EXCEPT ![c] = @ + 1]
  /\ m_cps' = [m_cps EXCEPT ![c] = received[c] + 1]
  /\ UNCHANGED <<m_snapshot, m_persisted, cp_files, writing, clock, shards, due, rotate,
                 stage, listed, told, atStart>>

\* A point of another day creates a shard, in the mode that its age gives it.
CreateDay ==
  /\ Serving
  /\ days < DayCount
  /\ days' = days + 1
  /\ readable' \in {readable, readable \cup {days + 1}}
  /\ UNCHANGED <<maps, cp_files, writing, clock, due, rotate, stage, received, unflushed,
                 listed, told, atStart>>

\* append_page(): a page that is full goes to the files of its shard.
append_page(s) ==
  /\ Serving
  /\ s <= days
  /\ readable' = readable \cup {s}
  /\ unflushed' = [unflushed EXCEPT ![s] = Least(@, received)]
  /\ UNCHANGED <<maps, cp_files, writing, clock, days, due, rotate, stage, received,
                 listed, told, atStart>>

\* Timer::run() submits the task when it is due; it is not
\* due again before the worker began it.
TimerSubmits ==
  /\ stage = "up"
  /\ due = 0
  /\ due' = due + 1
  /\ UNCHANGED <<maps, cp_files, writing, clock, shards, rotate, stage, received, listed,
                 told, atStart>>

-----------------------------------------------------------------------------
(* Tsdb::rotate(), on the timer's one worker *)

\* The shards are listed first, and the snapshot is taken after that.
StartRotation ==
  /\ stage = "up"
  /\ due > 0
  /\ rotate.at = "idle"
  /\ due' = due - 1
  /\ rotate' = [at |-> "snapshot", todo |-> 1 .. days]
  /\ UNCHANGED <<maps, cp_files, writing, clock, shards, stage, received, listed, told,
                 atStart>>

TakeSnapshot ==
  /\ rotate.at = "snapshot"
  /\ writing = <<>>
  /\ m_snapshot' = m_cps
  /\ listed' = rotate.todo
  /\ rotate' = [rotate EXCEPT !.at = "flush"]
  /\ UNCHANGED <<m_cps, m_persisted, cp_files, writing, clock, shards, due, stage,
                 received, told, atStart>>

\* Tsdb::flush(), and unload_no_lock() when every file was idle and is closed.
Flush(s) ==
  /\ unflushed' = [unflushed EXCEPT ![s] = Clean]
  /\ readable' \in {readable, readable \ {s}}

\* Variant: the loop ends after the first shard.
FlushFirstOnly ==
  /\ rotate.at = "flush"
  /\ rotate.todo # {}
  /\ Flush(Min(rotate.todo))
  /\ rotate' = [rotate EXCEPT !.todo = {}]
  /\ UNCHANGED <<maps, cp_files, writing, clock, days, due, stage, received, listed, told,
                 atStart>>

\* One shard is flushed; one that is not in read mode is archived already and is
\* passed over.  A shutdown that was requested ends the loop: the shards it did not
\* come to are left to the shutdown.
FlushShard ==
  /\ rotate.at = "flush"
  /\ rotate.todo # {}
  /\ \/ /\ stage # "up"
        /\ rotate' = [rotate EXCEPT !.todo = {}]
        /\ listed' = IF stage = "requested" THEN listed \ rotate.todo ELSE listed
        /\ UNCHANGED <<readable, unflushed>>
     \/ /\ stage = "up"
        /\ IF Min(rotate.todo) \in readable THEN Flush(Min(rotate.todo))
           ELSE UNCHANGED <<readable, unflushed>>
        /\ rotate' = [rotate EXCEPT !.todo = @ \ {Min(@)}]
        /\ UNCHANGED listed
  /\ UNCHANGED <<maps, cp_files, writing, clock, days, due, stage, received, told, atStart>>

-----------------------------------------------------------------------------
(* persist() and persist_to_file() *)

\* The file of this second is created, or emptied when the last one is of the
\* same second.
OpenFile ==
  \E now \in {clock, Min({clock + 1, MaxClock})} :
    /\ clock' = now
    /\ writing' = <<now, {c \in Channels : m_snapshot[c] # 0}>>
    /\ cp_files' = [s \in DOMAIN cp_files \cup {now} |->
                      IF s = now THEN [cps |-> None, of |-> listed] ELSE cp_files[s]]

\* rotate_files(): the newest files stay.
rotate_files(files) ==
  [s \in {t \in DOMAIN files : Cardinality({u \in DOMAIN files : u > t}) < Retain} |-> files[s]]

\* One line; after the last one the older files go, and m_persisted is set.
WriteLine ==
  /\ writing # <<>>
  /\ IF writing[2] # {}
     THEN /\ \E c \in writing[2] :
               /\ cp_files' = [cp_files EXCEPT ![writing[1]].cps[c] = m_snapshot[c]]
               /\ writing' = <<writing[1], writing[2] \ {c}>>
          /\ UNCHANGED <<m_persisted, told, stage, rotate>>
     ELSE /\ cp_files' = rotate_files(cp_files)
          /\ writing' = <<>>
          /\ m_persisted' = m_snapshot
          /\ told' = listed
          /\ IF rotate.at = "write"
             THEN rotate' = Idle /\ UNCHANGED stage
             ELSE stage' = "stopped" /\ UNCHANGED rotate
  /\ UNCHANGED <<m_cps, m_snapshot, clock, shards, due, received, listed, atStart>>

\* persist() after the loop; an empty snapshot is not written.
Persist ==
  /\ rotate.at = "flush"
  /\ rotate.todo = {}
  /\ writing = <<>>
  /\ IF m_snapshot = None
     THEN /\ rotate' = Idle
          /\ m_persisted' = m_snapshot
          /\ told' = listed
          /\ UNCHANGED <<writing, cp_files, clock>>
     ELSE /\ rotate' = [rotate EXCEPT !.at = "write"]
          /\ OpenFile
          /\ UNCHANGED <<m_persisted, told>>
  /\ UNCHANGED <<m_cps, m_snapshot, shards, due, stage, received, listed, atStart>>

\* What the admin command "cp" answers a leader for its channel c.
get_persisted(c) == m_persisted[c]

-----------------------------------------------------------------------------
(* Shutdown, crash and restart *)

\* intr_handler()
RequestShutdown ==
  /\ stage = "up"
  /\ stage' = "requested"
  /\ UNCHANGED <<maps, cp_files, writing, clock, shards, due, rotate, received, listed,
                 told, atStart>>

\* The servers have stopped; Timer::stop() and the loop of Tsdb::shutdown(), which do not wait for a
\* rotation that the worker is in.
ShutdownShards ==
  /\ stage = "requested"
  /\ stage' = "flushed"
  /\ due' = 0
  /\ unflushed' = [s \in 1 .. DayCount |-> Clean]
  /\ UNCHANGED <<maps, cp_files, writing, clock, days, readable, rotate, received, listed,
                 told, atStart>>

\* CheckPointManager::close(): take_snapshot() once the lock is free.
Close ==
  /\ stage = "flushed"
  /\ writing = <<>>
  /\ rotate.at # "write"
  /\ m_snapshot' = m_cps
  /\ listed' = 1 .. days

\* ... and persist(), which the worker may get ahead of.
ShutdownClose ==
  /\ Close
  /\ stage' = "closing"
  /\ UNCHANGED <<m_cps, m_persisted, cp_files, writing, clock, shards, due, rotate,
                 received, told, atStart>>

ShutdownPersist ==
  /\ stage = "closing"
  /\ writing = <<>>
  /\ rotate.at # "write"
  /\ IF m_snapshot = None
     THEN /\ stage' = "stopped"
          /\ m_persisted' = m_snapshot
          /\ told' = listed
          /\ UNCHANGED <<writing, cp_files, clock>>
     ELSE OpenFile /\ stage' = "writing" /\ UNCHANGED <<m_persisted, told>>
  /\ UNCHANGED <<m_cps, m_snapshot, shards, due, rotate, received, listed, atStart>>

\* What init() reads of the last file.  When the process ended while it was being
\* written, lines are missing, and the next line may be cut in its check-point,
\* which leaves the leading digits.
Loaded(last) ==
  IF writing = <<>> THEN {last}
  ELSE {last} \cup {[last EXCEPT ![c] = m_snapshot[c] \div Digit] : c \in writing[2]}

\* The process ends at any time, or has stopped, and starts again.  The shards get the
\* mode of their age; what was not flushed may be gone.
Restart ==
  LET last == IF DOMAIN cp_files = {} THEN [cps |-> None, of |-> {}]
              ELSE cp_files[Max(DOMAIN cp_files)]
  IN  /\ restarts < MaxRestarts
      /\ restarts' = restarts + 1
      /\ m_cps' \in Loaded(last.cps)
      /\ resumed' = m_cps'
      /\ lost' = FoldSet(LAMBDA s, f : Least(f, unflushed[s]), Clean, last.of)
      /\ m_snapshot' = None /\ m_persisted' = None
      /\ writing' = <<>>
      /\ due' = 0
      /\ rotate' = Idle
      /\ stage' = "up"
      /\ readable' \in SUBSET (1 .. days)
      /\ unflushed' = [s \in 1 .. DayCount |-> Clean]
      /\ listed' = {} /\ told' = {}
      /\ UNCHANGED <<cp_files, clock, days, received>>

CpNext ==
  \/ \E c \in Channels : Add(c)
  \/ \E s \in 1 .. DayCount : append_page(s)
  \/ CreateDay \/ TimerSubmits
  \/ StartRotation \/ TakeSnapshot \/ FlushShard \/ Persist \/ WriteLine
  \/ RequestShutdown \/ ShutdownShards \/ ShutdownClose \/ ShutdownPersist
  \/ Restart

CpSpec == CpInit /\ [][CpNext]_cpvars

-----------------------------------------------------------------------------
(* Properties *)

\* Every page that was written to a shard's files before a check-point arrived has been
\* flushed when a leader is told that the check-point is persisted, and when a start
\* loads it after a crash, also one in the middle of writing the file.  This is said
\* of the shards that the rotation listed and reached before a shutdown: rotate()
\* persists also for shards created after the listing, and when it was interrupted.
ToldWereFlushed ==
  /\ \A c \in Channels, s \in told : get_persisted(c) <= unflushed[s][c]
  /\ \A c \in Channels : resumed[c] <= lost[c]
=============================================================================
