----------------------------- MODULE AppendLog -----------------------------
(***************************************************************************)
(* The append log (write-ahead log of the pages in memory) on top of the   *)
(* write path of PageChain: the periodic AppendLog::flush_all(), a crash   *)
(* of the process at any point, AppendLog::restore() at the next start,    *)
(* and the normal shutdown.                                                *)
(*                                                                         *)
(* flush_all() writes append.tmp one series at a time, each under its own  *)
(* lock, then removes append.log and renames append.tmp.  A crash of the   *)
(* process loses the pages in memory and what stdio has not written yet;   *)
(* the mapped header and index files and the flushed data files survive.   *)
(***************************************************************************)
EXTENDS PageChain

CONSTANT MaxCrashes   \* bound on the number of crashes
ASSUME CrashBoundAssumption == MaxCrashes \in Nat

VARIABLES
  log,       \* append.log
  tmp,       \* append.tmp
  writing,   \* step of flush_all()
  todo,      \* series flush_all() has not written yet
  up,        \* is the process running?
  crashes,   \* number of crashes so far
  promised   \* series -> points accepted before the last completed flush_all()

lvars == <<log, tmp, writing, todo, up, crashes, promised>>
avars == <<vars, lvars>>

\* A log file: the pages in memory of each series as they were when the series
\* was written to it.  'seen' records what the series had accepted by then.
NoEntry == [buff |-> NoBuff, ooo |-> NoBuff, seen |-> {}]
NoFile == [exists |-> FALSE, entry |-> [s \in Series |-> NoEntry]]

AInit ==
  /\ Init
  /\ log = NoFile
  /\ tmp = NoFile
  /\ writing = "no"
  /\ todo = {}
  /\ up = TRUE
  /\ crashes = 0
  /\ promised = [s \in Series |-> {}]

-----------------------------------------------------------------------------
(* AppendLog::flush_all() *)

\* append.tmp is opened and truncated.
OpenTmp ==
  /\ up
  /\ writing = "no"
  /\ writing' = "pages"
  /\ todo' = Series
  /\ tmp' = [NoFile EXCEPT !.exists = TRUE]
  /\ UNCHANGED <<vars, log, up, crashes, promised>>

\* TimeSeries::append(): the pages in memory that are not empty.
append(s) ==
  /\ up
  /\ writing = "pages"
  /\ s \in todo
  /\ todo' = todo \ {s}
  /\ tmp' = [tmp EXCEPT !.entry[s] =
               [buff |-> IF m_buff[s].pts = {} THEN NoBuff ELSE m_buff[s],
                ooo  |-> IF m_ooo_buff[s].pts = {} THEN NoBuff ELSE m_ooo_buff[s],
                seen |-> accepted[s]]]
  /\ UNCHANGED <<vars, log, writing, up, crashes, promised>>

\* All is written and closed; the old append.log is removed.
RemoveLog ==
  /\ up
  /\ writing = "pages"
  /\ todo = {}
  /\ writing' = "rename"
  /\ log' = NoFile
  /\ promised' = [s \in Series |-> tmp.entry[s].seen]
  /\ UNCHANGED <<vars, tmp, todo, up, crashes>>

RenameTmp ==
  /\ up
  /\ writing = "rename"
  /\ writing' = "no"
  /\ log' = tmp
  /\ tmp' = NoFile
  /\ UNCHANGED <<vars, todo, up, crashes, promised>>

-----------------------------------------------------------------------------
(* Crash, restart and shutdown *)

\* The process dies.  Of an append.tmp that is being written any part of what
\* was passed to stdio may have reached the file.
Crash ==
  /\ up
  /\ crashes < MaxCrashes
  /\ crashes' = crashes + 1
  /\ up' = FALSE
  /\ m_buff' = [s \in Series |-> NoBuff]
  /\ m_ooo_buff' = [s \in Series |-> NoBuff]
  /\ writing' = "no"
  /\ todo' = {}
  /\ \E lost \in IF writing = "pages" THEN SUBSET Series ELSE {{}} :
       tmp' = [tmp EXCEPT !.entry =
                 [s \in Series |-> IF s \in lost THEN NoEntry ELSE tmp.entry[s]]]
  /\ UNCHANGED <<disk, oooflag, rolled, accepted, log, promised>>

\* Variant: append.tmp is preferred.
RestoreTmp ==
  LET file == IF tmp.exists THEN tmp ELSE log
  IN  /\ ~up
      /\ up' = TRUE
      /\ m_buff' = [s \in Series |-> file.entry[s].buff]
      /\ m_ooo_buff' = [s \in Series |-> file.entry[s].ooo]
      /\ tmp' = NoFile
      /\ accepted' = [s \in Series |->
           OnDisk(s) \cup file.entry[s].buff.pts \cup file.entry[s].ooo.pts]
      /\ UNCHANGED <<disk, oooflag, rolled, log, writing, todo, crashes, promised>>

\* The next start.  append.log is preferred to append.tmp; every page in it is
\* rebuilt with the position it had in its chain when it was logged.  Only
\* append.tmp is removed afterwards.
restore ==
  LET file == IF log.exists THEN log ELSE tmp
  IN  /\ ~up
      /\ up' = TRUE
      /\ m_buff' = [s \in Series |-> file.entry[s].buff]
      /\ m_ooo_buff' = [s \in Series |-> file.entry[s].ooo]
      /\ tmp' = NoFile
      /\ accepted' = [s \in Series |->
           OnDisk(s) \cup file.entry[s].buff.pts \cup file.entry[s].ooo.pts]
      /\ UNCHANGED <<disk, oooflag, rolled, log, writing, todo, crashes, promised>>

\* Normal shutdown and restart, once every series is closed.
shutdown ==
  /\ up
  /\ writing = "no"
  /\ \A s \in Series : m_buff[s] = NoBuff /\ m_ooo_buff[s] = NoBuff
  /\ log.exists
  /\ log' = NoFile
  /\ tmp' = NoFile
  /\ UNCHANGED <<vars, writing, todo, up, crashes, promised>>

Serve ==
  /\ up
  /\ \/ \E s \in Series, t \in Tstamps : AddDataPoint(s, t)
     \/ \E s \in Series : CloseSeries(s)
     \/ \E d \in Tsdbs : RollUp(d)
  /\ UNCHANGED lvars

ANext ==
  \/ Serve
  \/ OpenTmp
  \/ \E s \in Series : append(s)
  \/ RemoveLog
  \/ RenameTmp
  \/ Crash
  \/ restore
  \/ shutdown

ASpec == AInit /\ [][ANext]_avars

-----------------------------------------------------------------------------
(* Properties *)

\* Whenever the process dies, also between the removal of append.log and the
\* renaming of append.tmp, the next start finds every data point that had been
\* accepted when the last complete log was written.
LoggedPointsSurvive == up => \A s \in Series : promised[s] \subseteq accepted[s]
=============================================================================
