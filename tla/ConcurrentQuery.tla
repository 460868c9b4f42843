-------------------------- MODULE ConcurrentQuery --------------------------
(***************************************************************************)
(* Raw queries that run while data points are written.                     *)
(*                                                                         *)
(* In each shard a query first reads the pages on disk under the lock of   *)
(* the shard, and then the two pages in memory under the lock of the       *)
(* series.  Nothing is held between the two steps, so a writer may run     *)
(* there.                                                                  *)
(***************************************************************************)
EXTENDS Query

CONSTANT MaxQueries   \* bound on the number of queries that are started
ASSUME QueryBoundAssumption == MaxQueries \in Nat

VARIABLES
  query,     \* the query in progress, Idle if there is none
  started    \* number of queries started

qvars == <<vars, query, started>>

Idle == [step |-> "idle"]

QInit ==
  /\ Init
  /\ query = Idle
  /\ started = 0

QueryStart(s, r) ==
  /\ query = Idle
  /\ started < MaxQueries
  /\ started' = started + 1
  /\ query' = [step |-> "disk", s |-> s, r |-> r, todo |-> insts(r),
               data |-> << >>, dps |-> << >>, has_ooo |-> FALSE,
               flushed |-> OnDisk(s) \cap InRange(r)]
  /\ UNCHANGED vars

\* Tsdb::query_for_data() of the next shard.
ReadDisk ==
  /\ query.step = "disk"
  /\ query.todo # << >>
  /\ LET d == Head(query.todo)
         data == DiskContainers(d, query.s, query.r)
     IN  query' = [query EXCEPT
           !.step = "memory",
           !.has_ooo = @ \/ DiskOoo(d, query.s, query.r),
           !.data = IF oooflag[d][query.s] THEN data ELSE << >>,
           !.dps = IF oooflag[d][query.s] THEN @ ELSE @ \o Merged(data, query.r, FALSE)]
  /\ UNCHANGED <<vars, started>>

\* TimeSeries::query_for_data() and merge_data() for the same shard.
ReadMemory ==
  /\ query.step = "memory"
  /\ LET d == Head(query.todo)
         data == query.data \o MemContainers(d, query.s, query.r)
         ooo == query.has_ooo \/ MemOoo(d, query.s, query.r)
     IN  query' = [query EXCEPT
           !.step = "disk",
           !.has_ooo = ooo,
           !.data = << >>,
           !.dps = @ \o Merged(data, query.r, ooo),
           !.todo = Tail(@)]
  /\ UNCHANGED <<vars, started>>

Finished == query # Idle /\ query.step = "disk" /\ query.todo = << >>

QueryEnd ==
  /\ Finished
  /\ query' = Idle
  /\ UNCHANGED <<vars, started>>

QNext ==
  \/ \E s \in Series, t \in Tstamps : AddDataPoint(s, t) /\ UNCHANGED <<query, started>>
  \/ \E s \in Series : CloseSeries(s) /\ UNCHANGED <<query, started>>
  \/ \E d \in Tsdbs : RollUp(d) /\ UNCHANGED <<query, started>>
  \/ \E s \in Series, r \in Ranges : QueryStart(s, r)
  \/ ReadDisk
  \/ ReadMemory
  \/ QueryEnd

QSpec == QInit /\ [][QNext]_qvars

\* Whatever writers do meanwhile, a query returns all the points of its range
\* that were on disk when it started.
QueryFindsFlushed == Finished => query.flushed \subseteq ToSet(query.dps)
=============================================================================
