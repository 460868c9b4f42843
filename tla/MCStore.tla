------------------------------ MODULE MCStore ------------------------------
(***************************************************************************)
(* Finite instances, for TLC, of what must survive a crash or a restart:   *)
(* the append log with the pages in memory, the index, header and data     *)
(* files of a metric, and the registry of series with its meta file.  A    *)
(* behaviour is one of one component, which part names; the others stay as *)
(* they start.                                                             *)
(***************************************************************************)
EXTENDS AppendLog, TLC

CONSTANTS
  Ids, PageCount, Increment, CrashPoints, MaxAppends,
  Threads, Mappings, Spellings, Ordered, Formats, Requests, MaxPuts, MaxStarts

VARIABLES
  part,
  bucket, m_file, m_length, tail, appended, failures,
  m_next_id, m_map, ts, mm, file, lock, mlock, thread, owner, puts, starts

Bucket == INSTANCE Files WITH disk <- bucket, crashes <- failures
Meta == INSTANCE Registry

OneTsdb == {1}
Grows == {0, 3}       \* the index file grows, neither id has its last entry
TwoFields == {<<"f">>, <<"f", "g">>, <<"g", "f">>}
Both == {"put", "line"}

\* Neither threads nor mappings are told apart by name.
Alike == Permutations(Threads) \cup Permutations(Mappings)

bucketvars == <<bucket, m_file, m_length, tail, appended, failures>>
metavars == <<m_next_id, m_map, ts, mm, file, lock, mlock, thread, owner, puts, starts>>

StoreInit ==
  /\ part \in {"log", "bucket", "meta"}
  /\ AInit /\ Bucket!Init /\ Meta!Init

StoreNext ==
  /\ UNCHANGED part
  /\ \/ part = "log" /\ ANext /\ UNCHANGED <<bucketvars, metavars>>
     \/ part = "bucket" /\ Bucket!Next /\ UNCHANGED <<avars, metavars>>
     \/ part = "meta" /\ Meta!Next /\ UNCHANGED <<avars, bucketvars>>

StoreSpec == StoreInit /\ [][StoreNext]_<<part, avars, bucketvars, metavars>>

-----------------------------------------------------------------------------
(* Properties, as the modules state them *)

\* Files: the pages that an index entry leads to can be read.
PagesCanBeRead == part = "bucket" => Bucket!PagesCanBeRead

\* Files: the chain of a series holds the pages that were appended to it.
ChainHoldsPages == part = "bucket" => Bucket!ChainHoldsPages

\* Mapping: a series keeps one id, and an id one series.
OneIdPerSeries == part = "meta" => Meta!OneIdPerSeries

\* Mapping: what is stored under an id belongs to one series.
OwnPages == part = "meta" => Meta!OwnPages
=============================================================================
