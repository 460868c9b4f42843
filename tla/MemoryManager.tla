--------------------------- MODULE MemoryManager ---------------------------
(***************************************************************************)
(* One of MemoryManager's pools of recyclable objects or of network        *)
(* buffers: threads take objects from its free list and give them back,    *)
(* while collect_garbage() samples how many are in use and, after          *)
(* UsageSize samples, deletes what was not needed at any of them.          *)
(*                                                                         *)
(* The free list and m_free change under the lock of the pool.  m_total    *)
(* and the samples are read and written without it.                        *)
(***************************************************************************)
EXTENDS Naturals, Integers, Sequences, FiniteSets, FiniteSetsExt, SequencesExt

CONSTANTS
  Users,      \* threads that allocate and free
  Memory,     \* addresses an object can have
  UsageSize,  \* MAX_USAGE_SIZE
  MaxAllocs   \* bound on the allocations

VARIABLES
  free_list,        \* m_free_lists[type]
  m_free,
  m_total,
  held,             \* thread -> objects it was given and has not freed
  exist,            \* objects created and not deleted
  creating,         \* threads that found the free list empty
  m_max_usage,
  m_max_usage_idx,
  gc,               \* step of collect_garbage()
  allocs

gvars == <<free_list, m_free, m_total, held, exist, creating, m_max_usage,
           m_max_usage_idx, gc, allocs>>

\* What collect_garbage() is doing: the total it has read, the usage to keep,
\* and whether the administrator asked for it.
Idle == [at |-> "idle", total |-> 0, keep |-> 0, asked |-> FALSE]

GInit ==
  /\ free_list = <<>>
  /\ m_free = 0
  /\ m_total = 0
  /\ held = [u \in Users |-> {}]
  /\ exist = {}
  /\ creating = {}
  /\ m_max_usage = [i \in 1 .. UsageSize |-> 0]
  /\ m_max_usage_idx = 1
  /\ gc = Idle
  /\ allocs = 0

\* collect_garbage() holds the lock of the pool while it deletes.
Unlocked == gc.at # "delete"

-----------------------------------------------------------------------------
(* alloc_recyclable(), alloc_network_buffer() *)

\* Variant: the head of the list is given out and not unlinked.
GiveHead(u) ==
  /\ held' = [held EXCEPT ![u] = @ \cup {Head(free_list)}]
  /\ m_free' = m_free - 1
  /\ UNCHANGED free_list

\* The head of the free list.
TakeHead(u) ==
  /\ held' = [held EXCEPT ![u] = @ \cup {Head(free_list)}]
  /\ m_free' = m_free - 1
  /\ free_list' = Tail(free_list)

Alloc(u) ==
  /\ Unlocked
  /\ u \notin creating
  /\ allocs < MaxAllocs
  /\ allocs' = allocs + 1
  /\ \/ /\ free_list # <<>>
        /\ TakeHead(u)
        /\ UNCHANGED creating
     \/ /\ free_list = <<>>
        /\ creating' = creating \cup {u}
        /\ UNCHANGED <<free_list, m_free, held>>
  /\ UNCHANGED <<m_total, exist, m_max_usage, m_max_usage_idx, gc>>

\* The list was empty: a new object, counted without the lock.
New(u) ==
  /\ u \in creating
  /\ creating' = creating \ {u}
  /\ \E o \in Memory \ exist :
       /\ exist' = exist \cup {o}
       /\ held' = [held EXCEPT ![u] = @ \cup {o}]
  /\ m_total' = m_total + 1
  /\ UNCHANGED <<free_list, m_free, m_max_usage, m_max_usage_idx, gc, allocs>>

\* free_recyclable(), free_recyclables(), free_network_buffer(): objects whose
\* recycle() succeeds go to the front of the list, the others are deleted.
Free(u) ==
  \E back \in SUBSET held[u] \ {{}} : \E kept \in SUBSET back :
    /\ Unlocked
    /\ held' = [held EXCEPT ![u] = @ \ back]
    /\ free_list' = SetToSeq(kept) \o free_list
    /\ m_free' = m_free + Cardinality(kept)
    /\ exist' = exist \ (back \ kept)
    /\ m_total' = m_total - Cardinality(back \ kept)
    /\ UNCHANGED <<creating, m_max_usage, m_max_usage_idx, gc, allocs>>

-----------------------------------------------------------------------------
(* collect_garbage(): run by the timer or on the administrator's command, one *)
(* at a time (m_garbage_lock)                                                *)

ReadTotal(asked) ==
  /\ gc.at = "idle"
  /\ gc' = [gc EXCEPT !.at = "sample", !.total = m_total, !.asked = asked]
  /\ UNCHANGED <<free_list, m_free, m_total, held, exist, creating, m_max_usage,
                 m_max_usage_idx, allocs>>

\* The sample that replaces the one UsageSize rounds ago.
Sampled(used) == [m_max_usage EXCEPT ![m_max_usage_idx] = used]

\* m_free is read later than m_total.  The round that fills the last place of
\* m_max_usage collects, and so does one the administrator asked for.
ReadFree ==
  LET after == Sampled(gc.total - m_free)
  IN  /\ gc.at = "sample"
      /\ m_max_usage' = after
      /\ m_max_usage_idx' = (m_max_usage_idx % UsageSize) + 1
      /\ gc' = IF m_max_usage_idx = UsageSize \/ gc.asked
               THEN [Idle EXCEPT !.at = "compare",
                       !.keep = Max({0} \cup {after[i] : i \in 1 .. UsageSize})]
               ELSE Idle
      /\ UNCHANGED <<free_list, m_free, m_total, held, exist, creating, allocs>>

\* Nothing is locked when nothing is to be deleted.
Compare ==
  /\ gc.at = "compare"
  /\ gc' = IF gc.keep < m_total THEN [gc EXCEPT !.at = "delete"] ELSE Idle
  /\ UNCHANGED <<free_list, m_free, m_total, held, exist, creating, m_max_usage,
                 m_max_usage_idx, allocs>>

DeleteHead ==
  /\ exist' = exist \ {Head(free_list)}
  /\ free_list' = Tail(free_list)
  /\ m_free' = m_free - 1
  /\ m_total' = m_total - 1
  /\ UNCHANGED gc

\* One round of the loop, with the lock held.
Delete ==
  /\ gc.at = "delete"
  /\ IF gc.keep < m_total /\ free_list # <<>>
     THEN DeleteHead
     ELSE /\ gc' = Idle
          /\ UNCHANGED <<free_list, m_free, m_total, exist>>
  /\ UNCHANGED <<held, creating, m_max_usage, m_max_usage_idx, allocs>>

Collect == (\E asked \in BOOLEAN : ReadTotal(asked)) \/ ReadFree \/ Compare \/ Delete

GNext ==
  \/ \E u \in Users : Alloc(u) \/ New(u) \/ Free(u)
  \/ Collect

GSpec == GInit /\ [][GNext]_gvars

-----------------------------------------------------------------------------
(* Properties *)

\* No object is handed to two users, or to a user while it is on the free list,
\* or deleted while it is in use: the free list has no object twice, and it and
\* the users share out exactly the objects that exist.
OneOwnerEach ==
  /\ IsInjective(free_list)
  /\ exist = ToSet(free_list) \cup UNION {held[u] : u \in Users}
  /\ \A u \in Users :
       /\ held[u] \cap ToSet(free_list) = {}
       /\ \A v \in Users \ {u} : held[u] \cap held[v] = {}
=============================================================================
