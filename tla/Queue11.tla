------------------------------ MODULE Queue11 ------------------------------
(***************************************************************************)
(* Queue11, the lock-free ring buffer between the thread that submits      *)
(* tasks and the worker thread that executes them: one inserting and one   *)
(* deleting thread.                                                        *)
(*                                                                         *)
(* m_head is only written by the deleting thread and m_tail only by the    *)
(* inserting one.  Each is published with release and read by the other    *)
(* thread with acquire, so an interleaving of the loads, the copy of the   *)
(* item and the store, in program order, covers what the threads can see.  *)
(***************************************************************************)
EXTENDS Naturals

CONSTANTS
  Items,        \* what can be put into the queue
  NoItem,       \* no item
  m_capacity    \* number of slots

\* With a single slot the queue would be full and empty at once.
ASSUME CapacityAssumption == m_capacity \in Nat /\ m_capacity >= 2
ASSUME NoItemAssumption == NoItem \notin Items

VARIABLES
  m_head, m_tail,   \* next slot to be emptied, next slot to be filled
  m_items,          \* the slots
  enq,              \* step of try_enqueue()
  item,             \* item being inserted
  deq,              \* step of try_dequeue()
  read,             \* item copied out of the queue
  result            \* what the last try_dequeue() returned

vars == <<m_head, m_tail, m_items, enq, item, deq, read, result>>

Slots == 0 .. (m_capacity - 1)

Succ(i) == (i + 1) % m_capacity

Init ==
  /\ m_head = 0 /\ m_tail = 0
  /\ m_items = [i \in Slots |-> NoItem]
  /\ enq = "idle" /\ item = NoItem
  /\ deq = "idle" /\ read = NoItem
  /\ result = NoItem

-----------------------------------------------------------------------------
(* try_enqueue() *)

StartEnqueue(i) ==
  /\ enq = "idle"
  /\ enq' = "check"
  /\ item' = i
  /\ UNCHANGED <<m_head, m_tail, m_items, deq, read, result>>

\* m_head is loaded and compared.
CheckFull ==
  /\ enq = "check"
  /\ enq' = IF m_head = Succ(m_tail) THEN "idle" ELSE "copy"
  /\ UNCHANGED <<m_head, m_tail, m_items, item, deq, read, result>>

CopyIn ==
  /\ enq = "copy"
  /\ enq' = "store"
  /\ m_items' = [m_items EXCEPT ![m_tail] = item]
  /\ UNCHANGED <<m_head, m_tail, item, deq, read, result>>

StoreTail ==
  /\ enq = "store"
  /\ enq' = "idle"
  /\ m_tail' = Succ(m_tail)
  /\ UNCHANGED <<m_head, m_items, item, deq, read, result>>

-----------------------------------------------------------------------------
(* try_dequeue() *)

\* Variant: an empty queue is not noticed.
EmptyNotChecked ==
  /\ deq = "idle"
  /\ deq' = "copy"
  /\ UNCHANGED <<m_head, m_tail, m_items, enq, item, read, result>>

\* m_tail is loaded and compared.
CheckEmpty ==
  /\ deq = "idle"
  /\ deq' = IF m_tail = m_head THEN "idle" ELSE "copy"
  /\ result' = IF m_tail = m_head THEN NoItem ELSE result
  /\ UNCHANGED <<m_head, m_tail, m_items, enq, item, read>>

CopyOut ==
  /\ deq = "copy"
  /\ deq' = "store"
  /\ read' = m_items[m_head]
  /\ UNCHANGED <<m_head, m_tail, m_items, enq, item, result>>

StoreHead ==
  /\ deq = "store"
  /\ deq' = "idle"
  /\ m_head' = Succ(m_head)
  /\ result' = read
  /\ UNCHANGED <<m_tail, m_items, enq, item, read>>

Next ==
  \/ \E i \in Items : StartEnqueue(i)
  \/ CheckFull
  \/ CopyIn
  \/ StoreTail
  \/ CheckEmpty
  \/ CopyOut
  \/ StoreHead

Spec == Init /\ [][Next]_vars

-----------------------------------------------------------------------------
(* Properties *)

\* Number of items in the queue, as size() computes it.
size == IF m_tail < m_head THEN m_tail + m_capacity - m_head ELSE m_tail - m_head

\* Type invariant.
TypeOK ==
  /\ m_head \in Slots /\ m_tail \in Slots
  /\ m_items \in [Slots -> Items \cup {NoItem}]
  /\ enq \in {"idle", "check", "copy", "store"}
  /\ enq # "idle" => item \in Items
  /\ item \in Items \cup {NoItem}
  /\ deq \in {"idle", "copy", "store"}
  /\ read \in Items \cup {NoItem}
  /\ result \in Items \cup {NoItem}

\* The inserting thread never writes the slot the deleting thread is copying
\* out, although neither takes a lock: a slot is only written while the queue
\* has room and only read while it holds an item.
NoSlotRace == ~(enq \in {"copy", "store"} /\ deq \in {"copy", "store"} /\ m_tail = m_head)

\* The items in the queue, oldest first.
Content == [k \in 1 .. size |-> m_items[(m_head + k - 1) % m_capacity]]

\* The ring buffer implements a bounded queue with room for one item less than
\* it has slots: nothing is lost, duplicated, reordered or made up, whatever
\* the interleaving of the two threads.
FifoQueue == INSTANCE Fifo WITH queue <- Content, Room <- m_capacity - 1
ImplementsFifo == FifoQueue!Spec
=============================================================================
