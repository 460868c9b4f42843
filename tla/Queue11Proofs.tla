--------------------------- MODULE Queue11Proofs ---------------------------
(***************************************************************************)
(* Queue11 is free of races on its slots and implements a bounded FIFO     *)
(* queue, for any capacity and any items.                                  *)
(*                                                                         *)
(* The invariant Inv adds to the types what each thread has learnt from    *)
(* its check and what the other thread cannot undo: room in the queue while*)
(* an item is copied in, an item in the queue while it is copied out.      *)
(***************************************************************************)
EXTENDS Queue11, SequenceTheorems, TLAPS

\* Arithmetic of the ring.
LEMMA Mod ==
  ASSUME NEW a \in Nat, a < 2 * m_capacity
  PROVE  a % m_capacity = IF a < m_capacity THEN a ELSE a - m_capacity
<1>1. m_capacity \in Nat /\ m_capacity >= 2
  BY CapacityAssumption
<1>2. CASE a < m_capacity
  BY <1>1, <1>2
<1>3. CASE a >= m_capacity
  <2>1. a - m_capacity \in 0 .. (m_capacity - 1)
    BY <1>1, <1>3
  <2>2. a = 1 * m_capacity + (a - m_capacity)
    BY <1>1
  <2>. QED  BY <1>1, <1>3, <2>1, <2>2
<1>. QED  BY <1>1, <1>2, <1>3

\* The successor of a slot.
LEMMA SuccSlot ==
  ASSUME NEW i \in Slots
  PROVE  /\ Succ(i) = IF i = m_capacity - 1 THEN 0 ELSE i + 1
         /\ Succ(i) \in Slots
         /\ Succ(i) # i
<1>1. m_capacity \in Nat /\ m_capacity >= 2 /\ i \in Nat /\ i < m_capacity
  BY CapacityAssumption DEF Slots
<1>2. (i + 1) % m_capacity = IF i + 1 < m_capacity THEN i + 1 ELSE i + 1 - m_capacity
  BY <1>1, Mod
<1>. QED  BY <1>1, <1>2 DEF Succ, Slots

\* Different slots have different successors.
LEMMA SuccInjective ==
  ASSUME NEW i \in Slots, NEW j \in Slots, i # j
  PROVE  Succ(i) # Succ(j)
<1>1. m_capacity \in Nat /\ i \in Nat /\ j \in Nat /\ i < m_capacity /\ j < m_capacity
  BY CapacityAssumption DEF Slots
<1>2. Succ(i) = IF i = m_capacity - 1 THEN 0 ELSE i + 1
  BY SuccSlot
<1>3. Succ(j) = IF j = m_capacity - 1 THEN 0 ELSE j + 1
  BY SuccSlot
<1>. QED  BY <1>1, <1>2, <1>3

\* What a thread learnt from its check stays true until its store.
Inv ==
  /\ TypeOK
  /\ enq \in {"copy", "store"} => m_head # Succ(m_tail)
  /\ enq = "store" => m_items[m_tail] = item
  /\ deq \in {"copy", "store"} => m_head # m_tail
  /\ deq = "store" => read = m_items[m_head]

\* An empty queue satisfies the invariant.
LEMMA InitInv == Init => Inv
BY CapacityAssumption DEF Init, Inv, TypeOK, Slots

\* Every step of either thread keeps it.
LEMMA NextInv == Inv /\ [Next]_vars => Inv'
<1>. SUFFICES ASSUME Inv, [Next]_vars
              PROVE  Inv'
  OBVIOUS
<1>. USE DEF Inv, TypeOK
<1>1. ASSUME NEW i \in Items, StartEnqueue(i)
      PROVE  Inv'
  BY <1>1 DEF StartEnqueue
<1>2. CASE CheckFull
  BY <1>2 DEF CheckFull
<1>3. CASE CopyIn
  <2>1. m_items' \in [Slots -> Items \cup {NoItem}] /\ m_items'[m_tail] = item
    BY <1>3 DEF CopyIn
  <2>2. deq = "store" => m_items'[m_head] = m_items[m_head]
    BY <1>3 DEF CopyIn
  <2>. QED  BY <1>3, <2>1, <2>2 DEF CopyIn
<1>4. CASE StoreTail
  BY <1>4, SuccSlot DEF StoreTail
<1>5. CASE CheckEmpty
  BY <1>5 DEF CheckEmpty
<1>6. CASE CopyOut
  BY <1>6 DEF CopyOut
<1>7. CASE StoreHead
  <2>1. m_head' = Succ(m_head) /\ Succ(m_head) \in Slots
    BY <1>7, SuccSlot DEF StoreHead
  <2>2. Succ(m_head) # Succ(m_tail)
    BY <1>7, SuccInjective DEF StoreHead
  <2>. QED  BY <1>7, <2>1, <2>2 DEF StoreHead
<1>8. CASE UNCHANGED vars
  BY <1>8 DEF vars
<1>. QED  BY <1>1, <1>2, <1>3, <1>4, <1>5, <1>6, <1>7, <1>8 DEF Next

\* The invariant holds of every behaviour.
THEOREM Invariance == Spec => []Inv
BY InitInv, NextInv, PTL DEF Spec

\* The variables keep their types.
THEOREM TypeCorrect == Spec => []TypeOK
<1>1. Inv => TypeOK
  BY DEF Inv
<1>. QED  BY Invariance, <1>1, PTL

\* The two threads never touch the same slot at the same time.
THEOREM RaceFree == Spec => []NoSlotRace
<1>1. Inv => NoSlotRace
  BY DEF Inv, NoSlotRace
<1>. QED  BY Invariance, <1>1, PTL

-----------------------------------------------------------------------------
(* Refinement *)

Items0 == Items \cup {NoItem}

\* Slot of the k-th item of a queue that starts at slot h.
Pos(h, k) == (h + k - 1) % m_capacity

\* Number of items between slots h and t, and those items.
Between(h, t) == IF t < h THEN t + m_capacity - h ELSE t - h
ContentOf(f, h, t) == [k \in 1 .. Between(h, t) |-> f[Pos(h, k)]]

\* Content as a function of the slots and of the two ends.
LEMMA ContentIs == Content = ContentOf(m_items, m_head, m_tail)
BY DEF Content, ContentOf, size, Between, Pos

\* Pos and Between without division.
LEMMA Ring ==
  ASSUME NEW h \in Slots, NEW t \in Slots
  PROVE  /\ Between(h, t) \in 0 .. (m_capacity - 1)
         /\ Pos(h, Between(h, t) + 1) = t
         /\ \A k \in 1 .. m_capacity :
              /\ Pos(h, k) \in Slots
              /\ Pos(h, k) = IF h + k - 1 < m_capacity THEN h + k - 1
                            ELSE h + k - 1 - m_capacity
<1>1. m_capacity \in Nat /\ m_capacity >= 2 /\ h \in Nat /\ t \in Nat
      /\ h < m_capacity /\ t < m_capacity
  BY CapacityAssumption DEF Slots
<1>2. ASSUME NEW k \in 1 .. m_capacity
      PROVE  Pos(h, k) = IF h + k - 1 < m_capacity THEN h + k - 1
                         ELSE h + k - 1 - m_capacity
  <2>1. h + k - 1 \in Nat /\ h + k - 1 < 2 * m_capacity
    BY <1>1
  <2>. DEFINE a == h + k - 1
  <2>2. Pos(h, k) = a % m_capacity
    BY DEF Pos
  <2>. HIDE DEF a
  <2>3. a \in Nat /\ a < 2 * m_capacity
    BY <2>1 DEF a
  <2>4. a % m_capacity = IF a < m_capacity THEN a ELSE a - m_capacity
    BY <2>3, Mod
  <2>5. Pos(h, k) = IF a < m_capacity THEN a ELSE a - m_capacity
    BY <2>2, <2>4
  <2>. QED  BY <2>5, <2>3, <1>1 DEF a
<1>3. \A k \in 1 .. m_capacity : Pos(h, k) \in Slots
  BY <1>1, <1>2 DEF Slots
<1>4. Between(h, t) \in 0 .. (m_capacity - 1)
  BY <1>1 DEF Between
<1>5. Between(h, t) + 1 \in 1 .. m_capacity
  BY <1>1, <1>4
<1>6. Pos(h, Between(h, t) + 1) = t
  <2>. DEFINE n == Between(h, t)
  <2>. HIDE DEF n
  <2>1. n \in Nat /\ n + 1 \in 1 .. m_capacity
    BY <1>4, <1>5 DEF n
  <2>2. Pos(h, n + 1) = IF h + (n + 1) - 1 < m_capacity THEN h + (n + 1) - 1
                        ELSE h + (n + 1) - 1 - m_capacity
    BY <1>2, <2>1
  <2>3. Pos(h, n + 1) = IF h + n < m_capacity THEN h + n ELSE h + n - m_capacity
    BY <2>1, <2>2, <1>1
  <2>. QED  BY <2>3, <1>1 DEF Between, n
<1>. QED  BY <1>2, <1>3, <1>4, <1>6

\* It is a sequence of items.
LEMMA ContentIsSeq ==
  ASSUME NEW f \in [Slots -> Items0], NEW h \in Slots, NEW t \in Slots
  PROVE  /\ ContentOf(f, h, t) \in Seq(Items0)
         /\ Len(ContentOf(f, h, t)) = Between(h, t)
<1>1. Between(h, t) \in Nat /\ Between(h, t) < m_capacity /\ m_capacity \in Nat
  BY Ring, CapacityAssumption
<1>2. \A k \in 1 .. Between(h, t) : f[Pos(h, k)] \in Items0
  BY <1>1, Ring
<1>. QED  BY <1>1, <1>2, IsASeq DEF ContentOf

\* The step that publishes the slot at the tail appends its item.
LEMMA TailAppends ==
  ASSUME NEW f \in [Slots -> Items0], NEW h \in Slots, NEW t \in Slots, h # Succ(t)
  PROVE  /\ Between(h, t) < m_capacity - 1
         /\ ContentOf(f, h, Succ(t)) = Append(ContentOf(f, h, t), f[t])
<1>. DEFINE n == Between(h, t)
            c == ContentOf(f, h, t)
            e == ContentOf(f, h, Succ(t))
<1>1. Succ(t) \in Slots /\ Succ(t) = IF t = m_capacity - 1 THEN 0 ELSE t + 1
  BY SuccSlot
<1>2. m_capacity \in Nat /\ m_capacity >= 2 /\ h \in Nat /\ t \in Nat
      /\ h < m_capacity /\ t < m_capacity
  BY CapacityAssumption DEF Slots
<1>3. n < m_capacity - 1 /\ Between(h, Succ(t)) = n + 1 /\ n \in Nat
  BY <1>1, <1>2 DEF Between
<1>4. c \in Seq(Items0) /\ Len(c) = n
  BY ContentIsSeq
<1>5. e \in Seq(Items0) /\ Len(e) = n + 1
  BY <1>1, <1>3, ContentIsSeq
<1>6. \A k \in 1 .. n : e[k] = c[k]
  BY <1>3 DEF ContentOf
<1>7. e[n + 1] = f[t]
  BY <1>3, Ring DEF ContentOf
<1>8. f[t] \in Items0
  OBVIOUS
<1>. HIDE DEF c, e, n
<1>9. Append(c, f[t]) \in Seq(Items0) /\ Len(Append(c, f[t])) = n + 1
      /\ Append(c, f[t])[n + 1] = f[t] /\ \A k \in 1 .. n : Append(c, f[t])[k] = c[k]
  BY <1>4, <1>8, AppendProperties
<1>10. \A k \in 1 .. (n + 1) : e[k] = Append(c, f[t])[k]
  BY <1>3, <1>6, <1>7, <1>9
<1>11. e = Append(c, f[t])
  BY <1>5, <1>9, <1>10, SeqEqual
<1>. QED  BY <1>3, <1>11 DEF c, e, n

\* The step that gives the slot at the head back removes its item.
LEMMA HeadRemoves ==
  ASSUME NEW f \in [Slots -> Items0], NEW h \in Slots, NEW t \in Slots, h # t
  PROVE  /\ ContentOf(f, h, t) # << >>
         /\ Head(ContentOf(f, h, t)) = f[h]
         /\ ContentOf(f, Succ(h), t) = Tail(ContentOf(f, h, t))
<1>. DEFINE n == Between(h, t)
            c == ContentOf(f, h, t)
            e == ContentOf(f, Succ(h), t)
<1>1. Succ(h) \in Slots /\ Succ(h) = IF h = m_capacity - 1 THEN 0 ELSE h + 1
  BY SuccSlot
<1>2. m_capacity \in Nat /\ m_capacity >= 2 /\ h \in Nat /\ t \in Nat
      /\ h < m_capacity /\ t < m_capacity
  BY CapacityAssumption DEF Slots
<1>3. n \in Nat /\ n >= 1 /\ n < m_capacity /\ Between(Succ(h), t) = n - 1
  BY <1>1, <1>2 DEF Between
<1>4. c \in Seq(Items0) /\ Len(c) = n
  BY ContentIsSeq
<1>5. e \in Seq(Items0) /\ Len(e) = n - 1
  BY <1>1, <1>3, ContentIsSeq
<1>6. Pos(h, 1) = h
  BY <1>2, Ring
<1>7. c[1] = f[h]
  BY <1>3, <1>6 DEF ContentOf
<1>8. ASSUME NEW k \in 1 .. (n - 1)
      PROVE  e[k] = c[k + 1]
  <2>1. Pos(Succ(h), k) = Pos(h, k + 1)
    <3>1. k \in 1 .. m_capacity /\ k + 1 \in 1 .. m_capacity
      BY <1>2, <1>3
    <3>2. Pos(h, k + 1) = IF h + k < m_capacity THEN h + k ELSE h + k - m_capacity
      BY <3>1, <1>2, Ring
    <3>3. Pos(Succ(h), k) = IF Succ(h) + k - 1 < m_capacity THEN Succ(h) + k - 1
                            ELSE Succ(h) + k - 1 - m_capacity
      BY <3>1, <1>1, Ring
    <3>. QED  BY <3>1, <3>2, <3>3, <1>1, <1>2, <1>3
  <2>. QED  BY <2>1, <1>3 DEF ContentOf
<1>. HIDE DEF c, e, n
<1>9. c # << >>
  BY <1>3, <1>4
<1>10. Head(c) = f[h]
  BY <1>7, <1>9, <1>4, HeadTailProperties
<1>11. Tail(c) \in Seq(Items0) /\ Len(Tail(c)) = n - 1
       /\ \A k \in 1 .. (n - 1) : Tail(c)[k] = c[k + 1]
  BY <1>4, <1>9, HeadTailProperties
<1>12. e = Tail(c)
  BY <1>5, <1>8, <1>11, SeqEqual
<1>. QED  BY <1>9, <1>10, <1>12 DEF c, e

\* Filling the slot at the tail does not touch the items of the queue.
LEMMA FillKeeps ==
  ASSUME NEW f \in [Slots -> Items0], NEW h \in Slots, NEW t \in Slots, NEW i
  PROVE  ContentOf([f EXCEPT ![t] = i], h, t) = ContentOf(f, h, t)
<1>1. Between(h, t) \in Nat /\ Between(h, t) < m_capacity /\ m_capacity \in Nat
      /\ h \in Nat /\ t \in Nat /\ h < m_capacity /\ t < m_capacity
  <2>1. Between(h, t) \in 0 .. (m_capacity - 1)
    BY Ring
  <2>. QED  BY <2>1, CapacityAssumption DEF Slots
<1>2. ASSUME NEW k \in 1 .. Between(h, t)
      PROVE  Pos(h, k) \in Slots /\ Pos(h, k) # t
  <2>1. k \in 1 .. m_capacity
    BY <1>1
  <2>2. Pos(h, k) = IF h + k - 1 < m_capacity THEN h + k - 1 ELSE h + k - 1 - m_capacity
    BY <2>1, Ring
  <2>3. Pos(h, k) \in Slots
    BY <2>1, Ring
  <2>. QED  BY <2>1, <2>2, <2>3, <1>1 DEF Between
<1>. QED  BY <1>2 DEF ContentOf

\* The initial state is that of an empty queue.
LEMMA InitFifo == Init => FifoQueue!Init
<1>. SUFFICES ASSUME Init
              PROVE  Content = << >> /\ result = NoItem
  BY DEF FifoQueue!Init
<1>1. size = 0
  BY DEF Init, size
<1>. QED  BY <1>1 DEF Content, Init

\* Storing m_tail inserts, storing m_head removes, finding the queue empty
\* returns nothing, and every other step leaves the queue as it is.
LEMMA StepFifo ==
  ASSUME Inv, [Next]_vars
  PROVE  [FifoQueue!Next]_<<Content, result>>
<1>1. /\ m_items \in [Slots -> Items0] /\ m_head \in Slots /\ m_tail \in Slots
      /\ Content = ContentOf(m_items, m_head, m_tail)
  BY ContentIs DEF Inv, TypeOK, Items0
<1>2. Content' = ContentOf(m_items', m_head', m_tail')
  BY DEF Content, ContentOf, size, Between, Pos
<1>3. CASE StoreTail
  <2>1. m_head # Succ(m_tail) /\ m_items[m_tail] = item /\ item \in Items
    BY <1>3 DEF StoreTail, Inv, TypeOK
  <2>2. m_items' = m_items /\ m_head' = m_head /\ m_tail' = Succ(m_tail) /\ result' = result
    BY <1>3 DEF StoreTail
  <2>3. /\ Between(m_head, m_tail) < m_capacity - 1
        /\ ContentOf(m_items, m_head, Succ(m_tail))
             = Append(ContentOf(m_items, m_head, m_tail), m_items[m_tail])
    BY <1>1, <2>1, TailAppends
  <2>4. Content' = Append(Content, item)
    BY <1>1, <1>2, <2>1, <2>2, <2>3
  <2>5. Len(Content) < m_capacity - 1
    BY <1>1, <2>3, ContentIsSeq
  <2>6. FifoQueue!Enqueue
    BY <2>1, <2>2, <2>4, <2>5 DEF FifoQueue!Enqueue
  <2>. QED  BY <2>6 DEF FifoQueue!Next
<1>4. CASE StoreHead
  <2>1. m_head # m_tail /\ read = m_items[m_head]
    BY <1>4 DEF StoreHead, Inv
  <2>2. m_items' = m_items /\ m_head' = Succ(m_head) /\ m_tail' = m_tail /\ result' = read
    BY <1>4 DEF StoreHead
  <2>3. /\ Content # << >>
        /\ Head(Content) = m_items[m_head]
        /\ Content' = Tail(Content)
    BY <1>1, <1>2, <2>1, <2>2, HeadRemoves
  <2>4. FifoQueue!Dequeue
    BY <2>1, <2>2, <2>3 DEF FifoQueue!Dequeue
  <2>. QED  BY <2>4 DEF FifoQueue!Next
<1>5. CASE CopyIn
  <2>1. Content' = Content
    BY <1>1, <1>2, <1>5, FillKeeps DEF CopyIn
  <2>. QED  BY <1>5, <2>1 DEF CopyIn
<1>6. CASE CheckEmpty
  <2>1. Content' = Content
    BY <1>1, <1>2, <1>6 DEF CheckEmpty
  <2>2. FifoQueue!FindNothing \/ result' = result
    BY <1>6, <2>1 DEF CheckEmpty, FifoQueue!FindNothing
  <2>. QED  BY <2>1, <2>2 DEF FifoQueue!Next
<1>7. CASE (\E i \in Items : StartEnqueue(i)) \/ CheckFull \/ CopyOut \/ UNCHANGED vars
  <2>1. m_items' = m_items /\ m_head' = m_head /\ m_tail' = m_tail /\ result' = result
    BY <1>7 DEF StartEnqueue, CheckFull, CopyOut, vars
  <2>2. Content' = Content
    BY <1>1, <1>2, <2>1
  <2>. QED  BY <2>1, <2>2
<1>. QED  BY <1>3, <1>4, <1>5, <1>6, <1>7 DEF Next

\* The ring buffer implements the bounded queue.
THEOREM Refinement == Spec => ImplementsFifo
<1>1. Inv /\ [Next]_vars => [FifoQueue!Next]_<<Content, result>>
  BY StepFifo
<1>. QED  BY Invariance, InitFifo, <1>1, PTL DEF Spec, ImplementsFifo, FifoQueue!Spec
=============================================================================
