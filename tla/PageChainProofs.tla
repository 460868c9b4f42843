-------------------------- MODULE PageChainProofs --------------------------
(***************************************************************************)
(* Proofs of the properties of PageChain for any number of series, shards  *)
(* and pages.                                                              *)
(*                                                                         *)
(* The inductive invariant Inv says of the disks that every chain is       *)
(* exactly the list of the pages its series flushed (ChainOK), of the      *)
(* pages in memory that they know the end of their chain (PageOK), of the  *)
(* flags that they announce out-of-order pages (FlagsOK), and of the       *)
(* accepted points that each is on a page in memory or on a page the       *)
(* series owns (Stored).  Induction over a chain is done by looking at the *)
(* last page for which a claim fails: next fields only point forward.      *)
(***************************************************************************)
EXTENDS PageChain, TLAPS, SequenceTheorems, WellFoundedInduction

\* A timestamp clients send belongs to a shard (Tsdb::inst() creates it).
LEMMA TsdbOfTstamp ==
  ASSUME NEW t \in Tstamps
  PROVE  TsdbOf(t) \in Tsdbs
<1>1. PICK d \in Tsdbs : t \in (d * Span) .. (d * Span + Span - 1)
  BY DEF Tstamps
<1>2. d \in Nat /\ Span \in Nat /\ Span > 0
  BY TsdbAssumption, SpanAssumption
<1>3. t \div Span = d
  BY <1>1, <1>2
<1>. QED  BY <1>3 DEF TsdbOf

\* A non-empty set of positions has a last one.
LEMMA MaxExists ==
  ASSUME NEW n \in Nat, NEW P \in SUBSET (1 .. n), P # {}
  PROVE  \E p \in P : \A q \in P : q <= p
<1>. DEFINE T == {n - q : q \in P}
<1>1. T \in SUBSET Nat /\ T # {}
  <2>1. \A q \in P : q \in 1 .. n
    OBVIOUS
  <2>2. \A q \in P : n - q \in Nat
    BY <2>1
  <2>3. \A x \in T : x \in Nat
    BY <2>2
  <2>4. PICK q \in P : TRUE
    OBVIOUS
  <2>5. n - q \in T
    BY <2>4
  <2>. QED  BY <2>3, <2>5
<1>2. PICK x \in T : \A y \in T : ~(<<y, x>> \in OpToRel(<, Nat))
  BY <1>1, WFMin, NatLessThanWellFounded
<1>3. \A y \in T : ~(y < x)
  BY <1>1, <1>2 DEF OpToRel
<1>4. PICK p \in P : x = n - p
  OBVIOUS
<1>. QED  BY <1>3, <1>4

-----------------------------------------------------------------------------
(* Chains *)

\* The index entries and next fields of shard d describe the pages of each
\* series in the order they were flushed.
ChainOK(d, D) ==
  /\ \A s \in Series : IsFirst(Owned(D, s), D.index[s])
  /\ \A s \in Series :
       IsFirst({p \in Owned(D, s) : Crossed(d, D.pages[p].pts)}, D.index2[s])
  /\ \A p \in DOMAIN D.pages :
       IsFirst({q \in Owned(D, D.pages[p].owner) : p < q}, D.pages[p].next)

\* The pages of a shard are numbered from 1, and each has a header.
LEMMA DiskPages ==
  ASSUME NEW D \in Disk
  PROVE  /\ D.pages \in Seq(Header)
         /\ Len(D.pages) \in Nat
         /\ DOMAIN D.pages = 1 .. Len(D.pages)
         /\ \A p \in DOMAIN D.pages : D.pages[p] \in Header
         /\ \A s : Owned(D, s) \in SUBSET (1 .. Len(D.pages))
<1>1. D.pages \in Seq(Header)
  BY DEF Disk
<1>2. DOMAIN D.pages = 1 .. Len(D.pages) /\ Len(D.pages) \in Nat
  BY <1>1, LenProperties
<1>. QED  BY <1>1, <1>2, ElementOfSeq DEF Owned

\* What the next field of a page says in a chain.
LEMMA NextInChain ==
  ASSUME NEW d, NEW D \in Disk, ChainOK(d, D), NEW p \in DOMAIN D.pages
  PROVE  /\ D.pages[p].owner \in Series
         /\ p \in Owned(D, D.pages[p].owner)
         /\ D.pages[p].next = NoPage => IsLast(Owned(D, D.pages[p].owner), p)
         /\ D.pages[p].next # NoPage =>
              /\ D.pages[p].next \in DOMAIN D.pages
              /\ p < D.pages[p].next
              /\ D.pages[D.pages[p].next].owner = D.pages[p].owner
<1>1. D.pages[p] \in Header /\ DOMAIN D.pages = 1 .. Len(D.pages)
  BY DiskPages
<1>2. D.pages[p].owner \in Series /\ p \in Owned(D, D.pages[p].owner)
  BY <1>1 DEF Header, Owned
<1>. DEFINE O == Owned(D, D.pages[p].owner)
            L == {q \in O : p < q}
            x == D.pages[p].next
<1>3. IsFirst(L, x)
  BY DEF ChainOK
<1>4. O \subseteq 1 .. Len(D.pages) /\ Len(D.pages) \in Nat
  BY DiskPages
<1>5. ASSUME x = NoPage
      PROVE  IsLast(O, p)
  <2>1. L = {}
    BY <1>3, <1>4, <1>5, <1>1 DEF IsFirst, NoPage
  <2>2. \A q \in O : q <= p
    BY <2>1, <1>4, <1>1
  <2>. QED  BY <2>2, <1>2 DEF IsLast
<1>6. ASSUME x # NoPage
      PROVE  x \in O /\ p < x
  BY <1>3, <1>6 DEF IsFirst
<1>. QED  BY <1>2, <1>5, <1>6 DEF Owned

\* A set of positions has at most one last element.
LEMMA LastUnique ==
  ASSUME NEW n \in Nat, NEW P \in SUBSET (1 .. n), NEW p, NEW q,
         IsLast(P, p), IsLast(P, q)
  PROVE  p = q
<1>1. CASE P = {}
  BY <1>1 DEF IsLast
<1>2. CASE P # {}
  <2>1. p \in P /\ q \in P /\ p <= q /\ q <= p
    BY <1>2 DEF IsLast
  <2>2. p \in 1 .. n /\ q \in 1 .. n
    BY <2>1
  <2>. QED  BY <2>1, <2>2
<1>. QED  BY <1>1, <1>2

\* The walk of get_last_header_indices() ends at the last page of the series.
LEMMA WalkEndIsLast ==
  ASSUME NEW d, NEW D \in Disk, ChainOK(d, D), NEW p \in DOMAIN D.pages
  PROVE  IsLast(Owned(D, D.pages[p].owner), WalkEnd(D.pages)[p])
<1>. DEFINE pages == D.pages
            n == Len(pages)
            Of(q) == Owned(D, pages[q].owner)
            Step(f) == [q \in DOMAIN pages |->
                          IF pages[q].next = NoPage THEN q ELSE f[pages[q].next]]
            LastOf(P) == CHOOSE r : IsLast(P, r)
            g == [q \in DOMAIN pages |-> LastOf(Of(q))]
            w == WalkEnd(pages)
<1>1. /\ n \in Nat /\ DOMAIN pages = 1 .. n
      /\ \A q \in DOMAIN pages : Of(q) \in SUBSET (1 .. n)
  BY DiskPages
<1>2. \A q \in DOMAIN pages :
        /\ pages[q].next = NoPage => IsLast(Of(q), q)
        /\ pages[q].next # NoPage =>
             /\ pages[q].next \in DOMAIN pages
             /\ q < pages[q].next
             /\ Of(pages[q].next) = Of(q)
  BY NextInChain
<1>3. g = Step(g)
  <2>1. ASSUME NEW q \in DOMAIN pages
        PROVE  g[q] = IF pages[q].next = NoPage THEN q ELSE g[pages[q].next]
    <3>1. CASE pages[q].next = NoPage
      <4>1. IsLast(Of(q), q)
        BY <1>2, <3>1
      <4>2. IsLast(Of(q), g[q])
        BY <4>1
      <4>. QED  BY <4>1, <4>2, <1>1, <3>1, LastUnique
    <3>2. CASE pages[q].next # NoPage
      <4>. HIDE DEF LastOf, Of
      <4>1. pages[q].next \in DOMAIN pages /\ Of(pages[q].next) = Of(q)
        BY <1>2, <3>2
      <4>2. g[pages[q].next] = LastOf(Of(pages[q].next)) /\ g[q] = LastOf(Of(q))
        BY <4>1
      <4>3. g[q] = g[pages[q].next]
        BY <4>1, <4>2, Zenon
      <4>. HIDE DEF g, pages
      <4>. QED  BY <4>3, <3>2
    <3>. QED  BY <3>1, <3>2
  <2>. HIDE DEF LastOf, Of, pages
  <2>. QED  BY <2>1
<1>4. w = CHOOSE f : f = Step(f)
  BY DEF WalkEnd
<1>5. w = Step(w)
  <2>. HIDE DEF Step, g
  <2>. QED  BY <1>3, <1>4
<1>. DEFINE Bad == {q \in DOMAIN pages : ~IsLast(Of(q), w[q])}
<1>6. Bad = {}
  <2>. SUFFICES ASSUME Bad # {}
                PROVE  FALSE
    OBVIOUS
  <2>1. PICK q \in Bad : \A r \in Bad : r <= q
    <3>. HIDE DEF n, Bad
    <3>1. Bad \in SUBSET (1 .. n)
      BY <1>1 DEF Bad
    <3>. QED  BY <3>1, <1>1, MaxExists
  <2>2. w[q] = IF pages[q].next = NoPage THEN q ELSE w[pages[q].next]
    BY <1>5
  <2>3. CASE pages[q].next = NoPage
    BY <2>2, <2>3, <1>2
  <2>4. CASE pages[q].next # NoPage
    <3>1. pages[q].next \in DOMAIN pages /\ q < pages[q].next
      BY <2>4, <1>2
    <3>2. pages[q].next \notin Bad
      BY <3>1, <2>1, <1>1
    <3>3. IsLast(Of(pages[q].next), w[pages[q].next])
      BY <3>1, <3>2
    <3>. QED  BY <3>3, <2>2, <2>4, <1>2
  <2>. QED  BY <2>3, <2>4
<1>. QED  BY <1>6

\* get_last_header_indices() returns the last page of the series.
LEMMA LastHeaderIsLast ==
  ASSUME NEW d, NEW D \in Disk, ChainOK(d, D), NEW s \in Series
  PROVE  /\ IsLast(Owned(D, s), get_last_header_indices(D, s))
         /\ get_last_header_indices(D, s) \in Nat
<1>. DEFINE p == ChainStart(D, s)
<1>1. IsFirst(Owned(D, s), D.index[s])
  BY DEF ChainOK
<1>2. IsFirst({q \in Owned(D, s) : Crossed(d, D.pages[q].pts)}, D.index2[s])
  BY DEF ChainOK
<1>3. 0 \notin Owned(D, s) /\ Owned(D, s) \in SUBSET Nat
  BY DiskPages
<1>4. IF p = NoPage THEN Owned(D, s) = {} ELSE p \in Owned(D, s)
  BY <1>1, <1>2, <1>3 DEF IsFirst, ChainStart, NoPage
<1>5. CASE p = NoPage
  BY <1>4, <1>5 DEF get_last_header_indices, IsLast, NoPage
<1>6. CASE p # NoPage
  <2>1. p \in DOMAIN D.pages /\ D.pages[p].owner = s
    BY <1>4, <1>6 DEF Owned
  <2>2. IsLast(Owned(D, s), WalkEnd(D.pages)[p])
    BY <2>1, WalkEndIsLast
  <2>3. get_last_header_indices(D, s) = WalkEnd(D.pages)[p]
    BY <1>6 DEF get_last_header_indices
  <2>. QED  BY <2>2, <2>3, <1>3, <1>4, <1>6 DEF IsLast, NoPage
<1>. QED  BY <1>5, <1>6

\* E is D with page b of series s appended.
Appended(D, E, s, b, ooo) ==
  LET n == Len(D.pages) + 1
  IN  /\ E \in Disk
      /\ Len(E.pages) = n
      /\ \A q \in 1 .. (n - 1) :
           /\ E.pages[q].owner = D.pages[q].owner
           /\ E.pages[q].ooo = D.pages[q].ooo
           /\ E.pages[q].pts = D.pages[q].pts
           /\ E.pages[q].next = IF q = b.prev THEN n ELSE D.pages[q].next
      /\ E.pages[n] = [owner |-> s, ooo |-> ooo, pts |-> b.pts, next |-> NoPage]
      /\ \A u \in Series :
           /\ E.index[u] = IF u = s /\ b.prev = NoPage THEN n ELSE D.index[u]
           /\ E.index2[u] = IF /\ u = s
                               /\ D.index2[s] = NoPage
                               /\ Crossed(b.tsdb, b.pts)
                            THEN n ELSE D.index2[u]

\* What append_page() does to the pages and to the index entries.
LEMMA AppendPage ==
  ASSUME NEW D \in Disk, NEW s \in Series, NEW b \in Page, NEW ooo \in BOOLEAN,
         b.prev \in 0 .. Len(D.pages)
  PROVE  Appended(D, append_page(D, s, b, ooo), s, b, ooo)
<1>. DEFINE n == Len(D.pages) + 1
            h == [owner |-> s, ooo |-> ooo, pts |-> b.pts, next |-> NoPage]
            crossed == Crossed(b.tsdb, b.pts)
            F == set_indices(D, s, b.prev, n, crossed)
            E == append_page(D, s, b, ooo)
<1>1. /\ D.pages \in Seq(Header) /\ Len(D.pages) \in Nat
      /\ DOMAIN D.pages = 1 .. Len(D.pages)
      /\ \A q \in DOMAIN D.pages : D.pages[q] \in Header
  BY DiskPages
<1>2. D.index \in [Series -> Nat] /\ D.index2 \in [Series -> Nat] /\ n \in Nat
  BY <1>1 DEF Disk
<1>3. /\ F.pages \in Seq(Header)
      /\ Len(F.pages) = Len(D.pages)
      /\ \A q \in 1 .. Len(D.pages) :
           F.pages[q] = IF q = b.prev THEN [D.pages[q] EXCEPT !.next = n] ELSE D.pages[q]
  <2>1. CASE b.prev = NoPage
    BY <2>1, <1>1 DEF set_indices, NoPage
  <2>2. CASE b.prev # NoPage
    <3>1. b.prev \in 1 .. Len(D.pages)
      BY <2>2, <1>1 DEF NoPage
    <3>2. [D.pages[b.prev] EXCEPT !.next = n] \in Header
      BY <3>1, <1>1, <1>2 DEF Header
    <3>3. F.pages = [D.pages EXCEPT ![b.prev] = [D.pages[b.prev] EXCEPT !.next = n]]
      BY <2>2 DEF set_indices
    <3>4. F.pages \in Seq(Header) /\ Len(F.pages) = Len(D.pages)
      BY <3>1, <3>2, <3>3, <1>1, ExceptSeq
    <3>. QED  BY <3>1, <3>3, <3>4, <1>1
  <2>. QED  BY <2>1, <2>2
<1>4. /\ F.index = IF b.prev = NoPage THEN [D.index EXCEPT ![s] = n] ELSE D.index
      /\ F.index2 = IF crossed /\ D.index2[s] = NoPage
                    THEN [D.index2 EXCEPT ![s] = n] ELSE D.index2
      /\ F = [pages |-> F.pages, index |-> F.index, index2 |-> F.index2]
  BY DEF set_indices
<1>5. E = [pages |-> Append(F.pages, h), index |-> F.index, index2 |-> F.index2]
  <2>1. E = [F EXCEPT !.pages = Append(F.pages, h)]
    BY DEF append_page
  <2>. HIDE DEF F, E
  <2>. QED  BY <2>1, <1>4
<1>. HIDE DEF F, E, crossed
<1>6. h \in Header
  BY DEF Header, Page, NoPage
<1>7. /\ E.pages \in Seq(Header)
      /\ Len(E.pages) = n
      /\ \A q \in 1 .. Len(D.pages) : E.pages[q] = F.pages[q]
      /\ E.pages[n] = h
  <2>. HIDE DEF h
  <2>. QED  BY <1>3, <1>5, <1>6, <1>1, AppendProperties
<1>8. E.index \in [Series -> Nat] /\ E.index2 \in [Series -> Nat]
  BY <1>2, <1>4, <1>5
<1>9. E \in Disk
  BY <1>5, <1>7, <1>8 DEF Disk
<1>10. \A q \in 1 .. Len(D.pages) :
         /\ E.pages[q].owner = D.pages[q].owner
         /\ E.pages[q].ooo = D.pages[q].ooo
         /\ E.pages[q].pts = D.pages[q].pts
         /\ E.pages[q].next = IF q = b.prev THEN n ELSE D.pages[q].next
  <2>. SUFFICES ASSUME NEW q \in 1 .. Len(D.pages)
                PROVE  /\ E.pages[q].owner = D.pages[q].owner
                       /\ E.pages[q].ooo = D.pages[q].ooo
                       /\ E.pages[q].pts = D.pages[q].pts
                       /\ E.pages[q].next = IF q = b.prev THEN n ELSE D.pages[q].next
    OBVIOUS
  <2>. DEFINE a == D.pages[q]
              c == E.pages[q]
  <2>1. a \in Header
    BY <1>1
  <2>2. c = IF q = b.prev THEN [a EXCEPT !.next = n] ELSE a
    BY <1>3, <1>7
  <2>. HIDE DEF a, c, n
  <2>3. c.owner = a.owner /\ c.ooo = a.ooo /\ c.pts = a.pts
        /\ c.next = IF q = b.prev THEN n ELSE a.next
    BY <2>1, <2>2 DEF Header
  <2>. QED  BY <2>3 DEF a, c
<1>11. \A u \in Series :
         /\ E.index[u] = IF u = s /\ b.prev = NoPage THEN n ELSE D.index[u]
         /\ E.index2[u] = IF u = s /\ D.index2[s] = NoPage /\ crossed
                          THEN n ELSE D.index2[u]
  BY <1>2, <1>4, <1>5
<1>12. n - 1 = Len(D.pages)
  BY <1>1
<1>13. Appended(D, E, s, b, ooo)
  BY <1>7, <1>9, <1>10, <1>11, <1>12 DEF Appended, crossed
<1>. QED  BY <1>13 DEF E

\* A page in memory that knows the end of its chain may be appended.
LEMMA PrevInRange ==
  ASSUME NEW D \in Disk, NEW s, NEW p, IsLast(Owned(D, s), p)
  PROVE  p \in 0 .. Len(D.pages)
BY DiskPages DEF IsLast, NoPage

\* E is D with a page n behind the chain of series s.
ChainExtended(d, D, E, s, n) ==
  /\ ChainOK(d, E)
  /\ IsLast(Owned(E, s), n)
  /\ \A u \in Series : Owned(E, u) = IF u = s THEN Owned(D, s) \cup {n} ELSE Owned(D, u)

\* append_page() extends the chain of its series and leaves the others alone.
LEMMA AppendKeepsChain ==
  ASSUME NEW D \in Disk, NEW s \in Series, NEW b \in Page, NEW ooo \in BOOLEAN,
         ChainOK(b.tsdb, D), IsLast(Owned(D, s), b.prev)
  PROVE  ChainExtended(b.tsdb, D, append_page(D, s, b, ooo), s, Len(D.pages) + 1)
<1>. DEFINE n == Len(D.pages) + 1
            E == append_page(D, s, b, ooo)
            d == b.tsdb
            C(G, u) == {q \in Owned(G, u) : Crossed(d, G.pages[q].pts)}
            L(G, p) == {q \in Owned(G, G.pages[p].owner) : p < q}
<1>1. b.prev \in 0 .. Len(D.pages)
  BY PrevInRange
<1>2. /\ E \in Disk
      /\ Len(E.pages) = n
      /\ \A q \in 1 .. (n - 1) :
           /\ E.pages[q].owner = D.pages[q].owner
           /\ E.pages[q].pts = D.pages[q].pts
           /\ E.pages[q].next = IF q = b.prev THEN n ELSE D.pages[q].next
      /\ E.pages[n].owner = s /\ E.pages[n].pts = b.pts /\ E.pages[n].next = NoPage
      /\ \A u \in Series :
           /\ E.index[u] = IF u = s /\ b.prev = NoPage THEN n ELSE D.index[u]
           /\ E.index2[u] = IF u = s /\ D.index2[s] = NoPage /\ Crossed(d, b.pts)
                            THEN n ELSE D.index2[u]
  <2>1. Appended(D, E, s, b, ooo)
    BY <1>1, AppendPage
  <2>. HIDE DEF E
  <2>. QED  BY <2>1 DEF Appended
<1>. HIDE DEF E
<1>3. /\ Len(D.pages) \in Nat /\ n \in Nat /\ n - 1 = Len(D.pages)
      /\ DOMAIN D.pages = 1 .. (n - 1) /\ DOMAIN E.pages = 1 .. n
      /\ \A u : Owned(D, u) \in SUBSET (1 .. (n - 1))
  BY <1>2, DiskPages
<1>4. \A u \in Series : Owned(E, u) = IF u = s THEN Owned(D, s) \cup {n} ELSE Owned(D, u)
  BY <1>2, <1>3 DEF Owned
<1>5. IsLast(Owned(E, s), n)
  BY <1>3, <1>4 DEF IsLast
<1>6. ASSUME NEW u \in Series
      PROVE  IsFirst(Owned(E, u), E.index[u])
  <2>1. IsFirst(Owned(D, u), D.index[u])
    BY DEF ChainOK
  <2>2. CASE u # s
    BY <2>1, <2>2, <1>2, <1>4
  <2>3. CASE u = s /\ b.prev = NoPage
    <3>1. Owned(D, s) = {}
      BY <2>3, <1>3 DEF IsLast, NoPage
    <3>. QED  BY <3>1, <2>3, <1>2, <1>3, <1>4 DEF IsFirst
  <2>4. CASE u = s /\ b.prev # NoPage
    <3>1. Owned(D, s) # {}
      BY <2>4 DEF IsLast
    <3>2. D.index[s] \in Owned(D, s) /\ \A q \in Owned(D, s) : D.index[s] <= q
      BY <3>1, <2>1, <2>4 DEF IsFirst
    <3>3. D.index[s] <= n
      BY <3>2, <1>3
    <3>. QED  BY <3>2, <3>3, <2>4, <1>2, <1>4 DEF IsFirst
  <2>. QED  BY <2>2, <2>3, <2>4
<1>7. ASSUME NEW u \in Series
      PROVE  IsFirst(C(E, u), E.index2[u])
  <2>1. IsFirst(C(D, u), D.index2[u])
    BY DEF ChainOK
  <2>2. C(E, u) = IF u = s /\ Crossed(d, b.pts) THEN C(D, u) \cup {n} ELSE C(D, u)
    BY <1>2, <1>3, <1>4
  <2>3. C(D, u) \in SUBSET (1 .. (n - 1))
    BY <1>3
  <2>. HIDE DEF C
  <2>4. CASE ~(u = s /\ Crossed(d, b.pts))
    BY <2>1, <2>2, <2>4, <1>2
  <2>5. CASE u = s /\ Crossed(d, b.pts) /\ D.index2[s] = NoPage
    <3>1. C(D, u) = {}
      BY <2>5, <2>1, <2>3, <1>3 DEF IsFirst, NoPage
    <3>2. C(E, u) = {n}
      BY <3>1, <2>2, <2>5
    <3>3. E.index2[u] = n
      BY <2>5, <1>2
    <3>. QED  BY <3>2, <3>3, <1>3 DEF IsFirst
  <2>6. CASE u = s /\ Crossed(d, b.pts) /\ D.index2[s] # NoPage
    <3>1. C(D, u) # {}
      BY <2>6, <2>1 DEF IsFirst
    <3>2. D.index2[u] \in C(D, u) /\ \A q \in C(D, u) : D.index2[u] <= q
      BY <3>1, <2>1 DEF IsFirst
    <3>3. D.index2[u] <= n
      BY <3>2, <2>3, <1>3
    <3>. QED  BY <3>2, <3>3, <2>2, <2>6, <1>2 DEF IsFirst
  <2>. QED  BY <2>4, <2>5, <2>6
<1>8. ASSUME NEW p \in DOMAIN E.pages
      PROVE  IsFirst(L(E, p), E.pages[p].next)
  <2>1. CASE p = n
    <3>1. L(E, p) = {}
      BY <2>1, <1>2, <1>3, <1>4
    <3>. QED  BY <3>1, <2>1, <1>2 DEF IsFirst
  <2>2. CASE p # n
    <3>1. p \in DOMAIN D.pages /\ D.pages[p].owner \in Series /\ p \in 1 .. (n - 1)
      BY <2>2, <1>3, NextInChain
    <3>2. /\ IsFirst(L(D, p), D.pages[p].next)
          /\ E.pages[p].owner = D.pages[p].owner
          /\ E.pages[p].next = IF p = b.prev THEN n ELSE D.pages[p].next
      BY <3>1, <1>2 DEF ChainOK
    <3>3. CASE D.pages[p].owner # s
      <4>1. L(E, p) = L(D, p)
        BY <3>1, <3>2, <3>3, <1>4
      <4>2. p # b.prev
        BY <3>1, <3>3, <1>3 DEF IsLast, Owned, NoPage
      <4>. QED  BY <4>1, <4>2, <3>2
    <3>4. CASE D.pages[p].owner = s
      <4>1. p \in Owned(D, s)
        BY <3>1, <3>4 DEF Owned
      <4>2. b.prev \in Owned(D, s) /\ \A q \in Owned(D, s) : q <= b.prev
        BY <4>1 DEF IsLast
      <4>3. L(E, p) = L(D, p) \cup {n}
        BY <3>1, <3>2, <3>4, <1>4, <1>3
      <4>4. L(D, p) \in SUBSET (1 .. (n - 1))
        BY <1>3
      <4>5. CASE p = b.prev
        <5>1. L(D, p) = {}
          BY <4>2, <4>5, <3>4, <1>3
        <5>. QED  BY <5>1, <4>3, <4>5, <3>2, <1>3 DEF IsFirst
      <4>6. CASE p # b.prev
        <5>1. b.prev \in L(D, p)
          BY <4>1, <4>2, <4>6, <3>4, <1>3
        <5>. HIDE DEF L
        <5>2. D.pages[p].next \in L(D, p) /\ \A q \in L(D, p) : D.pages[p].next <= q
          BY <5>1, <3>2 DEF IsFirst
        <5>3. D.pages[p].next <= n
          BY <5>2, <4>4, <1>3
        <5>. QED  BY <5>2, <5>3, <4>3, <4>6, <3>2 DEF IsFirst
      <4>. QED  BY <4>5, <4>6
    <3>. QED  BY <3>3, <3>4
  <2>. QED  BY <2>1, <2>2
<1>9. ChainOK(d, E)
  BY <1>6, <1>7, <1>8 DEF ChainOK
<1>. QED  BY <1>4, <1>5, <1>9 DEF E, ChainExtended

-----------------------------------------------------------------------------
(* Flushing a page.  These predicates take the disks as a parameter: close *)
(* flushes twice in one step, so there is a store between two states.      *)

\* The disks of all shards.
StoreOK(dk) ==
  /\ dk \in [Tsdbs -> Disk]
  /\ \A d \in Tsdbs :
       /\ ChainOK(d, dk[d])
       /\ \A p \in DOMAIN dk[d].pages : \A t \in dk[d].pages[p].pts : TsdbOf(t) = d

\* Page b of series s in memory, over the disks dk.
PageOK(dk, s, b) ==
  /\ b \in Page
  /\ b.tsdb = 0 => b = NoBuff
  /\ b # NoBuff => IsLast(Owned(dk[b.tsdb], s), b.prev)
  /\ \A t \in b.pts : TsdbOf(t) = b.tsdb

\* Out-of-order pages on disk are announced by the flags fl.
FlagsOK(dk, fl) ==
  \A d \in Tsdbs : \A p \in DOMAIN dk[d].pages :
    dk[d].pages[p].ooo => fl[d][dk[d].pages[p].owner]

\* The points on the pages a series has flushed.
Stored(dk, s) ==
  UNION {UNION {dk[d].pages[p].pts : p \in Owned(dk[d], s)} : d \in Tsdbs}

\* ek only adds to dk: OnlyAppends for two disks.
Grows(dk, ek) ==
  \A d \in Tsdbs :
    /\ DOMAIN dk[d].pages \subseteq DOMAIN ek[d].pages
    /\ \A p \in DOMAIN dk[d].pages :
         /\ ek[d].pages[p].pts = dk[d].pages[p].pts
         /\ ek[d].pages[p].next # dk[d].pages[p].next => dk[d].pages[p].next = NoPage
    /\ \A s \in Series :
         /\ ek[d].index[s] # dk[d].index[s] => dk[d].index[s] = NoPage
         /\ ek[d].index2[s] # dk[d].index2[s] => dk[d].index2[s] = NoPage

\* ek and fb are dk and page b of series s after b was flushed.
Flushed(dk, ek, s, b, fb, ooo) ==
  /\ StoreOK(ek)
  /\ PageOK(ek, s, fb)
  /\ fb.tsdb = b.tsdb /\ fb.pts = b.pts
  /\ \A u \in Series \ {s} : Stored(ek, u) = Stored(dk, u)
  /\ Stored(ek, s) = Stored(dk, s) \cup b.pts
  /\ \A u \in Series \ {s} : \A c : PageOK(dk, u, c) => PageOK(ek, u, c)
  /\ \A c : PageOK(dk, s, c) =>
       /\ PageOK(ek, s, update_indices(c, fb))
       /\ update_indices(c, fb).tsdb = c.tsdb
       /\ update_indices(c, fb).pts = c.pts
  /\ \A fl : FlagsOK(dk, fl) /\ (ooo /\ b # NoBuff => fl[b.tsdb][s]) => FlagsOK(ek, fl)
  /\ \A d \in Tsdbs \ {b.tsdb} : ek[d] = dk[d]
  /\ Grows(dk, ek)

\* update_indices() changes nothing but the position of the previous page.
LEMMA UpdateIndices ==
  ASSUME NEW c \in Page, NEW i \in Page
  PROVE  /\ update_indices(c, i) \in Page
         /\ update_indices(c, i).tsdb = c.tsdb
         /\ update_indices(c, i).pts = c.pts
         /\ update_indices(c, i).prev = IF c.tsdb = i.tsdb THEN i.prev ELSE c.prev
BY DEF update_indices, Page

\* A page that is told about a flushed page of its own chain.
LEMMA UpdateOK ==
  ASSUME NEW ek, NEW s, NEW c, NEW i, PageOK(ek, s, i),
         c \in Page, c.tsdb = 0 => c = NoBuff, \A t \in c.pts : TsdbOf(t) = c.tsdb,
         c.tsdb # i.tsdb => PageOK(ek, s, c)
  PROVE  /\ PageOK(ek, s, update_indices(c, i))
         /\ update_indices(c, i).tsdb = c.tsdb
         /\ update_indices(c, i).pts = c.pts
<1>. DEFINE v == update_indices(c, i)
<1>1. i \in Page
  BY DEF PageOK
<1>2. /\ v \in Page /\ v.tsdb = c.tsdb /\ v.pts = c.pts
      /\ v.prev = IF c.tsdb = i.tsdb THEN i.prev ELSE c.prev
  BY <1>1, UpdateIndices
<1>3. CASE c.tsdb # i.tsdb
  <2>1. v = c
    BY <1>3 DEF update_indices
  <2>. QED  BY <2>1, <1>3
<1>4. CASE c.tsdb = i.tsdb /\ c.tsdb = 0
  <2>1. c = NoBuff /\ i = NoBuff
    BY <1>4 DEF PageOK
  <2>2. v = NoBuff
    BY <2>1 DEF update_indices, NoBuff
  <2>. QED  BY <2>1, <2>2
<1>5. CASE c.tsdb = i.tsdb /\ c.tsdb # 0
  <2>1. i # NoBuff
    BY <1>5 DEF NoBuff
  <2>2. IsLast(Owned(ek[i.tsdb], s), i.prev)
    BY <2>1 DEF PageOK
  <2>. HIDE DEF v
  <2>3. PageOK(ek, s, v)
    BY <2>2, <1>2, <1>5 DEF PageOK
  <2>. QED  BY <2>3, <1>2 DEF v
<1>. QED  BY <1>3, <1>4, <1>5

\* A step that does not touch the disks only adds to them.
LEMMA GrowsReflexive ==
  ASSUME NEW dk
  PROVE  Grows(dk, dk)
BY DEF Grows

\* PageInMemory::flush() appends the page, and nothing else changes.
LEMMA FlushOK ==
  ASSUME NEW dk, NEW s \in Series, NEW b, NEW ooo \in BOOLEAN,
         StoreOK(dk), PageOK(dk, s, b)
  PROVE  Flushed(dk, flush(dk, s, b, ooo), s, b, flushed(dk, b), ooo)
<1>. DEFINE ek == flush(dk, s, b, ooo)
            fb == flushed(dk, b)
<1>1. CASE b.pts = {}
  <2>1. ek = dk /\ fb = b
    BY <1>1 DEF flush, flushed
  <2>2. \A c : PageOK(dk, s, c) => /\ PageOK(dk, s, update_indices(c, b))
                                  /\ update_indices(c, b).tsdb = c.tsdb
                                  /\ update_indices(c, b).pts = c.pts
    <3>. SUFFICES ASSUME NEW c, PageOK(dk, s, c)
                  PROVE  /\ PageOK(dk, s, update_indices(c, b))
                         /\ update_indices(c, b).tsdb = c.tsdb
                         /\ update_indices(c, b).pts = c.pts
      OBVIOUS
    <3>1. c \in Page /\ (c.tsdb = 0 => c = NoBuff) /\ \A t \in c.pts : TsdbOf(t) = c.tsdb
      BY DEF PageOK
    <3>. QED  BY <3>1, UpdateOK
  <2>. HIDE DEF ek, fb
  <2>3. Flushed(dk, ek, s, b, fb, ooo)
    BY <2>1, <2>2, <1>1, GrowsReflexive DEF Flushed
  <2>. QED  BY <2>3 DEF ek, fb
<1>2. CASE b.pts # {}
  <2>. DEFINE d == b.tsdb
              D == dk[d]
              n == Len(D.pages) + 1
              E == append_page(D, s, b, ooo)
  <2>1. b # NoBuff /\ b \in Page /\ d \in Tsdbs /\ IsLast(Owned(D, s), b.prev)
        /\ \A t \in b.pts : TsdbOf(t) = d
    BY <1>2 DEF PageOK, NoBuff, Page
  <2>2. D \in Disk /\ ChainOK(d, D) /\ dk \in [Tsdbs -> Disk]
    BY <2>1 DEF StoreOK
  <2>3. ek = [dk EXCEPT ![d] = E] /\ fb = [b EXCEPT !.prev = n]
    BY <1>2 DEF flush, flushed
  <2>4. b.prev \in 0 .. Len(D.pages)
    BY <2>1, <2>2, PrevInRange
  <2>5. Appended(D, E, s, b, ooo)
    BY <2>1, <2>2, <2>4, AppendPage
  <2>6. /\ ChainOK(d, E)
        /\ IsLast(Owned(E, s), n)
        /\ \A u \in Series :
             Owned(E, u) = IF u = s THEN Owned(D, s) \cup {n} ELSE Owned(D, u)
    <3>1. ChainExtended(d, D, E, s, n)
      BY <2>1, <2>2, AppendKeepsChain
    <3>. HIDE DEF E, n
    <3>. QED  BY <3>1 DEF ChainExtended
  <2>7. /\ Len(D.pages) \in Nat /\ n \in Nat /\ n - 1 = Len(D.pages)
        /\ DOMAIN D.pages = 1 .. (n - 1)
        /\ \A u : Owned(D, u) \in SUBSET (1 .. (n - 1))
    BY <2>2, DiskPages
  <2>. HIDE DEF E, ek, fb, n
  <2>8. E \in Disk /\ DOMAIN E.pages = 1 .. n
    BY <2>5, <2>7, DiskPages DEF Appended, n
  <2>9. /\ ek \in [Tsdbs -> Disk] /\ ek[d] = E
        /\ \A e \in Tsdbs \ {d} : ek[e] = dk[e]
    BY <2>1, <2>2, <2>3, <2>8
  <2>10. /\ \A q \in 1 .. (n - 1) :
             /\ E.pages[q].owner = D.pages[q].owner
             /\ E.pages[q].ooo = D.pages[q].ooo
             /\ E.pages[q].pts = D.pages[q].pts
             /\ E.pages[q].next = IF q = b.prev THEN n ELSE D.pages[q].next
         /\ E.pages[n].owner = s /\ E.pages[n].ooo = ooo /\ E.pages[n].pts = b.pts
         /\ \A u \in Series :
             /\ E.index[u] = IF u = s /\ b.prev = NoPage THEN n ELSE D.index[u]
             /\ E.index2[u] # D.index2[u] => D.index2[u] = NoPage
    <3>1. \A q \in 1 .. (n - 1) :
            /\ E.pages[q].owner = D.pages[q].owner
            /\ E.pages[q].ooo = D.pages[q].ooo
            /\ E.pages[q].pts = D.pages[q].pts
            /\ E.pages[q].next = IF q = b.prev THEN n ELSE D.pages[q].next
      BY <2>5, Zenon DEF Appended, n
    <3>2. E.pages[n] = [owner |-> s, ooo |-> ooo, pts |-> b.pts, next |-> NoPage]
      BY <2>5, Zenon DEF Appended, n
    <3>3. \A u \in Series :
            /\ E.index[u] = IF u = s /\ b.prev = NoPage THEN n ELSE D.index[u]
            /\ E.index2[u] = IF /\ u = s
                                /\ D.index2[s] = NoPage
                                /\ Crossed(d, b.pts)
                             THEN n ELSE D.index2[u]
      BY <2>5, Zenon DEF Appended, n
    <3>4. E.pages[n].owner = s /\ E.pages[n].ooo = ooo /\ E.pages[n].pts = b.pts
      BY <3>2
    <3>. HIDE DEF D, d
    <3>5. \A u \in Series :
            /\ E.index[u] = IF u = s /\ b.prev = NoPage THEN n ELSE D.index[u]
            /\ E.index2[u] # D.index2[u] => D.index2[u] = NoPage
      BY <3>3
    <3>. QED  BY <3>1, <3>4, <3>5, Zenon
  <2>11. StoreOK(ek)
    <3>1. \A p \in DOMAIN E.pages : \A t \in E.pages[p].pts : TsdbOf(t) = d
      <4>1. \A p \in DOMAIN D.pages : \A t \in D.pages[p].pts : TsdbOf(t) = d
        BY <2>1 DEF StoreOK
      <4>. SUFFICES ASSUME NEW p \in DOMAIN E.pages
                    PROVE  \A t \in E.pages[p].pts : TsdbOf(t) = d
        OBVIOUS
      <4>2. p = n \/ p \in 1 .. (n - 1)
        BY <2>7, <2>8
      <4>3. CASE p = n
        <5>1. E.pages[p].pts = b.pts
          BY <4>3, <2>10
        <5>. QED  BY <5>1, <2>1
      <4>4. CASE p \in 1 .. (n - 1)
        <5>1. E.pages[p].pts = D.pages[p].pts /\ p \in DOMAIN D.pages
          BY <4>4, <2>7, <2>10
        <5>. HIDE DEF D, d
        <5>. QED  BY <5>1, <4>1
      <4>. QED  BY <4>2, <4>3, <4>4
    <3>. QED  BY <3>1, <2>6, <2>9 DEF StoreOK
  <2>12. fb \in Page /\ fb.tsdb = d /\ fb.prev = n /\ fb.pts = b.pts /\ fb # NoBuff
    BY <2>1, <2>3, <2>7, <1>2 DEF Page, NoBuff
  <2>13. PageOK(ek, s, fb)
    <3>1. d # 0
      BY <2>1, TsdbAssumption
    <3>. QED  BY <3>1, <2>1, <2>6, <2>9, <2>12 DEF PageOK
  <2>14. \A u \in Series \ {s} : \A e \in Tsdbs : Owned(ek[e], u) = Owned(dk[e], u)
    BY <2>6, <2>9, <2>1
  <2>15. ASSUME NEW u \in Series \ {s}, NEW c, PageOK(dk, u, c)
         PROVE  PageOK(ek, u, c)
    <3>1. c # NoBuff => c.tsdb \in Tsdbs
      BY <2>15 DEF PageOK, Page
    <3>. QED  BY <3>1, <2>14, <2>15 DEF PageOK
  <2>16. ASSUME NEW c, PageOK(dk, s, c)
         PROVE  /\ PageOK(ek, s, update_indices(c, fb))
                /\ update_indices(c, fb).tsdb = c.tsdb
                /\ update_indices(c, fb).pts = c.pts
    <3>1. c \in Page /\ (c.tsdb = 0 => c = NoBuff) /\ \A t \in c.pts : TsdbOf(t) = c.tsdb
      BY <2>16 DEF PageOK
    <3>2. ASSUME c.tsdb # fb.tsdb
          PROVE  PageOK(ek, s, c)
      <4>1. c # NoBuff => c.tsdb \in Tsdbs /\ ek[c.tsdb] = dk[c.tsdb]
        BY <3>1, <3>2, <2>9, <2>12 DEF Page
      <4>. QED  BY <4>1, <2>16 DEF PageOK
    <3>3. PageOK(ek, s, fb) /\ fb # NoBuff
      BY <2>12, <2>13
    <3>. HIDE DEF d, D
    <3>. QED  BY <3>1, <3>2, <3>3, UpdateOK
  <2>17. ASSUME NEW u \in Series \ {s}
         PROVE  Stored(ek, u) = Stored(dk, u)
    <3>1. \A e \in Tsdbs : \A p \in Owned(dk[e], u) : ek[e].pages[p].pts = dk[e].pages[p].pts
      <4>. SUFFICES ASSUME NEW e \in Tsdbs, NEW p \in Owned(dk[e], u)
                    PROVE  ek[e].pages[p].pts = dk[e].pages[p].pts
        OBVIOUS
      <4>1. CASE e = d
        <5>1. p \in 1 .. (n - 1) /\ ek[e] = E /\ dk[e] = D
          BY <4>1, <2>7, <2>9
        <5>. HIDE DEF D
        <5>. QED  BY <5>1, <2>10
      <4>2. CASE e # d
        BY <4>2, <2>9
      <4>. QED  BY <4>1, <4>2
    <3>. QED  BY <3>1, <2>14 DEF Stored
  <2>18. Stored(ek, s) = Stored(dk, s) \cup b.pts
    <3>1. \A e \in Tsdbs : \A p \in Owned(dk[e], s) : ek[e].pages[p].pts = dk[e].pages[p].pts
      <4>. SUFFICES ASSUME NEW e \in Tsdbs, NEW p \in Owned(dk[e], s)
                    PROVE  ek[e].pages[p].pts = dk[e].pages[p].pts
        OBVIOUS
      <4>1. CASE e = d
        <5>1. p \in 1 .. (n - 1) /\ ek[e] = E /\ dk[e] = D
          BY <4>1, <2>7, <2>9
        <5>. HIDE DEF D
        <5>. QED  BY <5>1, <2>10
      <4>2. CASE e # d
        BY <4>2, <2>9
      <4>. QED  BY <4>1, <4>2
    <3>2. \A e \in Tsdbs :
            Owned(ek[e], s) = IF e = d THEN Owned(dk[e], s) \cup {n} ELSE Owned(dk[e], s)
      BY <2>6, <2>9
    <3>3. ek[d].pages[n].pts = b.pts
      BY <2>9, <2>10
    <3>4. ASSUME NEW t \in Stored(ek, s)
          PROVE  t \in Stored(dk, s) \cup b.pts
      <4>0. PICK e \in Tsdbs : \E p \in Owned(ek[e], s) : t \in ek[e].pages[p].pts
        BY <3>4 DEF Stored
      <4>1. PICK p \in Owned(ek[e], s) : t \in ek[e].pages[p].pts
        BY <4>0
      <4>2. CASE e = d /\ p = n
        BY <4>1, <4>2, <3>3
      <4>3. CASE ~(e = d /\ p = n)
        <5>1. p \in Owned(dk[e], s) /\ t \in dk[e].pages[p].pts
          BY <4>1, <4>3, <3>1, <3>2
        <5>. QED  BY <5>1 DEF Stored
      <4>. QED  BY <4>2, <4>3
    <3>5. ASSUME NEW t \in Stored(dk, s)
          PROVE  t \in Stored(ek, s)
      <4>0. PICK e \in Tsdbs : \E p \in Owned(dk[e], s) : t \in dk[e].pages[p].pts
        BY <3>5 DEF Stored
      <4>1. PICK p \in Owned(dk[e], s) : t \in dk[e].pages[p].pts
        BY <4>0
      <4>2. p \in Owned(ek[e], s) /\ t \in ek[e].pages[p].pts
        BY <4>1, <3>1, <3>2
      <4>. QED  BY <4>2 DEF Stored
    <3>6. ASSUME NEW t \in b.pts
          PROVE  t \in Stored(ek, s)
      <4>1. n \in Owned(ek[d], s) /\ t \in ek[d].pages[n].pts
        BY <3>2, <3>3, <2>1
      <4>. QED  BY <4>1, <2>1 DEF Stored
    <3>. QED  BY <3>4, <3>5, <3>6
  <2>19. ASSUME NEW fl, FlagsOK(dk, fl), ooo /\ b # NoBuff => fl[b.tsdb][s]
         PROVE  FlagsOK(ek, fl)
    <3>. SUFFICES ASSUME NEW e \in Tsdbs, NEW p \in DOMAIN ek[e].pages, ek[e].pages[p].ooo
                  PROVE  fl[e][ek[e].pages[p].owner]
      BY DEF FlagsOK
    <3>1. CASE e = d /\ p = n
      BY <3>1, <2>1, <2>9, <2>10, <2>19
    <3>2. CASE ~(e = d /\ p = n)
      <4>1. /\ p \in DOMAIN dk[e].pages
            /\ dk[e].pages[p].ooo = ek[e].pages[p].ooo
            /\ dk[e].pages[p].owner = ek[e].pages[p].owner
        <5>1. CASE e # d
          BY <5>1, <2>9
        <5>2. CASE e = d
          <6>1. ek[e] = E /\ dk[e] = D /\ p \in 1 .. (n - 1)
            BY <5>2, <3>2, <2>7, <2>8, <2>9
          <6>2. /\ p \in DOMAIN D.pages
                /\ D.pages[p].ooo = E.pages[p].ooo
                /\ D.pages[p].owner = E.pages[p].owner
            BY <6>1, <2>7, <2>10, Zenon
          <6>. HIDE DEF d, D
          <6>. QED  BY <6>1, <6>2, Zenon
        <5>. QED  BY <5>1, <5>2
      <4>. QED  BY <4>1, <2>19 DEF FlagsOK
    <3>. QED  BY <3>1, <3>2
  <2>20. Grows(dk, ek)
    <3>. SUFFICES ASSUME NEW e \in Tsdbs
                  PROVE  /\ DOMAIN dk[e].pages \subseteq DOMAIN ek[e].pages
                         /\ \A p \in DOMAIN dk[e].pages :
                              /\ ek[e].pages[p].pts = dk[e].pages[p].pts
                              /\ ek[e].pages[p].next # dk[e].pages[p].next =>
                                   dk[e].pages[p].next = NoPage
                         /\ \A u \in Series :
                              /\ ek[e].index[u] # dk[e].index[u] => dk[e].index[u] = NoPage
                              /\ ek[e].index2[u] # dk[e].index2[u] => dk[e].index2[u] = NoPage
      BY DEF Grows
    <3>1. CASE e # d
      BY <3>1, <2>9
    <3>2. CASE e = d
      <4>1. ASSUME NEW p \in DOMAIN D.pages, p = b.prev
            PROVE  D.pages[p].next = NoPage
        <5>1. p \in Owned(D, s) /\ D.pages[p].owner = s
          <6>1. p # NoPage
            BY <4>1, <2>7 DEF NoPage
          <6>2. IsLast(Owned(D, s), p)
            BY <4>1, <2>1
          <6>3. p \in Owned(D, s)
            <7>. HIDE DEF D
            <7>. QED  BY <6>1, <6>2 DEF IsLast
          <6>. QED  BY <6>3 DEF Owned
        <5>2. IsLast(Owned(D, s), p)
          BY <4>1, <2>1
        <5>3. D.pages[p].next # NoPage =>
                D.pages[p].next \in Owned(D, s) /\ p < D.pages[p].next
          BY <5>1, <2>2, NextInChain DEF Owned
        <5>. QED  BY <5>1, <5>2, <5>3, <2>7 DEF IsLast
      <4>2. b.prev = NoPage => D.index[s] = NoPage
        <5>1. IsFirst(Owned(D, s), D.index[s])
          BY <2>2 DEF ChainOK
        <5>. QED  BY <5>1, <2>1, <2>7 DEF IsLast, IsFirst, NoPage
      <4>3. \A p \in DOMAIN D.pages :
              /\ E.pages[p].pts = D.pages[p].pts
              /\ E.pages[p].next # D.pages[p].next => D.pages[p].next = NoPage
        BY <4>1, <2>7, <2>10
      <4>4. \A u \in Series :
              /\ E.index[u] # D.index[u] => D.index[u] = NoPage
              /\ E.index2[u] # D.index2[u] => D.index2[u] = NoPage
        BY <4>2, <2>10
      <4>5. DOMAIN D.pages \subseteq DOMAIN E.pages
        BY <2>7, <2>8
      <4>. QED  BY <4>3, <4>4, <4>5, <3>2, <2>9
    <3>. QED  BY <3>1, <3>2
  <2>21. Flushed(dk, ek, s, b, fb, ooo)
    BY <2>9, <2>11, <2>12, <2>13, <2>15, <2>16, <2>17, <2>18, <2>19, <2>20 DEF Flushed
  <2>. QED  BY <2>21 DEF ek, fb
<1>. QED  BY <1>1, <1>2

\* A page created in shard d, or moved to it, starts at the end of the chain.
LEMMA NewPageOK ==
  ASSUME NEW dk, StoreOK(dk), NEW s \in Series, NEW t \in Tstamps
  PROVE  PageOK(dk, s, [tsdb |-> TsdbOf(t),
                        prev |-> get_last_header_indices(dk[TsdbOf(t)], s),
                        pts |-> {t}])
<1>. DEFINE d == TsdbOf(t)
            l == get_last_header_indices(dk[d], s)
            b == [tsdb |-> d, prev |-> l, pts |-> {t}]
<1>1. d \in Tsdbs /\ d # 0
  BY TsdbOfTstamp, TsdbAssumption
<1>2. dk[d] \in Disk /\ ChainOK(d, dk[d])
  BY <1>1 DEF StoreOK
<1>3. IsLast(Owned(dk[d], s), l) /\ l \in Nat
  BY <1>2, LastHeaderIsLast
<1>. HIDE DEF l
<1>4. b \in Page /\ b.tsdb = d /\ b.prev = l /\ b.pts = {t}
  BY <1>1, <1>3 DEF Page
<1>. HIDE DEF b
<1>5. PageOK(dk, s, b)
  BY <1>1, <1>3, <1>4 DEF PageOK
<1>. QED  BY <1>5 DEF b, l

\* A page takes another point of its shard, or starts again with one.
LEMMA AddPointOK ==
  ASSUME NEW dk, NEW s, NEW b, PageOK(dk, s, b), NEW t \in Tstamps, b.tsdb = TsdbOf(t),
         NEW c, c \in {[b EXCEPT !.pts = b.pts \cup {t}], [b EXCEPT !.pts = {t}]}
  PROVE  PageOK(dk, s, c) /\ c.tsdb = b.tsdb
<1>1. b \in Page /\ b.tsdb # 0 /\ b # NoBuff
  BY TsdbOfTstamp, TsdbAssumption DEF PageOK, NoBuff
<1>2. /\ c \in Page /\ c.tsdb = b.tsdb /\ c.prev = b.prev
      /\ c.pts \subseteq b.pts \cup {t}
  BY <1>1 DEF Page
<1>. QED  BY <1>1, <1>2 DEF PageOK

-----------------------------------------------------------------------------
(* The inductive invariant *)

\* Chains are exact, pages in memory know the end of theirs, flags announce
\* out-of-order pages, and every accepted point is on a page of its series.
Inv ==
  /\ StoreOK(disk)
  /\ m_buff \in [Series -> Page]
  /\ m_ooo_buff \in [Series -> Page]
  /\ \A s \in Series : PageOK(disk, s, m_buff[s]) /\ PageOK(disk, s, m_ooo_buff[s])
  /\ oooflag \in [Tsdbs -> [Series -> BOOLEAN]]
  /\ FlagsOK(disk, oooflag)
  /\ \A s \in Series : m_ooo_buff[s] # NoBuff => oooflag[m_ooo_buff[s].tsdb][s]
  /\ rolled \subseteq Tsdbs
  /\ accepted \in [Series -> SUBSET Tstamps]
  /\ \A s \in Series : accepted[s] = InMemory(s) \cup Stored(disk, s)

\* A page in memory without a shard is no page.
LEMMA EmptyPage ==
  ASSUME NEW dk, NEW s, NEW b, PageOK(dk, s, b), b.tsdb = NoBuff.tsdb
  PROVE  b = NoBuff
<1>1. NoBuff.tsdb = 0
  BY DEF NoBuff
<1>2. b.tsdb = 0 => b = NoBuff
  BY Zenon DEF PageOK
<1>. QED  BY <1>1, <1>2

\* Empty shards have correct chains.
LEMMA EmptyStoreOK ==
  ASSUME NEW dk, dk = [d \in Tsdbs |-> EmptyDisk]
  PROVE  /\ StoreOK(dk)
         /\ \A s \in Series : PageOK(dk, s, NoBuff) /\ Stored(dk, s) = {}
         /\ \A fl : FlagsOK(dk, fl)
<1>1. EmptyDisk \in Disk /\ EmptyDisk.pages = << >> /\ DOMAIN EmptyDisk.pages = {}
  <2>1. << >> \in Seq(Header)
    OBVIOUS
  <2>. QED  BY <2>1 DEF EmptyDisk, Disk, NoPage
<1>2. \A s : Owned(EmptyDisk, s) = {}
  BY <1>1 DEF Owned
<1>3. \A d : ChainOK(d, EmptyDisk)
  BY <1>1, <1>2 DEF ChainOK, IsFirst, EmptyDisk
<1>4. StoreOK(dk)
  BY <1>1, <1>3 DEF StoreOK
<1>5. \A s \in Series : PageOK(dk, s, NoBuff)
  BY DEF PageOK, NoBuff, Page, NoPage
<1>6. \A s \in Series : Stored(dk, s) = {}
  BY <1>2 DEF Stored
<1>7. \A fl : FlagsOK(dk, fl)
  BY <1>1 DEF FlagsOK
<1>. QED  BY <1>4, <1>5, <1>6, <1>7

\* A new database satisfies the invariant.
LEMMA InitInv == Init => Inv
<1>. SUFFICES ASSUME Init
              PROVE  Inv
  OBVIOUS
<1>1. /\ StoreOK(disk)
      /\ \A s \in Series : PageOK(disk, s, NoBuff) /\ Stored(disk, s) = {}
      /\ FlagsOK(disk, oooflag)
  BY EmptyStoreOK DEF Init
<1>2. NoBuff \in Page /\ NoBuff.pts = {}
  BY DEF NoBuff, Page, NoPage
<1>3. \A s \in Series : m_buff[s] = NoBuff /\ m_ooo_buff[s] = NoBuff
  BY DEF Init
<1>4. m_buff \in [Series -> Page] /\ m_ooo_buff \in [Series -> Page]
  BY <1>2 DEF Init
<1>5. \A s \in Series : accepted[s] = InMemory(s) \cup Stored(disk, s)
  BY <1>1, <1>2, <1>3 DEF Init, InMemory
<1>. QED  BY <1>1, <1>3, <1>4, <1>5 DEF Init, Inv

\* What a handler of series s must establish.  B and O are its pages
\* afterwards, A the points it has accepted.
Handler(s, B, O, A) ==
  /\ m_buff' = [m_buff EXCEPT ![s] = B]
  /\ m_ooo_buff' = [m_ooo_buff EXCEPT ![s] = O]
  /\ accepted' = [accepted EXCEPT ![s] = A]
  /\ A \in SUBSET Tstamps
  /\ A = B.pts \cup O.pts \cup Stored(disk', s)
  /\ StoreOK(disk')
  /\ PageOK(disk', s, B)
  /\ PageOK(disk', s, O)
  /\ \A u \in Series \ {s} : Stored(disk', u) = Stored(disk, u)
  /\ \A u \in Series \ {s} : \A c : PageOK(disk, u, c) => PageOK(disk', u, c)
  /\ oooflag' \in [Tsdbs -> [Series -> BOOLEAN]]
  /\ FlagsOK(disk', oooflag')
  /\ O # NoBuff => oooflag'[O.tsdb][s]
  /\ \A d \in Tsdbs : \A u \in Series \ {s} : oooflag'[d][u] = oooflag[d][u]
  /\ rolled' \subseteq Tsdbs

\* A handler that establishes Handler() for its series keeps the invariant:
\* it cannot disturb the pages of another series.
LEMMA HandlerOK ==
  ASSUME Inv, NEW s \in Series, NEW B, NEW O, NEW A, Handler(s, B, O, A)
  PROVE  Inv'
<1>. USE DEF Handler
<1>1. B \in Page /\ O \in Page
  BY DEF PageOK
<1>2. m_buff' \in [Series -> Page] /\ m_ooo_buff' \in [Series -> Page]
  BY <1>1 DEF Inv
<1>3. /\ m_buff'[s] = B /\ m_ooo_buff'[s] = O /\ accepted'[s] = A
      /\ \A u \in Series \ {s} :
           m_buff'[u] = m_buff[u] /\ m_ooo_buff'[u] = m_ooo_buff[u] /\ accepted'[u] = accepted[u]
  BY DEF Inv
<1>4. \A u \in Series : PageOK(disk', u, m_buff'[u]) /\ PageOK(disk', u, m_ooo_buff'[u])
  BY <1>3 DEF Inv
<1>5. accepted' \in [Series -> SUBSET Tstamps]
  BY DEF Inv
<1>6. ASSUME NEW u \in Series
      PROVE  accepted'[u] = InMemory(u)' \cup Stored(disk', u)
  <2>1. CASE u = s
    BY <2>1, <1>3 DEF InMemory
  <2>2. CASE u # s
    BY <2>2, <1>3 DEF Inv, InMemory
  <2>. QED  BY <2>1, <2>2
<1>7. ASSUME NEW u \in Series, m_ooo_buff'[u] # NoBuff
      PROVE  oooflag'[m_ooo_buff'[u].tsdb][u]
  <2>1. CASE u = s
    BY <2>1, <1>3, <1>7
  <2>2. CASE u # s
    <3>1. m_ooo_buff'[u] = m_ooo_buff[u] /\ m_ooo_buff[u] # NoBuff
      BY <2>2, <1>3, <1>7
    <3>2. m_ooo_buff[u].tsdb \in Tsdbs
      BY <3>1 DEF Inv, PageOK, Page
    <3>3. oooflag[m_ooo_buff[u].tsdb][u]
      BY <3>1 DEF Inv
    <3>4. oooflag'[m_ooo_buff[u].tsdb][u] = oooflag[m_ooo_buff[u].tsdb][u]
      BY <2>2, <3>2
    <3>. QED  BY <3>1, <3>3, <3>4
  <2>. QED  BY <2>1, <2>2
<1>. QED  BY <1>2, <1>4, <1>5, <1>6, <1>7 DEF Inv

-----------------------------------------------------------------------------
(* One lemma per handler *)

\* What the invariant says about one series.
LEMMA SeriesFacts ==
  ASSUME Inv, NEW s \in Series
  PROVE  /\ StoreOK(disk) /\ PageOK(disk, s, m_buff[s]) /\ PageOK(disk, s, m_ooo_buff[s])
         /\ oooflag \in [Tsdbs -> [Series -> BOOLEAN]]
         /\ FlagsOK(disk, oooflag)
         /\ m_ooo_buff[s] # NoBuff => oooflag[m_ooo_buff[s].tsdb][s]
         /\ m_buff \in [Series -> Page] /\ m_ooo_buff \in [Series -> Page]
         /\ accepted[s] \in SUBSET Tstamps
         /\ accepted[s] = m_buff[s].pts \cup m_ooo_buff[s].pts \cup Stored(disk, s)
         /\ rolled \subseteq Tsdbs
BY DEF Inv, InMemory

\* Setting the flag of a series only sets flags.
FlagSet(dk, fl, gl, d, s) ==
  /\ gl \in [Tsdbs -> [Series -> BOOLEAN]]
  /\ FlagsOK(dk, gl)
  /\ gl[d][s]
  /\ \A e \in Tsdbs : \A u \in Series \ {s} : gl[e][u] = fl[e][u]

\* Tsdb::set_out_of_order() keeps the announcements that are already there.
LEMMA SetFlag ==
  ASSUME NEW dk, NEW fl \in [Tsdbs -> [Series -> BOOLEAN]], FlagsOK(dk, fl), StoreOK(dk),
         NEW d \in Tsdbs, NEW s \in Series
  PROVE  FlagSet(dk, fl, [fl EXCEPT ![d][s] = TRUE], d, s)
<1>. DEFINE gl == [fl EXCEPT ![d][s] = TRUE]
<1>1. gl \in [Tsdbs -> [Series -> BOOLEAN]]
  OBVIOUS
<1>2. gl[d][s]
  OBVIOUS
<1>3. \A e \in Tsdbs : \A u \in Series \ {s} : gl[e][u] = fl[e][u]
  OBVIOUS
<1>4. \A e \in Tsdbs \ {d} : gl[e][s] = fl[e][s]
  OBVIOUS
<1>5. \A e \in Tsdbs : \A u \in Series : fl[e][u] => gl[e][u]
  BY <1>2, <1>3, <1>4
<1>6. \A e \in Tsdbs : \A p \in DOMAIN dk[e].pages : dk[e].pages[p].owner \in Series
  BY DiskPages DEF StoreOK, Header
<1>7. FlagsOK(dk, gl)
  BY <1>5, <1>6 DEF FlagsOK
<1>. QED  BY <1>1, <1>2, <1>3, <1>7 DEF FlagSet

\* add_data_point() creates m_buff.
LEMMA AddToNewBuffInv ==
  ASSUME Inv, NEW s \in Series, NEW t \in Tstamps, AddToNewBuff(s, t)
  PROVE  Inv' /\ Grows(disk, disk')
<1>. DEFINE B == NewPage(TsdbOf(t), s, t)
<1>1. /\ m_buff[s] = NoBuff /\ m_buff' = [m_buff EXCEPT ![s] = B]
      /\ rolled' = rolled \ {TsdbOf(t)} /\ disk' = disk /\ oooflag' = oooflag
      /\ m_ooo_buff' = m_ooo_buff
      /\ accepted' = [accepted EXCEPT ![s] = accepted[s] \cup {t}]
  BY DEF AddToNewBuff, Accept
<1>2. PageOK(disk, s, B) /\ B.pts = {t}
  BY SeriesFacts, NewPageOK DEF NewPage
<1>. HIDE DEF B
<1>3. m_buff[s].pts = {}
  BY <1>1 DEF NoBuff
<1>4. m_ooo_buff' = [m_ooo_buff EXCEPT ![s] = m_ooo_buff[s]]
  BY <1>1, SeriesFacts
<1>5. accepted[s] \cup {t} = B.pts \cup m_ooo_buff[s].pts \cup Stored(disk', s)
  BY <1>1, <1>2, <1>3, SeriesFacts
<1>6. Handler(s, B, m_ooo_buff[s], accepted[s] \cup {t})
  BY <1>1, <1>2, <1>4, <1>5, SeriesFacts DEF Handler
<1>. QED  BY <1>1, <1>6, HandlerOK, GrowsReflexive

\* add_data_point() finds room on m_buff.
LEMMA AddToBuffInv ==
  ASSUME Inv, NEW s \in Series, NEW t \in Tstamps, AddToBuff(s, t)
  PROVE  Inv' /\ Grows(disk, disk')
<1>. DEFINE B == [m_buff[s] EXCEPT !.pts = m_buff[s].pts \cup {t}]
<1>1. /\ m_buff[s].tsdb = TsdbOf(t) /\ m_buff' = [m_buff EXCEPT ![s] = B]
      /\ rolled' = rolled /\ disk' = disk /\ oooflag' = oooflag /\ m_ooo_buff' = m_ooo_buff
      /\ accepted' = [accepted EXCEPT ![s] = accepted[s] \cup {t}]
  BY DEF AddToBuff, Accept
<1>2. PageOK(disk, s, B)
  BY <1>1, SeriesFacts, AddPointOK
<1>3. B.pts = m_buff[s].pts \cup {t}
  BY SeriesFacts DEF Page
<1>. HIDE DEF B
<1>4. m_ooo_buff' = [m_ooo_buff EXCEPT ![s] = m_ooo_buff[s]]
  BY <1>1, SeriesFacts
<1>5. accepted[s] \cup {t} = B.pts \cup m_ooo_buff[s].pts \cup Stored(disk', s)
  BY <1>1, <1>3, SeriesFacts
<1>6. Handler(s, B, m_ooo_buff[s], accepted[s] \cup {t})
  BY <1>1, <1>2, <1>4, <1>5, SeriesFacts DEF Handler
<1>. QED  BY <1>1, <1>6, HandlerOK, GrowsReflexive

\* add_ooo_data_point() creates m_ooo_buff.
LEMMA AddToNewOooInv ==
  ASSUME Inv, NEW s \in Series, NEW t \in Tstamps, AddToNewOoo(s, t)
  PROVE  Inv' /\ Grows(disk, disk')
<1>. DEFINE O == NewPage(TsdbOf(t), s, t)
<1>1. /\ m_ooo_buff[s] = NoBuff /\ m_ooo_buff' = [m_ooo_buff EXCEPT ![s] = O]
      /\ rolled' = rolled \ {TsdbOf(t)} /\ disk' = disk /\ m_buff' = m_buff
      /\ oooflag' = [oooflag EXCEPT ![TsdbOf(t)][s] = TRUE]
      /\ accepted' = [accepted EXCEPT ![s] = accepted[s] \cup {t}]
  BY DEF AddToNewOoo, Accept
<1>2. PageOK(disk, s, O) /\ O.pts = {t} /\ O.tsdb = TsdbOf(t)
  BY SeriesFacts, NewPageOK DEF NewPage
<1>. HIDE DEF O
<1>3. m_ooo_buff[s].pts = {}
  BY <1>1 DEF NoBuff
<1>4. m_buff' = [m_buff EXCEPT ![s] = m_buff[s]]
  BY <1>1, SeriesFacts
<1>5. accepted[s] \cup {t} = m_buff[s].pts \cup O.pts \cup Stored(disk', s)
  BY <1>1, <1>2, <1>3, SeriesFacts
<1>6. /\ oooflag' \in [Tsdbs -> [Series -> BOOLEAN]]
      /\ FlagsOK(disk', oooflag') /\ oooflag'[O.tsdb][s]
      /\ \A e \in Tsdbs : \A u \in Series \ {s} : oooflag'[e][u] = oooflag[e][u]
  <2>1. FlagSet(disk, oooflag, oooflag', TsdbOf(t), s)
    BY <1>1, SeriesFacts, SetFlag, TsdbOfTstamp
  <2>. QED  BY <2>1, <1>1, <1>2 DEF FlagSet
<1>7. Handler(s, m_buff[s], O, accepted[s] \cup {t})
  BY <1>1, <1>2, <1>4, <1>5, <1>6, SeriesFacts DEF Handler
<1>. QED  BY <1>1, <1>7, HandlerOK, GrowsReflexive

\* add_ooo_data_point() finds room on m_ooo_buff.
LEMMA AddToOooInv ==
  ASSUME Inv, NEW s \in Series, NEW t \in Tstamps, AddToOoo(s, t)
  PROVE  Inv' /\ Grows(disk, disk')
<1>. DEFINE O == [m_ooo_buff[s] EXCEPT !.pts = m_ooo_buff[s].pts \cup {t}]
<1>1. /\ m_ooo_buff[s].tsdb = TsdbOf(t) /\ m_ooo_buff' = [m_ooo_buff EXCEPT ![s] = O]
      /\ m_ooo_buff[s] # NoBuff
      /\ rolled' = rolled /\ disk' = disk /\ oooflag' = oooflag /\ m_buff' = m_buff
      /\ accepted' = [accepted EXCEPT ![s] = accepted[s] \cup {t}]
  BY DEF AddToOoo, Accept
<1>2. PageOK(disk, s, O) /\ O.tsdb = m_ooo_buff[s].tsdb
  BY <1>1, SeriesFacts, AddPointOK
<1>3. O.pts = m_ooo_buff[s].pts \cup {t}
  BY SeriesFacts DEF Page
<1>. HIDE DEF O
<1>4. m_buff' = [m_buff EXCEPT ![s] = m_buff[s]]
  BY <1>1, SeriesFacts
<1>5. accepted[s] \cup {t} = m_buff[s].pts \cup O.pts \cup Stored(disk', s)
  BY <1>1, <1>3, SeriesFacts
<1>6. oooflag'[O.tsdb][s]
  BY <1>1, <1>2, SeriesFacts
<1>7. Handler(s, m_buff[s], O, accepted[s] \cup {t})
  BY <1>1, <1>2, <1>4, <1>5, <1>6, SeriesFacts DEF Handler
<1>. QED  BY <1>1, <1>7, HandlerOK, GrowsReflexive

\* add_data_point() moves m_buff to a later shard.
LEMMA AddToNextTsdbInv ==
  ASSUME Inv, NEW s \in Series, NEW t \in Tstamps, AddToNextTsdb(s, t)
  PROVE  Inv' /\ Grows(disk, disk')
<1>. DEFINE d == TsdbOf(t)
            b == m_buff[s]
            fb == flushed(disk, b)
            B == NewPage(d, s, t)
            O == update_indices(m_ooo_buff[s], fb)
<1>1. /\ b.tsdb < d /\ disk' = flush(disk, s, b, FALSE)
      /\ m_buff' = [m_buff EXCEPT ![s] = B] /\ m_ooo_buff' = [m_ooo_buff EXCEPT ![s] = O]
      /\ rolled' = rolled \ {d} /\ oooflag' = oooflag
      /\ accepted' = [accepted EXCEPT ![s] = accepted[s] \cup {t}]
  BY DEF AddToNextTsdb, Accept
<1>2. Flushed(disk, disk', s, b, fb, FALSE)
  BY <1>1, SeriesFacts, FlushOK
<1>3. d \in Tsdbs \ {b.tsdb}
  <2>1. d \in Tsdbs /\ d \in Nat
    BY TsdbOfTstamp, TsdbAssumption
  <2>2. ~(d < d)
    BY <2>1
  <2>. QED  BY <2>1, <2>2, <1>1
<1>4. disk'[d] = disk[d]
  BY <1>2, <1>3 DEF Flushed
<1>5. PageOK(disk', s, B) /\ B.pts = {t}
  BY <1>2, <1>4, NewPageOK DEF NewPage, Flushed
<1>6. /\ PageOK(disk', s, O) /\ O.tsdb = m_ooo_buff[s].tsdb /\ O.pts = m_ooo_buff[s].pts
      /\ StoreOK(disk') /\ Grows(disk, disk')
      /\ \A u \in Series \ {s} : Stored(disk', u) = Stored(disk, u)
      /\ Stored(disk', s) = Stored(disk, s) \cup b.pts
      /\ \A u \in Series \ {s} : \A c : PageOK(disk, u, c) => PageOK(disk', u, c)
      /\ FlagsOK(disk', oooflag)
  BY <1>2, SeriesFacts DEF Flushed
<1>. HIDE DEF B, O
<1>7. O # NoBuff => oooflag'[O.tsdb][s]
  <2>1. ASSUME m_ooo_buff[s] = NoBuff
        PROVE  O = NoBuff
    BY <2>1, <1>6, EmptyPage
  <2>. QED  BY <2>1, <1>1, <1>6, SeriesFacts
<1>8. accepted[s] \cup {t} = B.pts \cup O.pts \cup Stored(disk', s)
  BY <1>5, <1>6, SeriesFacts
<1>9. Handler(s, B, O, accepted[s] \cup {t})
  BY <1>1, <1>5, <1>6, <1>7, <1>8, SeriesFacts DEF Handler
<1>. QED  BY <1>6, <1>9, HandlerOK

\* add_data_point() finds m_buff full.
LEMMA AddAfterFullInv ==
  ASSUME Inv, NEW s \in Series, NEW t \in Tstamps, AddAfterFull(s, t)
  PROVE  Inv' /\ Grows(disk, disk')
<1>. DEFINE b == m_buff[s]
            fb == flushed(disk, b)
            B == Reinit(fb, t)
            O == update_indices(m_ooo_buff[s], fb)
<1>1. /\ b.tsdb = TsdbOf(t) /\ disk' = flush(disk, s, b, FALSE)
      /\ m_buff' = [m_buff EXCEPT ![s] = B] /\ m_ooo_buff' = [m_ooo_buff EXCEPT ![s] = O]
      /\ rolled' = rolled /\ oooflag' = oooflag
      /\ accepted' = [accepted EXCEPT ![s] = accepted[s] \cup {t}]
  BY DEF AddAfterFull, Accept
<1>2. Flushed(disk, disk', s, b, fb, FALSE)
  BY <1>1, SeriesFacts, FlushOK
<1>3. PageOK(disk', s, fb) /\ fb.tsdb = TsdbOf(t) /\ fb \in Page
  BY <1>1, <1>2 DEF Flushed, PageOK
<1>4. PageOK(disk', s, B) /\ B.pts = {t}
  BY <1>3, AddPointOK DEF Reinit, Page
<1>5. /\ PageOK(disk', s, O) /\ O.tsdb = m_ooo_buff[s].tsdb /\ O.pts = m_ooo_buff[s].pts
      /\ StoreOK(disk') /\ Grows(disk, disk')
      /\ \A u \in Series \ {s} : Stored(disk', u) = Stored(disk, u)
      /\ Stored(disk', s) = Stored(disk, s) \cup b.pts
      /\ \A u \in Series \ {s} : \A c : PageOK(disk, u, c) => PageOK(disk', u, c)
      /\ FlagsOK(disk', oooflag)
  BY <1>2, SeriesFacts DEF Flushed
<1>. HIDE DEF B, O
<1>6. O # NoBuff => oooflag'[O.tsdb][s]
  <2>1. ASSUME m_ooo_buff[s] = NoBuff
        PROVE  O = NoBuff
    BY <2>1, <1>5, EmptyPage
  <2>. QED  BY <2>1, <1>1, <1>5, SeriesFacts
<1>7. accepted[s] \cup {t} = B.pts \cup O.pts \cup Stored(disk', s)
  BY <1>4, <1>5, SeriesFacts
<1>8. Handler(s, B, O, accepted[s] \cup {t})
  BY <1>1, <1>4, <1>5, <1>6, <1>7, SeriesFacts DEF Handler
<1>. QED  BY <1>5, <1>8, HandlerOK

\* add_ooo_data_point() moves m_ooo_buff to another shard.
LEMMA AddToOtherTsdbInv ==
  ASSUME Inv, NEW s \in Series, NEW t \in Tstamps, AddToOtherTsdb(s, t)
  PROVE  Inv' /\ Grows(disk, disk')
<1>. DEFINE d == TsdbOf(t)
            b == m_ooo_buff[s]
            fb == flushed(disk, b)
            O == NewPage(d, s, t)
            B == update_indices(m_buff[s], fb)
<1>1. /\ b # NoBuff /\ b.tsdb # d /\ disk' = flush(disk, s, b, TRUE)
      /\ m_buff' = [m_buff EXCEPT ![s] = B] /\ m_ooo_buff' = [m_ooo_buff EXCEPT ![s] = O]
      /\ rolled' = rolled \ {d} /\ oooflag' = [oooflag EXCEPT ![d][s] = TRUE]
      /\ accepted' = [accepted EXCEPT ![s] = accepted[s] \cup {t}]
  BY DEF AddToOtherTsdb, Accept
<1>2. Flushed(disk, disk', s, b, fb, TRUE)
  BY <1>1, SeriesFacts, FlushOK
<1>3. disk'[d] = disk[d]
  BY <1>1, <1>2, TsdbOfTstamp DEF Flushed
<1>4. PageOK(disk', s, O) /\ O.pts = {t} /\ O.tsdb = d
  BY <1>2, <1>3, NewPageOK DEF NewPage, Flushed
<1>5. /\ PageOK(disk', s, B) /\ B.pts = m_buff[s].pts
      /\ StoreOK(disk') /\ Grows(disk, disk')
      /\ \A u \in Series \ {s} : Stored(disk', u) = Stored(disk, u)
      /\ Stored(disk', s) = Stored(disk, s) \cup b.pts
      /\ \A u \in Series \ {s} : \A c : PageOK(disk, u, c) => PageOK(disk', u, c)
      /\ FlagsOK(disk', oooflag)
  BY <1>2, SeriesFacts DEF Flushed
<1>. HIDE DEF B, O
<1>6. /\ oooflag' \in [Tsdbs -> [Series -> BOOLEAN]]
      /\ FlagsOK(disk', oooflag') /\ oooflag'[O.tsdb][s]
      /\ \A e \in Tsdbs : \A u \in Series \ {s} : oooflag'[e][u] = oooflag[e][u]
  <2>1. FlagSet(disk', oooflag, oooflag', d, s)
    BY <1>1, <1>5, SeriesFacts, SetFlag, TsdbOfTstamp
  <2>. QED  BY <2>1, <1>4 DEF FlagSet
<1>7. accepted[s] \cup {t} = B.pts \cup O.pts \cup Stored(disk', s)
  BY <1>4, <1>5, SeriesFacts
<1>8. Handler(s, B, O, accepted[s] \cup {t})
  BY <1>1, <1>4, <1>5, <1>6, <1>7, SeriesFacts DEF Handler
<1>. QED  BY <1>5, <1>8, HandlerOK

\* add_ooo_data_point() finds m_ooo_buff full.
LEMMA AddAfterFullOooInv ==
  ASSUME Inv, NEW s \in Series, NEW t \in Tstamps, AddAfterFullOoo(s, t)
  PROVE  Inv' /\ Grows(disk, disk')
<1>. DEFINE b == m_ooo_buff[s]
            fb == flushed(disk, b)
            O == Reinit(fb, t)
            B == update_indices(m_buff[s], fb)
<1>1. /\ b # NoBuff /\ b.tsdb = TsdbOf(t) /\ disk' = flush(disk, s, b, TRUE)
      /\ m_buff' = [m_buff EXCEPT ![s] = B] /\ m_ooo_buff' = [m_ooo_buff EXCEPT ![s] = O]
      /\ rolled' = rolled /\ oooflag' = oooflag
      /\ accepted' = [accepted EXCEPT ![s] = accepted[s] \cup {t}]
  BY DEF AddAfterFullOoo, Accept
<1>2. Flushed(disk, disk', s, b, fb, TRUE)
  BY <1>1, SeriesFacts, FlushOK
<1>3. PageOK(disk', s, fb) /\ fb.tsdb = TsdbOf(t) /\ fb \in Page
  BY <1>1, <1>2 DEF Flushed, PageOK
<1>4. PageOK(disk', s, O) /\ O.pts = {t} /\ O.tsdb = b.tsdb
  BY <1>1, <1>3, AddPointOK DEF Reinit, Page
<1>5. /\ PageOK(disk', s, B) /\ B.pts = m_buff[s].pts
      /\ StoreOK(disk') /\ Grows(disk, disk')
      /\ \A u \in Series \ {s} : Stored(disk', u) = Stored(disk, u)
      /\ Stored(disk', s) = Stored(disk, s) \cup b.pts
      /\ \A u \in Series \ {s} : \A c : PageOK(disk, u, c) => PageOK(disk', u, c)
      /\ FlagsOK(disk', oooflag)
  BY <1>2, SeriesFacts DEF Flushed
<1>. HIDE DEF B, O
<1>6. oooflag'[O.tsdb][s]
  BY <1>1, <1>4, SeriesFacts
<1>7. accepted[s] \cup {t} = B.pts \cup O.pts \cup Stored(disk', s)
  BY <1>4, <1>5, SeriesFacts
<1>8. Handler(s, B, O, accepted[s] \cup {t})
  BY <1>1, <1>4, <1>5, <1>6, <1>7, SeriesFacts DEF Handler
<1>. QED  BY <1>5, <1>8, HandlerOK

\* Two flushes in one step only add to the disks.
LEMMA GrowsTransitive ==
  ASSUME NEW dk, NEW ek, NEW fk, Grows(dk, ek), Grows(ek, fk)
  PROVE  Grows(dk, fk)
<1>. SUFFICES ASSUME NEW d \in Tsdbs
              PROVE  /\ DOMAIN dk[d].pages \subseteq DOMAIN fk[d].pages
                     /\ \A p \in DOMAIN dk[d].pages :
                          /\ fk[d].pages[p].pts = dk[d].pages[p].pts
                          /\ fk[d].pages[p].next # dk[d].pages[p].next =>
                               dk[d].pages[p].next = NoPage
                     /\ \A s \in Series :
                          /\ fk[d].index[s] # dk[d].index[s] => dk[d].index[s] = NoPage
                          /\ fk[d].index2[s] # dk[d].index2[s] => dk[d].index2[s] = NoPage
  BY Zenon DEF Grows
<1>. DEFINE D == dk[d]
            E == ek[d]
            F == fk[d]
<1>1. /\ DOMAIN D.pages \subseteq DOMAIN E.pages
      /\ \A p \in DOMAIN D.pages :
           /\ E.pages[p].pts = D.pages[p].pts
           /\ E.pages[p].next # D.pages[p].next => D.pages[p].next = NoPage
      /\ \A s \in Series :
           /\ E.index[s] # D.index[s] => D.index[s] = NoPage
           /\ E.index2[s] # D.index2[s] => D.index2[s] = NoPage
  BY Zenon DEF Grows
<1>2. /\ DOMAIN E.pages \subseteq DOMAIN F.pages
      /\ \A p \in DOMAIN E.pages :
           /\ F.pages[p].pts = E.pages[p].pts
           /\ F.pages[p].next # E.pages[p].next => E.pages[p].next = NoPage
      /\ \A s \in Series :
           /\ F.index[s] # E.index[s] => E.index[s] = NoPage
           /\ F.index2[s] # E.index2[s] => E.index2[s] = NoPage
  BY Zenon DEF Grows
<1>. HIDE DEF D, E, F
<1>3. /\ DOMAIN D.pages \subseteq DOMAIN F.pages
      /\ \A p \in DOMAIN D.pages :
           /\ F.pages[p].pts = D.pages[p].pts
           /\ F.pages[p].next # D.pages[p].next => D.pages[p].next = NoPage
  BY <1>1, <1>2
<1>4. \A s \in Series :
        /\ F.index[s] # D.index[s] => D.index[s] = NoPage
        /\ F.index2[s] # D.index2[s] => D.index2[s] = NoPage
  BY <1>1, <1>2
<1>. QED  BY <1>3, <1>4, Zenon DEF D, F

\* TimeSeries::close() and archive() flush both pages, one behind the other.
LEMMA CloseSeriesInv ==
  ASSUME Inv, NEW s \in Series, CloseSeries(s)
  PROVE  Inv' /\ Grows(disk, disk')
<1>. DEFINE b == m_buff[s]
            fb == flushed(disk, b)
            dk == flush(disk, s, b, FALSE)
            ob == update_indices(m_ooo_buff[s], fb)
<1>1. /\ disk' = flush(dk, s, ob, TRUE)
      /\ m_buff' = [m_buff EXCEPT ![s] = NoBuff]
      /\ m_ooo_buff' = [m_ooo_buff EXCEPT ![s] = NoBuff]
      /\ rolled' = rolled /\ oooflag' = oooflag /\ accepted' = accepted
  BY DEF CloseSeries
<1>2. Flushed(disk, dk, s, b, fb, FALSE)
  BY SeriesFacts, FlushOK
<1>. HIDE DEF dk
<1>3. /\ PageOK(dk, s, ob) /\ ob.tsdb = m_ooo_buff[s].tsdb /\ ob.pts = m_ooo_buff[s].pts
      /\ StoreOK(dk) /\ Grows(disk, dk)
      /\ \A u \in Series \ {s} : Stored(dk, u) = Stored(disk, u)
      /\ Stored(dk, s) = Stored(disk, s) \cup b.pts
      /\ \A u \in Series \ {s} : \A c : PageOK(disk, u, c) => PageOK(dk, u, c)
      /\ FlagsOK(dk, oooflag)
  BY <1>2, SeriesFacts DEF Flushed
<1>. HIDE DEF ob
<1>4. ob # NoBuff => oooflag[ob.tsdb][s]
  <2>1. ASSUME m_ooo_buff[s] = NoBuff
        PROVE  ob = NoBuff
    BY <2>1, <1>3, EmptyPage
  <2>. QED  BY <2>1, <1>3, SeriesFacts
<1>5. Flushed(dk, disk', s, ob, flushed(dk, ob), TRUE)
  BY <1>1, <1>3, FlushOK
<1>6. /\ StoreOK(disk') /\ Grows(dk, disk')
      /\ \A u \in Series \ {s} : Stored(disk', u) = Stored(disk, u)
      /\ Stored(disk', s) = Stored(disk, s) \cup b.pts \cup m_ooo_buff[s].pts
      /\ \A u \in Series \ {s} : \A c : PageOK(disk, u, c) => PageOK(disk', u, c)
      /\ FlagsOK(disk', oooflag)
  BY <1>3, <1>4, <1>5 DEF Flushed
<1>7. PageOK(disk', s, NoBuff) /\ NoBuff.pts = {}
  BY DEF PageOK, NoBuff, Page, NoPage
<1>8. accepted[s] = NoBuff.pts \cup NoBuff.pts \cup Stored(disk', s)
  BY <1>6, <1>7, SeriesFacts
<1>9. accepted' = [accepted EXCEPT ![s] = accepted[s]]
  BY <1>1 DEF Inv
<1>10. Handler(s, NoBuff, NoBuff, accepted[s])
  BY <1>1, <1>6, <1>7, <1>8, <1>9, SeriesFacts DEF Handler
<1>. QED  BY <1>3, <1>6, <1>10, HandlerOK, GrowsTransitive

\* Every step of the write path keeps the invariant and only adds to disk.
LEMMA NextInv ==
  ASSUME Inv, [Next]_vars
  PROVE  Inv' /\ Grows(disk, disk')
<1>1. CASE Next
  <2>1. ASSUME NEW s \in Series, NEW t \in Tstamps, AddDataPoint(s, t)
        PROVE  Inv' /\ Grows(disk, disk')
    BY <2>1, AddToNewBuffInv, AddToNextTsdbInv, AddToBuffInv, AddAfterFullInv,
       AddToNewOooInv, AddToOtherTsdbInv, AddToOooInv, AddAfterFullOooInv DEF AddDataPoint
  <2>2. ASSUME NEW s \in Series, CloseSeries(s)
        PROVE  Inv' /\ Grows(disk, disk')
    BY <2>2, CloseSeriesInv
  <2>3. ASSUME NEW d \in Tsdbs, RollUp(d)
        PROVE  Inv' /\ Grows(disk, disk')
    BY <2>3, GrowsReflexive DEF RollUp, Inv, InMemory
  <2>. QED  BY <1>1, <2>1, <2>2, <2>3 DEF Next
<1>2. CASE UNCHANGED vars
  BY <1>2, GrowsReflexive DEF vars, Inv, InMemory
<1>. QED  BY <1>1, <1>2

\* The write path keeps the inductive invariant.
THEOREM Invariance == Spec => []Inv
<1>1. Inv /\ [Next]_vars => Inv'
  BY NextInv
<1>. QED  BY InitInv, <1>1, PTL DEF Spec

-----------------------------------------------------------------------------
(* The properties *)

\* A walk from the index entry of a series meets exactly the pages the series
\* has flushed: from page p on, the owner's pages that do not precede p.
LEMMA ReachableIsOwned ==
  ASSUME NEW d, NEW D \in Disk, ChainOK(d, D), NEW s \in Series
  PROVE  Reachable(D, s) = Owned(D, s)
<1>. DEFINE pages == D.pages
            n == Len(pages)
            Of(q) == Owned(D, pages[q].owner)
            Rest(q) == {r \in Of(q) : q <= r}
            Step(f) == [q \in DOMAIN pages |->
                          {q} \cup IF pages[q].next = NoPage THEN {} ELSE f[pages[q].next]]
            g == [q \in DOMAIN pages |-> Rest(q)]
            w == CHOOSE f : f = Step(f)
<1>1. /\ n \in Nat /\ DOMAIN pages = 1 .. n
      /\ \A q \in DOMAIN pages : Of(q) \in SUBSET (1 .. n)
  BY DiskPages
<1>2. ASSUME NEW q \in DOMAIN pages
      PROVE  Rest(q) = {q} \cup IF pages[q].next = NoPage THEN {} ELSE Rest(pages[q].next)
  <2>. DEFINE x == pages[q].next
  <2>1. q \in Of(q)
    BY DEF Owned
  <2>2. IsFirst({r \in Of(q) : q < r}, x)
    BY DEF ChainOK
  <2>5. q \in Nat /\ \A r \in Of(q) : r \in Nat
    BY <1>1
  <2>3. CASE x = NoPage
    <3>1. IsLast(Of(q), q)
      BY <2>3, NextInChain
    <3>2. \A r \in Of(q) : r <= q
      BY <3>1, <2>1 DEF IsLast
    <3>3. \A r \in Of(q) : q <= r <=> r = q
      <4>. HIDE DEF Of
      <4>. QED  BY <3>2, <2>5
    <3>4. Rest(q) = {q}
      <4>. HIDE DEF Of
      <4>. QED  BY <3>3, <2>1
    <3>. QED  BY <3>4, <2>3
  <2>4. CASE x # NoPage
    <3>1. x \in Of(q) /\ q < x /\ Of(x) = Of(q)
      BY <2>4, NextInChain DEF Owned
    <3>2. \A r \in Of(q) : q < r => x <= r
      BY <3>1, <2>2 DEF IsFirst
    <3>3. \A r \in Of(q) : q <= r <=> r = q \/ x <= r
      <4>. HIDE DEF Of, x
      <4>1. ASSUME NEW r \in Of(q)
            PROVE  q <= r <=> r = q \/ x <= r
        <5>1. r \in Nat /\ q \in Nat /\ x \in Nat /\ q < x /\ (q < r => x <= r)
          BY <2>5, <3>1, <3>2
        <5>. QED  BY <5>1
      <4>. QED  BY <4>1
    <3>4. Rest(q) = {q} \cup {r \in Of(q) : x <= r}
      BY <3>3, <2>1
    <3>5. {r \in Of(q) : x <= r} = Rest(x)
      BY <3>1
    <3>. QED  BY <3>4, <3>5, <2>4
  <2>. QED  BY <2>3, <2>4
<1>. HIDE DEF Rest
<1>3. g = Step(g)
  <2>1. ASSUME NEW q \in DOMAIN pages
        PROVE  g[q] = {q} \cup IF pages[q].next = NoPage THEN {} ELSE g[pages[q].next]
    <3>1. pages[q].next # NoPage => pages[q].next \in DOMAIN pages
      BY NextInChain
    <3>. QED  BY <3>1, <1>2
  <2>. QED  BY <2>1
<1>4. w = Step(w)
  <2>. HIDE DEF Step, g
  <2>. QED  BY <1>3
<1>. DEFINE Bad == {q \in DOMAIN pages : w[q] # Rest(q)}
<1>5. Bad = {}
  <2>. HIDE DEF w
  <2>. SUFFICES ASSUME Bad # {}
                PROVE  FALSE
    OBVIOUS
  <2>1. PICK q \in Bad : \A r \in Bad : r <= q
    <3>. HIDE DEF n, Bad
    <3>1. Bad \in SUBSET (1 .. n)
      BY <1>1 DEF Bad
    <3>. QED  BY <3>1, <1>1, MaxExists
  <2>2. w[q] = {q} \cup IF pages[q].next = NoPage THEN {} ELSE w[pages[q].next]
    BY <1>4
  <2>3. Rest(q) = {q} \cup IF pages[q].next = NoPage THEN {} ELSE Rest(pages[q].next)
    BY <1>2
  <2>4. pages[q].next # NoPage => w[pages[q].next] = Rest(pages[q].next)
    <3>1. ASSUME pages[q].next # NoPage
          PROVE  pages[q].next \in DOMAIN pages /\ q < pages[q].next
      BY <3>1, NextInChain
    <3>. SUFFICES ASSUME pages[q].next # NoPage
                  PROVE  w[pages[q].next] = Rest(pages[q].next)
      OBVIOUS
    <3>2. q \in Nat /\ pages[q].next \in Nat /\ q < pages[q].next
      BY <3>1, <1>1
    <3>3. pages[q].next \notin Bad
      <4>. HIDE DEF Bad, pages
      <4>1. ~(pages[q].next <= q)
        BY <3>2
      <4>. QED  BY <4>1, <2>1
    <3>. QED  BY <3>1, <3>3
  <2>. QED  BY <2>2, <2>3, <2>4
<1>6. IsFirst(Owned(D, s), D.index[s])
  BY DEF ChainOK
<1>7. Reachable(D, s) = IF D.index[s] = NoPage THEN {} ELSE w[D.index[s]]
  BY DEF Reachable
<1>. HIDE DEF w
<1>8. Owned(D, s) \in SUBSET (1 .. n)
  BY DiskPages
<1>9. CASE D.index[s] = NoPage
  BY <1>6, <1>7, <1>8, <1>9, <1>1 DEF IsFirst, NoPage
<1>10. CASE D.index[s] # NoPage
  <2>1. D.index[s] \in Owned(D, s) /\ \A q \in Owned(D, s) : D.index[s] <= q
    BY <1>6, <1>10 DEF IsFirst
  <2>2. D.index[s] \in DOMAIN pages /\ Of(D.index[s]) = Owned(D, s)
    BY <2>1 DEF Owned
  <2>3. Rest(D.index[s]) = Owned(D, s)
    BY <2>1, <2>2 DEF Rest
  <2>. QED  BY <1>7, <1>10, <2>2, <2>3, <1>5
<1>. QED  BY <1>9, <1>10

\* The invariant contains the type invariant.
LEMMA InvImpliesTypeOK == Inv => TypeOK
<1>. SUFFICES ASSUME Inv
              PROVE  TypeOK
  OBVIOUS
<1>1. /\ disk \in [Tsdbs -> Disk]
      /\ \A d \in Tsdbs : \A p \in DOMAIN disk[d].pages :
           \A t \in disk[d].pages[p].pts : TsdbOf(t) = d
  BY Zenon DEF Inv, StoreOK
<1>2. \A s \in Series : PageOK(disk, s, m_buff[s]) /\ PageOK(disk, s, m_ooo_buff[s])
  BY Zenon DEF Inv
<1>3. \A s \in Series : \A b \in {m_buff[s], m_ooo_buff[s]} :
        \A t \in b.pts : TsdbOf(t) = b.tsdb
  <2>. SUFFICES ASSUME NEW s \in Series, NEW b \in {m_buff[s], m_ooo_buff[s]}
                PROVE  \A t \in b.pts : TsdbOf(t) = b.tsdb
    OBVIOUS
  <2>1. PageOK(disk, s, b)
    BY <1>2, Zenon
  <2>. QED  BY <2>1, Zenon DEF PageOK
<1>4. /\ oooflag \in [Tsdbs -> [Series -> BOOLEAN]] /\ rolled \subseteq Tsdbs
      /\ m_buff \in [Series -> Page] /\ m_ooo_buff \in [Series -> Page]
      /\ accepted \in [Series -> SUBSET Tstamps]
  BY Zenon DEF Inv
<1>. QED  BY <1>1, <1>3, <1>4, Zenon DEF TypeOK

\* The invariant contains the three facts about chains.
LEMMA InvImpliesChains ==
  Inv => IndexIsFirst /\ Index2IsFirstCrossed /\ NextIsSuccessor
BY DEF Inv, StoreOK, ChainOK, IndexIsFirst, Index2IsFirstCrossed, NextIsSuccessor

\* The invariant contains the fact about the pages in memory.
LEMMA InvImpliesTail == Inv => BuffersPointAtTail
<1>. SUFFICES ASSUME Inv, NEW s \in Series, NEW b \in {m_buff[s], m_ooo_buff[s]}
              PROVE  b # NoBuff => IsLast(Owned(disk[b.tsdb], s), b.prev)
  BY Zenon DEF BuffersPointAtTail
<1>1. PageOK(disk, s, m_buff[s]) /\ PageOK(disk, s, m_ooo_buff[s])
  BY Zenon DEF Inv
<1>2. PageOK(disk, s, b)
  BY <1>1, Zenon
<1>. QED  BY <1>2, Zenon DEF PageOK

\* The invariant contains the fact about the flags.
LEMMA InvImpliesFlagged == Inv => OooFlagged
BY DEF Inv, FlagsOK, OooFlagged

\* The pages of a series are the ones a reader reaches, so no point is lost.
LEMMA InvImpliesNoPointLost == Inv => NoPointLost
<1>. SUFFICES ASSUME Inv, NEW s \in Series
              PROVE  accepted[s] = InMemory(s) \cup OnDisk(s)
  BY DEF NoPointLost
<1>1. \A d \in Tsdbs : Reachable(disk[d], s) = Owned(disk[d], s)
  BY ReachableIsOwned DEF Inv, StoreOK
<1>2. OnDisk(s) = Stored(disk, s)
  BY <1>1 DEF OnDisk, Stored
<1>. QED  BY <1>2 DEF Inv

\* The variables keep their types, and a page only holds points of its shard.
THEOREM TypeCorrect == Spec => []TypeOK
BY Invariance, InvImpliesTypeOK, PTL

\* The index entries and the next fields always describe, for each series,
\* exactly the pages it flushed to a shard, in the order it flushed them.
THEOREM ChainsCorrect == Spec => [](IndexIsFirst /\ Index2IsFirstCrossed /\ NextIsSuccessor)
BY Invariance, InvImpliesChains, PTL

\* Whichever of its two pages a series flushes next, the page is linked behind
\* the last page of the chain.
THEOREM TailCorrect == Spec => []BuffersPointAtTail
BY Invariance, InvImpliesTail, PTL

\* Out-of-order pages are announced by the flag in the index file.
THEOREM FlagsCorrect == Spec => []OooFlagged
BY Invariance, InvImpliesFlagged, PTL

\* Every data point add_data_point() accepted can be found by a reader.
THEOREM NothingLost == Spec => []NoPointLost
BY Invariance, InvImpliesNoPointLost, PTL

\* No step of the write path changes what an earlier one put on disk.
THEOREM NothingOverwritten == Spec => DiskOnlyGrows
<1>1. Inv /\ [Next]_vars => [OnlyAppends]_vars
  BY NextInv DEF Grows, OnlyAppends
<1>. QED  BY Invariance, <1>1, PTL DEF Spec, DiskOnlyGrows
=============================================================================
