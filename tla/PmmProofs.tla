------------------------------ MODULE PmmProofs ------------------------------
(***************************************************************************)
(* Proofs about Pmm, for every number of pages, memory map and request.    *)
(*                                                                         *)
(* 1. TypeCorrect: a local fact about every header in memory, reachable or *)
(*    not, is inductive and bounds everything the code computes.           *)
(* 2. ListInvariant: while the list is sound its chunks, as a set, are     *)
(*    what Listing says; each routine of llallocator.cppm keeps that.      *)
(* 3. What the runs check follows from Listing, and every step is one of   *)
(*    PageSet.                                                             *)
(***************************************************************************)
EXTENDS Pmm, NaturalsInduction, WellFoundedInduction, TLAPS

-----------------------------------------------------------------------------
(* Least numbers, and functions defined from one value to the next.        *)

\* A set of naturals that is not empty has a least member.
LEMMA LeastNumber ==
    ASSUME NEW S \in SUBSET Nat, S # {}
    PROVE  \E m \in S : \A k \in S : m <= k
<1>1. PICK m \in S : \A k \in S : ~(<<k, m>> \in OpToRel(<, Nat))
    BY NatLessThanWellFounded, WFMin
<1>2. \A k \in S : ~(k < m) BY <1>1 DEF OpToRel
<1> QED BY <1>2

\* g takes the value x at 1, and f of the value before everywhere else up to n.
Visited(x, f, n, g) == g = [k \in 1..n |-> IF k = 1 THEN x ELSE f[g[k - 1]]]

\* There is such a function: a counterexample of least n extends the one below it.
LEMMA VisitsExist ==
    ASSUME NEW x, NEW f, NEW n \in Nat
    PROVE  \E g : Visited(x, f, n, g)
<1> DEFINE Bad == {m \in Nat : ~ \E g : Visited(x, f, m, g)}
<1> SUFFICES ASSUME Bad # {} PROVE FALSE OBVIOUS
<1>1. PICK m \in Bad : \A k \in Bad : m <= k BY LeastNumber
<1>2. m # 0
  <2>1. Visited(x, f, 0, [k \in 1..0 |-> x]) BY DEF Visited
  <2> QED BY <2>1
<1>3. PICK g : Visited(x, f, m - 1, g) BY <1>1, <1>2
<1> DEFINE h == [k \in 1..m |-> IF k = m THEN IF m = 1 THEN x ELSE f[g[m - 1]] ELSE g[k]]
<1>4. \A k \in 1..m : h[k] = IF k = 1 THEN x ELSE f[h[k - 1]]
  <2> SUFFICES ASSUME NEW k \in 1..m PROVE h[k] = IF k = 1 THEN x ELSE f[h[k - 1]] OBVIOUS
  <2>1. m \in Nat BY <1>1
  <2>2. CASE k = m
    <3>1. k # 1 => h[k - 1] = g[k - 1] BY <2>1, <2>2
    <3> QED BY <2>1, <2>2, <3>1
  <2>3. CASE k # m
    <3>1. k \in 1..(m - 1) BY <2>1, <2>3
    <3>2. g[k] = IF k = 1 THEN x ELSE f[g[k - 1]] BY <1>3, <3>1 DEF Visited
    <3>3. k # 1 => h[k - 1] = g[k - 1] BY <2>1, <2>3
    <3>4. h[k] = g[k] BY <2>3
    <3> QED BY <3>2, <3>3, <3>4
  <2> QED BY <2>2, <2>3
<1>5. Visited(x, f, m, h) BY <1>4 DEF Visited
<1> QED BY <1>1, <1>5

\* So the traversal of the code reads front, and then one pointer after the other.
LEMMA VisitsFollow ==
    ASSUME NEW l
    PROVE  /\ DOMAIN Visits(l) = Page
           /\ \A k \in Page : Visits(l)[k] = IF k = 1 THEN l.front ELSE Follow(l)[Visits(l)[k - 1]]
<1>1. NumPages \in Nat BY PmmAssumption
<1>2. PICK g : Visited(l.front, Follow(l), NumPages, g) BY <1>1, VisitsExist
<1>3. Visited(l.front, Follow(l), NumPages, Visits(l)) BY <1>2 DEF Visited, Visits, Page
<1> QED BY <1>3 DEF Visited, Page

-----------------------------------------------------------------------------
(* Sound lists.                                                            *)

\* The free list l has the chunks C: they lie inside memory, sorted by address and not
\* touching, and next and prev are the neighbours in that order.
Placed(l, C) ==
    /\ C \subseteq Page
    /\ \A p \in C : /\ l.mem[p] \in Node
                    /\ l.mem[p].size >= 1
                    /\ p + l.mem[p].size - 1 <= NumPages
    /\ \A p, q \in C : p < q => p + l.mem[p].size < q

Ends(l, C) ==
    IF C = {} THEN l.front = Null /\ l.back = Null
    ELSE /\ l.front \in C /\ \A p \in C : l.front <= p
         /\ l.back \in C /\ \A p \in C : p <= l.back

NextIs(l, C, p) ==
    IF p = l.back THEN l.mem[p].next = Null
    ELSE /\ l.mem[p].next \in C /\ p < l.mem[p].next
         /\ \A q \in C : p < q => l.mem[p].next <= q

PrevIs(l, C, p) ==
    IF p = l.front THEN l.mem[p].prev = Null
    ELSE /\ l.mem[p].prev \in C /\ l.mem[p].prev < p
         /\ \A q \in C : q < p => q <= l.mem[p].prev

Listing(l, C) ==
    /\ Placed(l, C)
    /\ Ends(l, C)
    /\ \A p \in C : NextIs(l, C, p) /\ PrevIs(l, C, p)

\* In a sound list next and prev undo each other.
LEMMA Neighbours ==
    ASSUME NEW l, NEW C, Listing(l, C), NEW p \in C
    PROVE  /\ p # l.back => l.mem[l.mem[p].next].prev = p
           /\ p # l.front => l.mem[l.mem[p].prev].next = p
<1>1. C \subseteq Nat BY PmmAssumption DEF Listing, Placed, Page
<1>2. /\ l.front \in C /\ \A q \in C : l.front <= q
      /\ l.back \in C /\ \A q \in C : q <= l.back
  BY DEF Listing, Ends
<1>3. \A q \in C : NextIs(l, C, q) /\ PrevIs(l, C, q) BY DEF Listing
<1>4. ASSUME p # l.back PROVE l.mem[l.mem[p].next].prev = p
  <2>1. PICK n \in C : n = l.mem[p].next /\ p < n /\ \A q \in C : p < q => n <= q
    BY <1>3, <1>4 DEF NextIs
  <2>2. n # l.front BY <1>1, <1>2, <2>1
  <2>3. PICK r \in C : r = l.mem[n].prev /\ r < n /\ p <= r BY <1>3, <2>1, <2>2 DEF PrevIs
  <2> QED BY <1>1, <2>1, <2>3
<1>5. ASSUME p # l.front PROVE l.mem[l.mem[p].prev].next = p
  <2>1. PICK n \in C : n = l.mem[p].prev /\ n < p /\ \A q \in C : q < p => q <= n
    BY <1>3, <1>5 DEF PrevIs
  <2>2. n # l.back BY <1>1, <1>2, <2>1
  <2>3. PICK r \in C : r = l.mem[n].next /\ n < r /\ r <= p BY <1>3, <2>1, <2>2 DEF NextIs
  <2> QED BY <1>1, <2>1, <2>3
<1> QED BY <1>4, <1>5

\* The traversal visits exactly the chunks C, in order of their addresses.
Walks(l, C, m) ==
    /\ m <= NumPages
    /\ DOMAIN Chain(l) = 1..m
    /\ m = 0 <=> C = {}
    /\ m # 0 => Chain(l)[1] = l.front /\ Chain(l)[m] = l.back
    /\ \A k \in 1..m : Chain(l)[k] \in C
    /\ \A k \in 1..m : k # m => l.mem[Chain(l)[k]].next = Chain(l)[k + 1]
    /\ \A p \in C : \E k \in 1..m : Chain(l)[k] = p
    /\ \A i, j \in 1..m : i < j => Chain(l)[i] < Chain(l)[j]

LEMMA ChainWalks ==
    ASSUME NEW l, NEW C, Listing(l, C)
    PROVE  \E m \in Nat : Walks(l, C, m)
<1> DEFINE v == Visits(l)
           H == {k \in Page : IsHeader(l, v[k])}
<1>0. NumPages \in Nat /\ NumPages >= 1 /\ Null \notin Page /\ Unknown \notin Node
  BY PmmAssumption
<1>1. /\ v[1] = l.front
      /\ \A k \in Page : k # 1 => v[k] = Follow(l)[v[k - 1]]
  BY VisitsFollow, <1>0 DEF Page
<1>2. \A p \in C : /\ IsHeader(l, p)
                   /\ Follow(l)[p] = l.mem[p].next
                   /\ p = l.back \/ (Follow(l)[p] \in C /\ p < Follow(l)[p])
                   /\ Follow(l)[p] \in C \cup {Null}
  BY <1>0 DEF Listing, Placed, NextIs, Follow, IsHeader, Ptr
<1>3. Follow(l)[Null] = Null /\ ~IsHeader(l, Null) BY <1>0 DEF Follow, IsHeader, Ptr
<1>4. \A k \in Page : v[k] \in C \cup {Null}
  <2> DEFINE Bad == {k \in Page : v[k] \notin C \cup {Null}}
  <2> SUFFICES ASSUME Bad # {} PROVE FALSE OBVIOUS
  <2>1. PICK k \in Bad : \A j \in Bad : k <= j BY LeastNumber, Bad \subseteq Nat DEF Page
  <2>2. v[1] \in C \cup {Null} BY <1>1 DEF Listing, Ends
  <2>3. k # 1 /\ k - 1 \in Page /\ v[k - 1] \in C \cup {Null} BY <2>1, <2>2, <1>0 DEF Page
  <2> QED BY <2>1, <2>3, <1>1, <1>2, <1>3
<1>5. \A k \in Page : k \in H <=> v[k] \in C BY <1>2, <1>3, <1>4
<1>6. \A k \in H : k # 1 => k - 1 \in H /\ v[k - 1] < v[k]
  <2> SUFFICES ASSUME NEW k \in H, k # 1 PROVE k - 1 \in H /\ v[k - 1] < v[k] OBVIOUS
  <2>1. k - 1 \in Page BY <1>0 DEF Page
  <2>2. v[k] = Follow(l)[v[k - 1]] /\ v[k] \in C BY <1>1, <1>5
  <2>3. v[k - 1] \in C BY <2>1, <2>2, <1>3, <1>4, <1>5
  <2>4. v[k - 1] # l.back BY <2>2, <2>3, <1>0, <1>2, <1>3 DEF Listing, Placed, NextIs
  <2> QED BY <2>1, <2>2, <2>3, <2>4, <1>2, <1>5
<1>7. \A k \in H : v[k] \in Page /\ k <= v[k]
  <2> DEFINE Bad == {k \in H : ~(k <= v[k])}
  <2>0. \A k \in H : v[k] \in Page BY <1>5 DEF Listing, Placed
  <2> SUFFICES ASSUME Bad # {} PROVE FALSE BY <2>0
  <2>1. PICK k \in Bad : \A j \in Bad : k <= j BY LeastNumber, Bad \subseteq Nat DEF Page
  <2>2. k # 1 BY <2>0, <2>1 DEF Page
  <2>3. k - 1 \in H /\ v[k - 1] < v[k] BY <2>1, <2>2, <1>6
  <2>4. k - 1 <= v[k - 1] BY <2>1, <2>3 DEF Page
  <2> QED BY <2>0, <2>1, <2>3, <2>4 DEF Page
<1>8. \E m \in Nat : m <= NumPages /\ H = 1..m
  <2> DEFINE Out == {k \in 1..(NumPages + 1) : k \notin H}
  <2>1. NumPages + 1 \in Out BY <1>0 DEF Page
  <2>2. PICK k \in Out : \A j \in Out : k <= j BY <2>1, LeastNumber, Out \subseteq Nat
  <2>3. 1..(k - 1) \subseteq H BY <2>2, <1>0 DEF Page
  <2>4. \A j \in H : j < k
    <3> DEFINE Bad == {j \in H : k <= j}
    <3> SUFFICES ASSUME Bad # {} PROVE FALSE BY <2>2 DEF Page
    <3>1. PICK j \in Bad : \A i \in Bad : j <= i BY LeastNumber, Bad \subseteq Nat DEF Page
    <3>2. j # k /\ k < j /\ j # 1 BY <3>1, <2>2 DEF Page
    <3>3. j - 1 \in H /\ k <= j - 1 BY <3>1, <3>2, <2>2, <1>6 DEF Page
    <3> QED BY <3>1, <3>3 DEF Page
  <2>5. H = 1..(k - 1) BY <2>3, <2>4, <2>2 DEF Page
  <2> QED BY <2>5, <2>2, <1>0
<1>9. PICK m \in Nat : m <= NumPages /\ H = 1..m BY <1>8
<1>10. /\ DOMAIN Chain(l) = 1..m
       /\ \A k \in 1..m : Chain(l)[k] = v[k] /\ v[k] \in C /\ k <= v[k] /\ v[k] \in Page
       /\ \A k \in 1..m : k # 1 => v[k - 1] < v[k]
       /\ \A k \in 1..m : k # m => k + 1 \in 1..m /\ v[k + 1] = l.mem[v[k]].next
  <2>1. DOMAIN Chain(l) = H /\ \A k \in H : Chain(l)[k] = v[k] BY DEF Chain, Restrict
  <2>2. \A k \in H : k # m => k + 1 \in H /\ v[k + 1] = l.mem[v[k]].next
    <3> SUFFICES ASSUME NEW k \in H, k # m PROVE k + 1 \in H /\ v[k + 1] = l.mem[v[k]].next OBVIOUS
    <3>1. k + 1 \in H /\ k + 1 \in Page /\ k + 1 # 1 /\ k + 1 - 1 = k /\ k \in Nat BY <1>9
    <3>2. v[k + 1] = Follow(l)[v[(k + 1) - 1]] BY <3>1, <1>1
    <3>3. v[(k + 1) - 1] = v[k] BY <3>1
    <3>4. v[k] \in C BY <1>5
    <3> QED BY <3>1, <3>2, <3>3, <3>4, <1>2
  <2> HIDE DEF v
  <2>3. \A k \in H : v[k] \in C BY <1>5
  <2> QED BY <2>1, <2>2, <2>3, <1>6, <1>7, <1>9
<1>11. m = 0 <=> C = {}
  <2>1. CASE C = {} BY <2>1, <1>10
  <2>2. CASE C # {}
    <3>1. 1 \in H BY <2>2, <1>0, <1>1, <1>5 DEF Listing, Ends, Page
    <3> QED BY <2>2, <3>1, <1>9
  <2> QED BY <2>1, <2>2
<1>12. ASSUME m # 0 PROVE Chain(l)[1] = l.front /\ Chain(l)[m] = l.back
  <2>1. 1 \in 1..m /\ m \in 1..m BY <1>12
  <2>2. Chain(l)[1] = l.front BY <2>1, <1>1, <1>10
  <2>3. ASSUME v[m] # l.back PROVE FALSE
    <3>1. v[m] \in C /\ Follow(l)[v[m]] \in C /\ v[m] < Follow(l)[v[m]] /\ m <= v[m]
      BY <2>1, <2>3, <1>2, <1>10
    <3>2. Follow(l)[v[m]] \in Page /\ v[m] \in Page BY <3>1 DEF Listing, Placed
    <3>3. m + 1 \in Page /\ m + 1 # 1 /\ m + 1 - 1 = m BY <3>1, <3>2, <1>0, <1>12 DEF Page
    <3>4. v[m + 1] \in C BY <3>1, <3>3, <1>1
    <3> QED BY <3>3, <3>4, <1>5, <1>9
  <2> QED BY <2>1, <2>2, <2>3, <1>10
<1>13. \A p \in C : \E k \in 1..m : Chain(l)[k] = p
  <2> DEFINE Bad == {p \in C : ~ \E k \in 1..m : v[k] = p}
  <2> SUFFICES ASSUME Bad # {} PROVE FALSE BY <1>10
  <2>0. C \subseteq Page BY DEF Listing, Placed
  <2> DEFINE Least(p) == p \in Bad /\ \A q \in Bad : p <= q
  <2>1. \E p : Least(p)
    <3>1. C \subseteq Nat BY <2>0, <1>0 DEF Page
    <3>2. Bad \subseteq C OBVIOUS
    <3> HIDE DEF Bad
    <3>3. Bad \in SUBSET Nat BY <3>1, <3>2
    <3> QED BY <3>3, LeastNumber
  <2>2. PICK p : Least(p) BY <2>1
  <2>3. p # l.front
    <3>1. 1 \in 1..m BY <2>2, <1>11
    <3> QED BY <3>1, <2>2, <1>1
  <2>4. l.mem[p].prev \in C /\ l.mem[p].prev < p BY <2>2, <2>3 DEF Listing, PrevIs
  <2>5. l.mem[p].prev \notin Bad
    <3>0. p \in C BY <2>2
    <3>a. C \subseteq Nat BY <2>0, <1>0 DEF Page
    <3>1. l.mem[p].prev \in Nat /\ p \in Nat BY <3>0, <3>a, <2>4
    <3>2. ~(p <= l.mem[p].prev) BY <3>1, <2>4
    <3> HIDE DEF Bad
    <3> QED BY <3>2, <2>2
  <2>6. PICK k \in 1..m : v[k] = l.mem[p].prev BY <2>4, <2>5
  <2>7. l.mem[v[k]].next = p BY <2>2, <2>3, <2>6, Neighbours
  <2>8. k # m
    <3>1. ASSUME k = m PROVE l.mem[p].prev = l.back BY <3>1, <2>6, <1>10, <1>12
    <3>2. p <= l.back /\ l.back \in Page /\ p \in Page BY <2>0, <2>2 DEF Listing, Ends
    <3> QED BY <2>4, <3>1, <3>2, <1>0 DEF Page
  <2> QED BY <2>2, <2>7, <2>8, <1>10
<1>14. \A i, j \in 1..m : i < j => Chain(l)[i] < Chain(l)[j]
  <2> DEFINE Bad == {j \in 1..m : \E i \in 1..m : i < j /\ ~(v[i] < v[j])}
  <2> SUFFICES ASSUME Bad # {} PROVE FALSE BY <1>10
  <2>1. PICK j \in Bad : \A i \in Bad : j <= i BY LeastNumber, Bad \subseteq Nat
  <2>2. PICK i \in 1..m : i < j /\ ~(v[i] < v[j]) BY <2>1
  <2>3. j - 1 \in 1..m /\ j # 1 /\ v[j - 1] < v[j] BY <2>1, <2>2, <1>10
  <2>4. i < j - 1 BY <2>2, <2>3
  <2>5. v[i] < v[j - 1] BY <2>1, <2>2, <2>3, <2>4
  <2>6. v[i] \in Int /\ v[j] \in Int /\ v[j - 1] \in Int BY <2>1, <2>2, <2>3, <1>0, <1>10 DEF Page
  <2> QED BY <2>2, <2>3, <2>5, <2>6
<1>15. /\ DOMAIN Chain(l) = 1..m
       /\ \A k \in 1..m : Chain(l)[k] \in C
       /\ \A k \in 1..m : k # m => l.mem[Chain(l)[k]].next = Chain(l)[k + 1]
  <2> HIDE DEF v
  <2> QED BY <1>10
<1> HIDE DEF v, H
<1> QED BY <1>9, <1>11, <1>12, <1>13, <1>14, <1>15 DEF Walks

-----------------------------------------------------------------------------
(* Types.  No header in memory, stale or not, reaches past the last page;  *)
(* the routines need nothing else of the list to stay in bounds.           *)

List == [mem : [Page -> Node \cup {Unknown}], front : Ptr, back : Ptr, fault : {"none", "list", "memset"}]
EndsInside(l) == \A p \in Page : IsHeader(l, p) => p + l.mem[p].size - 1 <= NumPages
Typed(l) == l \in List /\ EndsInside(l)
RunInside(c, n) == c \in Page /\ n \in 1..NumPages /\ c + n - 1 <= NumPages

\* One assignment at a time.
LEMMA AssignTyped ==
    ASSUME NEW l, Typed(l), NEW q \in Page
    PROVE  /\ \A x \in Ptr : IsHeader(l, q) =>
                 /\ Typed([l EXCEPT !.mem[q].next = x])
                 /\ \A r : IsHeader([l EXCEPT !.mem[q].next = x], r) <=> IsHeader(l, r)
           /\ \A x \in Ptr : IsHeader(l, q) =>
                 /\ Typed([l EXCEPT !.mem[q].prev = x])
                 /\ \A r : IsHeader([l EXCEPT !.mem[q].prev = x], r) <=> IsHeader(l, r)
           /\ \A k \in 0..NumPages : IsHeader(l, q) /\ q + k - 1 <= NumPages =>
                 /\ Typed([l EXCEPT !.mem[q].size = k])
                 /\ \A r : IsHeader([l EXCEPT !.mem[q].size = k], r) <=> IsHeader(l, r)
           /\ \A nd \in Node : q + nd.size - 1 <= NumPages => Typed([l EXCEPT !.mem[q] = nd])
           /\ \A x \in Ptr : Typed([l EXCEPT !.front = x]) /\ Typed([l EXCEPT !.back = x])
           /\ Typed(Fault(l))
<1> USE PmmAssumption DEF Typed, List, EndsInside, IsHeader, Node
<1>1. ASSUME NEW x \in Ptr, IsHeader(l, q)
      PROVE  /\ Typed([l EXCEPT !.mem[q].next = x])
             /\ \A r : IsHeader([l EXCEPT !.mem[q].next = x], r) <=> IsHeader(l, r)
  BY <1>1
<1>2. ASSUME NEW x \in Ptr, IsHeader(l, q)
      PROVE  /\ Typed([l EXCEPT !.mem[q].prev = x])
             /\ \A r : IsHeader([l EXCEPT !.mem[q].prev = x], r) <=> IsHeader(l, r)
  BY <1>2
<1>3. ASSUME NEW k \in 0..NumPages, IsHeader(l, q), q + k - 1 <= NumPages
      PROVE  /\ Typed([l EXCEPT !.mem[q].size = k])
             /\ \A r : IsHeader([l EXCEPT !.mem[q].size = k], r) <=> IsHeader(l, r)
  BY <1>3
<1>4. ASSUME NEW nd \in Node, q + nd.size - 1 <= NumPages PROVE Typed([l EXCEPT !.mem[q] = nd])
  BY <1>4
<1>5. ASSUME NEW x \in Ptr PROVE Typed([l EXCEPT !.front = x]) /\ Typed([l EXCEPT !.back = x])
  BY <1>5
<1>6. Typed(Fault(l)) BY DEF Fault
<1> QED BY <1>1, <1>2, <1>3, <1>4, <1>5, <1>6

LEMMA StoreTyped ==
    ASSUME NEW l, Typed(l), NEW p, NEW value \in Ptr, NEW field \in {"next", "prev"}
    PROVE  /\ Typed(Store(l, p, field, value))
           /\ \A r : IsHeader(Store(l, p, field, value), r) <=> IsHeader(l, r)
           /\ \A r \in Page : IsHeader(l, r) => Store(l, p, field, value).mem[r].size = l.mem[r].size
<1>1. CASE ~IsHeader(l, p) BY <1>1 DEF Typed, List, EndsInside, IsHeader, Fault, Store
<1>2. CASE IsHeader(l, p) /\ field = "next"
  BY <1>2, PmmAssumption DEF Typed, List, EndsInside, IsHeader, Store, Node
<1>3. CASE IsHeader(l, p) /\ field = "prev"
  BY <1>3, PmmAssumption DEF Typed, List, EndsInside, IsHeader, Store, Node
<1> QED BY <1>1, <1>2, <1>3

LEMMA AppendTyped ==
    ASSUME NEW l, Typed(l), NEW c, NEW n, RunInside(c, n), IsHeader(l, c)
    PROVE  Typed(AppendChunk(l, c, n))
<1> USE DEF RunInside
<1>1. CASE ~IsHeader(l, l.back) BY <1>1, AssignTyped DEF AppendChunk
<1>2. CASE IsHeader(l, l.back) /\ l.back + l.mem[l.back].size = c
  <2>1. /\ l.back \in Page /\ l.mem[l.back].size + n \in 0..NumPages
        /\ l.back + (l.mem[l.back].size + n) - 1 <= NumPages
    BY <1>2, PmmAssumption DEF Typed, List, Node, IsHeader, Page
  <2> QED BY <1>2, <2>1, AssignTyped DEF AppendChunk
<1>3. CASE IsHeader(l, l.back) /\ l.back + l.mem[l.back].size # c
  <2> DEFINE l1 == [l EXCEPT !.mem[l.back].next = c]
             l2 == [l1 EXCEPT !.mem[c].prev = l.back]
  <2>1. l.back \in Ptr /\ l.back \in Page /\ c \in Ptr BY <1>3 DEF Typed, List, IsHeader, Ptr
  <2>2. Typed(l1) /\ IsHeader(l1, c) BY <1>3, <2>1, AssignTyped
  <2>3. Typed(l2)
    <3> HIDE DEF l1
    <3> QED BY <2>1, <2>2, AssignTyped
  <2>4. Typed([l2 EXCEPT !.back = c])
    <3> HIDE DEF l2
    <3> QED BY <2>1, <2>3, AssignTyped
  <2> QED BY <1>3, <2>4 DEF AppendChunk
<1> QED BY <1>1, <1>2, <1>3

LEMMA PrependTyped ==
    ASSUME NEW l, Typed(l), NEW c, NEW n, RunInside(c, n), IsHeader(l, c)
    PROVE  Typed(PrependChunk(l, c, n))
<1> USE DEF RunInside
<1>1. CASE ~IsHeader(l, l.front) BY <1>1, AssignTyped DEF PrependChunk
<1>2. CASE IsHeader(l, l.front) /\ c + n = l.front
  <2> DEFINE l1 == [l EXCEPT !.mem[c].size = l.mem[l.front].size + n]
             l2 == [l1 EXCEPT !.mem[c].next = l.mem[l.front].next]
  <2>1. /\ l.front \in Page /\ l.mem[l.front].size + n \in 0..NumPages
        /\ c + (l.mem[l.front].size + n) - 1 <= NumPages
        /\ l.mem[l.front].next \in Ptr /\ c \in Ptr
    BY <1>2, PmmAssumption DEF Typed, List, EndsInside, Node, IsHeader, Page, Ptr
  <2>2. Typed(l1) /\ IsHeader(l1, c) BY <2>1, AssignTyped
  <2>3. Typed(l2)
    <3> HIDE DEF l1
    <3> QED BY <2>1, <2>2, AssignTyped
  <2>4. Typed([l2 EXCEPT !.front = c])
    <3> HIDE DEF l2
    <3> QED BY <2>1, <2>3, AssignTyped
  <2> QED BY <1>2, <2>4 DEF PrependChunk
<1>3. CASE IsHeader(l, l.front) /\ c + n # l.front
  <2> DEFINE l1 == [l EXCEPT !.mem[c].next = l.front]
             l2 == [l1 EXCEPT !.mem[c].prev = Null]
  <2>1. l.front \in Ptr /\ Null \in Ptr /\ c \in Ptr BY DEF Typed, List, Ptr
  <2>2. Typed(l1) /\ IsHeader(l1, c) BY <2>1, AssignTyped
  <2>3. Typed(l2)
    <3> HIDE DEF l1
    <3> QED BY <2>1, <2>2, AssignTyped
  <2>4. Typed([l2 EXCEPT !.front = c])
    <3> HIDE DEF l2
    <3> QED BY <2>1, <2>3, AssignTyped
  <2> QED BY <1>3, <2>4 DEF PrependChunk
<1> QED BY <1>1, <1>2, <1>3

LEMMA InsertBetweenTyped ==
    ASSUME NEW l, Typed(l), NEW c \in Page, IsHeader(l, c), NEW left \in Ptr, NEW right \in Ptr
    PROVE  Typed(InsertBetween(l, c, left, right))
<1> DEFINE l1 == IF left = Null THEN l ELSE Store(l, left, "next", c)
           l2 == IF right = Null THEN l1 ELSE Store(l1, right, "prev", c)
           l3 == [l2 EXCEPT !.mem[c].next = right]
<1>0. c \in Ptr BY DEF Ptr
<1>1. Typed(l1) /\ IsHeader(l1, c) BY <1>0, StoreTyped
<1> HIDE DEF l1
<1>2. Typed(l2) /\ IsHeader(l2, c) BY <1>0, <1>1, StoreTyped
<1> HIDE DEF l2
<1>3. Typed(l3) /\ IsHeader(l3, c) BY <1>2, AssignTyped
<1> HIDE DEF l3
<1>4. Typed([l3 EXCEPT !.mem[c].prev = left]) BY <1>3, AssignTyped
<1>5. [l3 EXCEPT !.mem[c].prev = left] = InsertBetween(l, c, left, right)
  BY DEF l1, l2, l3, InsertBetween
<1> QED BY <1>4, <1>5

LEMMA MergeLeftTyped ==
    ASSUME NEW l, Typed(l), NEW c, NEW n, RunInside(c, n), NEW p \in Page, IsHeader(l, p),
           p + l.mem[p].size = c
    PROVE  Typed(MergeLeft(l, p, c, n))
<1> DEFINE size == l.mem[p].size + n
           grown == [l EXCEPT !.mem[p].size = size]
           next == l.mem[p].next
           far == l.mem[next].next
           g1 == Store(grown, far, "prev", p)
           g2 == [g1 EXCEPT !.mem[p].size = @ + Swallowed(l, next)]
<1>1. /\ size \in 0..NumPages /\ p + size - 1 <= NumPages /\ p \in Ptr /\ l.mem[p].size \in Nat
      /\ p \in Nat /\ p >= 1
  BY PmmAssumption DEF Typed, List, Node, IsHeader, Page, RunInside, Ptr
<1>2. /\ Typed(grown) /\ IsHeader(grown, p) /\ grown.mem[p].size = size
      /\ \A r : IsHeader(grown, r) <=> IsHeader(l, r)
  <2>1. grown.mem[p].size = size BY DEF Typed, List, IsHeader, Node
  <2> QED BY <2>1, <1>1, AssignTyped
<1>3. Typed(Fault(grown)) BY <1>2, AssignTyped
<1>4. ASSUME next # Null, p + size = next, IsHeader(l, next)
      PROVE  Typed(Store(g2, p, "next", far))
  <2>1. /\ far \in Ptr /\ next \in Page /\ l.mem[next].size \in 0..NumPages
        /\ next + l.mem[next].size - 1 <= NumPages
    BY <1>4 DEF Typed, List, EndsInside, Node, IsHeader
  <2>2. Typed(g1) /\ IsHeader(g1, p) /\ g1.mem[p].size = size
    <3> HIDE DEF grown, size
    <3> QED BY <1>1, <1>2, <2>1, StoreTyped
  <2>3. size + l.mem[next].size \in 0..NumPages /\ p + (size + l.mem[next].size) - 1 <= NumPages
    <3> HIDE DEF size, next
    <3>1. NumPages \in Nat BY PmmAssumption
    <3> QED BY <1>1, <1>4, <2>1, <3>1
  <2>4. Typed(g2)
    <3> HIDE DEF g1, size
    <3>1. g2 = [g1 EXCEPT !.mem[p].size = size + l.mem[next].size] BY <2>2 DEF Swallowed
    <3> QED BY <2>2, <2>3, <3>1, AssignTyped
  <2> HIDE DEF g2
  <2> QED BY <2>1, <2>4, StoreTyped
<1>5. MergeLeft(l, p, c, n) =
        IF next = Null \/ p + grown.mem[p].size # next THEN grown
        ELSE IF ~IsHeader(l, next) THEN Fault(grown)
        ELSE Store(g2, p, "next", far)
  BY DEF MergeLeft
<1> HIDE DEF grown, next, far, g1, g2, size
<1> QED BY <1>2, <1>3, <1>4, <1>5

LEMMA MergeRightTyped ==
    ASSUME NEW l, Typed(l), NEW c, NEW n, RunInside(c, n), NEW p \in Page, IsHeader(l, p), c + n = p
    PROVE  Typed(MergeRight(l, p, c, n))
<1> DEFINE old == l.mem[p]
           nd == [size |-> n + old.size, next |-> old.next, prev |-> old.prev]
           l1 == [l EXCEPT !.mem[c] = nd]
           l2 == Store(l1, old.next, "prev", c)
<1>1. old \in Node /\ p + old.size - 1 <= NumPages BY DEF Typed, List, EndsInside, IsHeader
<1>2. nd \in Node /\ c + nd.size - 1 <= NumPages /\ c \in Page /\ c \in Ptr
  <2>1. old.size \in 0..NumPages /\ old.next \in Ptr /\ old.prev \in Ptr BY <1>1 DEF Node
  <2> HIDE DEF old
  <2>2. n + old.size \in 0..NumPages /\ c + (n + old.size) - 1 <= NumPages /\ c \in Page
    BY <1>1, <2>1, PmmAssumption DEF RunInside, Page
  <2> QED BY <2>1, <2>2 DEF Node, Ptr
<1>3. Typed(l1)
  <2> HIDE DEF nd
  <2> QED BY <1>2, AssignTyped
<1> HIDE DEF l1
<1>4. Typed(l2) BY <1>1, <1>2, <1>3, StoreTyped DEF Node
<1> HIDE DEF l2
<1>5. Typed(Store(l2, old.prev, "next", c)) BY <1>1, <1>2, <1>4, StoreTyped DEF Node
<1> QED BY <1>5 DEF MergeRight, l1, l2

\* What CHOOSE picks in "the first k such that".
LEMMA FirstIndex ==
    ASSUME NEW S \in SUBSET Nat, S # {}
    PROVE  /\ (CHOOSE k \in S : \A j \in S : k <= j) \in S
           /\ \A j \in S : (CHOOSE k \in S : \A i \in S : k <= i) <= j
  BY LeastNumber

LEMMA ChainOfHeaders ==
    ASSUME NEW l
    PROVE  /\ DOMAIN Chain(l) \subseteq Page
           /\ \A k \in DOMAIN Chain(l) : IsHeader(l, Chain(l)[k])
  BY DEF Chain, Restrict

LEMMA InsertTyped ==
    ASSUME NEW l, Typed(l), NEW c, NEW n, RunInside(c, n), IsHeader(l, c)
    PROVE  Typed(InsertChunk(l, c, n))
<1> DEFINE stops == {k \in DOMAIN Chain(l) : Stops(l, Chain(l)[k], c)}
           first == CHOOSE k \in stops : \A j \in stops : k <= j
           p == Chain(l)[first]
<1>1. CASE stops = {} BY <1>1, RunInside(c, n), AssignTyped DEF InsertChunk, RunInside
<1>2. CASE stops # {}
  <2>1. stops \in SUBSET Nat BY ChainOfHeaders, PmmAssumption DEF Page
  <2>2. first \in stops
    <3> HIDE DEF stops
    <3> QED BY <1>2, <2>1, FirstIndex
  <2>3. IsHeader(l, p) /\ p \in Page /\ Stops(l, p, c)
    <3> HIDE DEF first
    <3> QED BY <2>2, ChainOfHeaders DEF IsHeader
  <2> DEFINE q == p
  <2> HIDE DEF first, stops
  <2>4. InsertChunk(l, c, n) =
          IF p < c THEN MergeLeft(l, p, c, n)
          ELSE IF c + n = p THEN MergeRight(l, p, c, n)
          ELSE InsertBetween(l, c, l.mem[p].prev, p)
    BY <1>2 DEF InsertChunk, first, stops
  <2>5. p < c => p + l.mem[p].size = c BY <2>3, PmmAssumption DEF Stops, Page, RunInside
  <2>6. l.mem[p].prev \in Ptr /\ p \in Ptr /\ c \in Page
    BY <2>3 DEF Typed, List, Node, IsHeader, Ptr, RunInside
  <2>7. p < c => Typed(MergeLeft(l, p, c, n)) BY <2>3, <2>5, MergeLeftTyped
  <2>8. c + n = p => Typed(MergeRight(l, p, c, n)) BY <2>3, MergeRightTyped
  <2>9. Typed(InsertBetween(l, c, l.mem[p].prev, p)) BY <2>6, InsertBetweenTyped
  <2> QED BY <2>4, <2>7, <2>8, <2>9
<1> QED BY <1>1, <1>2

LEMMA AddTyped ==
    ASSUME NEW l, Typed(l), NEW c, NEW n, RunInside(c, n)
    PROVE  Typed(AddChunk(l, c, n))
<1> DEFINE nd == [size |-> n, next |-> Null, prev |-> Unknown]
           fresh == [l EXCEPT !.mem[c] = nd]
<1>1. nd \in Node /\ nd.size = n /\ c \in Page /\ c \in Ptr /\ Null \in Ptr
  BY PmmAssumption DEF Node, RunInside, Ptr
<1>2. Typed(fresh)
  <2>1. c + nd.size - 1 <= NumPages BY <1>1 DEF RunInside
  <2> HIDE DEF nd
  <2> QED BY <1>1, <2>1, AssignTyped
<1>3. IsHeader(fresh, c) BY <1>1, PmmAssumption DEF IsHeader, Typed, List
<1>4. Typed([fresh EXCEPT !.front = c, !.back = c, !.mem[c].prev = Null])
  <2> DEFINE l1 == [fresh EXCEPT !.front = c]
             l2 == [l1 EXCEPT !.back = c]
  <2>1. Typed(l1) /\ IsHeader(l1, c)
    <3> HIDE DEF fresh
    <3> QED BY <1>1, <1>2, <1>3, AssignTyped DEF IsHeader, Typed, List
  <2>2. Typed(l2) /\ IsHeader(l2, c)
    <3> HIDE DEF l1
    <3> QED BY <1>1, <2>1, AssignTyped DEF IsHeader, Typed, List
  <2>3. Typed([l2 EXCEPT !.mem[c].prev = Null])
    <3> HIDE DEF l2
    <3> QED BY <1>1, <2>2, AssignTyped
  <2> QED BY <2>3
<1> HIDE DEF fresh
<1>5. Typed(AppendChunk(fresh, c, n)) BY <1>2, <1>3, AppendTyped
<1>6. Typed(PrependChunk(fresh, c, n)) BY <1>2, <1>3, PrependTyped
<1>7. Typed(InsertChunk(fresh, c, n)) BY <1>2, <1>3, InsertTyped
<1> QED BY <1>4, <1>5, <1>6, <1>7 DEF AddChunk, fresh

\* Unlink, with the two choices for a prev that was never written.
UnlinkFrom(l, p, left) ==
    LET next == l.mem[p].next
        l1 == IF left = Null THEN [l EXCEPT !.front = next] ELSE Store(l, left, "next", next)
    IN  IF next = Null THEN [l1 EXCEPT !.back = UnlinkBack(l, p)] ELSE Store(l1, next, "prev", left)

LEMMA UnlinkIs ==
    ASSUME NEW l, NEW p
    PROVE  Unlink(l, p) = {UnlinkFrom(l, p, left) :
                             left \in IF l.mem[p].prev = Unknown THEN {Null, Unknown} ELSE {l.mem[p].prev}}
  BY DEF Unlink, UnlinkFrom

LEMMA UnlinkTyped ==
    ASSUME NEW l, Typed(l), NEW p, IsHeader(l, p), NEW m \in Unlink(l, p)
    PROVE  Typed(m)
<1> DEFINE next == l.mem[p].next
<1>1. PICK left \in IF l.mem[p].prev = Unknown THEN {Null, Unknown} ELSE {l.mem[p].prev} :
         m = UnlinkFrom(l, p, left)
  BY UnlinkIs
<1> DEFINE l1 == IF left = Null THEN [l EXCEPT !.front = next] ELSE Store(l, left, "next", next)
<1>2. /\ left \in Ptr /\ next \in Ptr /\ UnlinkBack(l, p) \in Ptr /\ 1 \in Page
  BY PmmAssumption DEF Typed, List, Node, IsHeader, Ptr, UnlinkBack, Page
<1>3. Typed(l1)
  <2> HIDE DEF next
  <2> QED BY <1>2, AssignTyped, StoreTyped
<1>4. m = IF next = Null THEN [l1 EXCEPT !.back = UnlinkBack(l, p)] ELSE Store(l1, next, "prev", left)
  BY <1>1 DEF UnlinkFrom
<1> HIDE DEF l1, next
<1> QED BY <1>2, <1>3, <1>4, AssignTyped, StoreTyped

LEMMA GivenTyped ==
    ASSUME NEW l, Typed(l), NEW p, NEW n
    PROVE  Typed(Given(l, p, n))
  BY DEF Typed, List, EndsInside, IsHeader, Given

\* The last n pages of a chunk that has them.
LEMMA TailInside ==
    ASSUME NEW p \in Page, NEW size \in 0..NumPages, p + size - 1 <= NumPages,
           NEW n \in Nat \ {0}, n <= size
    PROVE  size - n \in 0..NumPages /\ p + (size - n) - 1 <= NumPages /\ RunInside(p + (size - n), n)
<1>1. NumPages \in Nat BY PmmAssumption
<1> QED BY <1>1 DEF RunInside, Page

LEMMA AllocTyped ==
    ASSUME NEW l, Typed(l), NEW n \in Nat \ {0}, NEW r \in AllocFromChunk(l, n)
    PROVE  Typed(r[1]) /\ RunInside(r[2], n)
<1> DEFINE fit == {k \in DOMAIN Chain(l) : Fits(l, Chain(l)[k], n)}
           first == CHOOSE k \in fit : \A j \in fit : k <= j
           p == Chain(l)[first]
           left == l.mem[p].size - n
           rest == [l EXCEPT !.mem[p].size = left]
<1>1. fit # {} BY DEF AllocFromChunk
<1>2. fit \in SUBSET Nat BY ChainOfHeaders, PmmAssumption DEF Page
<1>3. first \in fit
  <2> HIDE DEF fit
  <2> QED BY <1>1, <1>2, FirstIndex
<1>4. IsHeader(l, p) /\ p \in Page /\ l.mem[p].size >= n
  <2> HIDE DEF first
  <2> QED BY <1>3, ChainOfHeaders DEF IsHeader, Fits
<1>5. \E m \in IF left = 0 THEN Unlink(rest, p) ELSE {rest} : r = <<m, p + left>>
  BY <1>1 DEF AllocFromChunk
<1> HIDE DEF first, fit
<1>6. l.mem[p].size \in 0..NumPages /\ p + l.mem[p].size - 1 <= NumPages
  BY <1>4 DEF Typed, List, EndsInside, IsHeader, Node
<1>7. left \in 0..NumPages /\ p + left - 1 <= NumPages /\ RunInside(p + left, n)
  <2> HIDE DEF p
  <2> QED BY <1>4, <1>6, TailInside
<1>8. Typed(rest) /\ IsHeader(rest, p) BY <1>4, <1>7, AssignTyped
<1> HIDE DEF left, rest, p
<1> QED BY <1>5, <1>7, <1>8, UnlinkTyped

\* Every region of the memory map is a run of pages.
LEMMA RegionsInside ==
    ASSUME NEW i \in DOMAIN Regions
    PROVE  RunInside(Regions[i][1], Regions[i][2]) /\ Regions[i] = <<Regions[i][1], Regions[i][2]>>
  BY PmmAssumption DEF RunInside, Page

\* TypeOK is inductive with: no header reaches past the last page, and neither does a
\* run that a caller holds.
TypeInv == TypeOK /\ EndsInside(pmm) /\ \A r \in held : RunInside(r[1], r[2])

LEMMA TypeInvInit == Init => TypeInv
<1> SUFFICES ASSUME Init PROVE TypeInv OBVIOUS
<1>1. EndsInside(pmm) BY DEF Init, EndsInside, IsHeader
<1>2. pmm \in List BY DEF Init, List, Ptr
<1>3. Len(Regions) \in Nat BY PmmAssumption
<1>4. booted \in 0..Len(Regions) /\ held = {}
  <2>1. booted = 0 /\ held = {} BY DEF Init
  <2> QED BY <2>1, <1>3
<1>a. freedBelow \in BOOLEAN BY DEF Init
<1>5. TypeOK
  <2>1. held \subseteq Page \X (1..MaxCount) BY <1>4
  <2> QED BY <1>2, <1>4, <1>a, <2>1 DEF TypeOK, List
<1> QED BY <1>1, <1>4, <1>5 DEF TypeInv

LEMMA TypeInvBoot == TypeInv /\ Boot => TypeInv'
<1> SUFFICES ASSUME TypeInv, Boot PROVE TypeInv' OBVIOUS
<1>1. Typed(pmm) BY DEF TypeInv, TypeOK, Typed, List
<1>2. booted + 1 \in DOMAIN Regions /\ booted + 1 \in 0..Len(Regions)
  BY PmmAssumption DEF TypeInv, TypeOK, Boot
<1>3. Typed(pmm') BY <1>1, <1>2, RegionsInside, AddTyped DEF Boot
<1> QED BY <1>2, <1>3 DEF Boot, TypeInv, TypeOK, Typed, List

LEMMA TypeInvAlloc ==
    ASSUME NEW n \in 1..MaxCount, TypeInv, PageAlloc(n)
    PROVE  TypeInv'
<1>1. Typed(pmm) BY DEF TypeInv, TypeOK, Typed, List
<1>2. PICK r \in AllocFromChunk(pmm, n) :
         pmm' = Given(r[1], r[2], n) /\ held' = held \cup {<<r[2], n>>}
  BY DEF PageAlloc
<1>3. n \in Nat \ {0} BY PmmAssumption
<1>4. Typed(r[1]) /\ RunInside(r[2], n) BY <1>1, <1>3, AllocTyped
<1>5. Typed(pmm') BY <1>2, <1>4, GivenTyped
<1>6. held' \subseteq Page \X (1..MaxCount) /\ \A s \in held' : RunInside(s[1], s[2])
  BY <1>2, <1>4 DEF TypeInv, TypeOK, RunInside
<1> QED BY <1>5, <1>6 DEF PageAlloc, TypeInv, TypeOK, Typed, List

LEMMA TypeInvDealloc ==
    ASSUME NEW r \in held, TypeInv, PageDealloc(r[1], r[2])
    PROVE  TypeInv'
<1>1. Typed(pmm) BY DEF TypeInv, TypeOK, Typed, List
<1>2. RunInside(r[1], r[2]) BY DEF TypeInv
<1>3. Typed(pmm') BY <1>1, <1>2, AddTyped DEF PageDealloc
<1>4. freedBelow' \in BOOLEAN BY DEF PageDealloc, TypeInv, TypeOK
<1> QED BY <1>3, <1>4 DEF PageDealloc, TypeInv, TypeOK, Typed, List

LEMMA TypeInvStep == TypeInv /\ [Next]_vars => TypeInv'
<1> SUFFICES ASSUME TypeInv, [Next]_vars PROVE TypeInv' OBVIOUS
<1>1. CASE Boot BY <1>1, TypeInvBoot
<1>2. ASSUME NEW n \in 1..MaxCount, PageAlloc(n) PROVE TypeInv' BY <1>2, TypeInvAlloc
<1>3. ASSUME NEW n \in 1..MaxCount, PageAllocZ(n) PROVE TypeInv'
  BY <1>3 DEF PageAllocZ, TypeInv, TypeOK, EndsInside, IsHeader
<1>4. ASSUME NEW r \in held, PageDealloc(r[1], r[2]) PROVE TypeInv' BY <1>4, TypeInvDealloc
<1>5. CASE UNCHANGED vars BY <1>5 DEF vars, TypeInv, TypeOK, EndsInside, IsHeader
<1> QED BY <1>1, <1>2, <1>3, <1>4, <1>5 DEF Next

\* Every header, end of the list and held run stays a page or null, and no size
\* passes the end of memory, in every behaviour, also in those in which a block given
\* back below the first chunk has damaged the list (pmm.cpp, llallocator.cppm).
THEOREM TypeCorrect == Spec => []TypeOK
<1>1. TypeInv => TypeOK BY DEF TypeInv
<1> QED BY <1>1, TypeInvInit, TypeInvStep, PTL DEF Spec

-----------------------------------------------------------------------------
(* What a change of the list leaves of Listing.  In these lemmas m is the  *)
(* list l after it.                                                        *)

LEMMA ChunksAreInts ==
    ASSUME NEW l, NEW C, Listing(l, C)
    PROVE  /\ NumPages \in Nat /\ Null \notin C
           /\ \A p \in C : p \in Nat /\ p >= 1 /\ p <= NumPages
           /\ \A p \in C : l.mem[p].size \in Nat /\ l.mem[p] \in Node
<1>1. NumPages \in Nat /\ Null \notin Page BY PmmAssumption
<1>2. C \subseteq Page /\ \A p \in C : l.mem[p] \in Node BY DEF Listing, Placed
<1>3. \A p \in C : p \in Nat /\ p >= 1 /\ p <= NumPages BY <1>1, <1>2 DEF Page
<1>4. \A p \in C : l.mem[p].size \in Nat BY <1>1, <1>2 DEF Node
<1> QED BY <1>1, <1>2, <1>3, <1>4

LEMMA EndsOf ==
    ASSUME NEW l, NEW C, Listing(l, C), C # {}
    PROVE  /\ l.front \in C /\ l.back \in C /\ l.front \in Nat /\ l.back \in Nat
           /\ \A q \in C : l.front <= q /\ q <= l.back
  BY ChunksAreInts DEF Listing, Ends

\* Another size for the chunk p, that keeps it apart from the next one.
Resizing(l, C, p, m) ==
    /\ p \in C
    /\ m.front = l.front /\ m.back = l.back
    /\ \A q \in C : /\ m.mem[q] \in Node
                    /\ m.mem[q].next = l.mem[q].next
                    /\ m.mem[q].prev = l.mem[q].prev
    /\ \A q \in C : q # p => m.mem[q].size = l.mem[q].size
    /\ m.mem[p].size >= 1 /\ p + m.mem[p].size - 1 <= NumPages
    /\ \A q \in C : p < q => p + m.mem[p].size < q

LEMMA Resized ==
    ASSUME NEW l, NEW C, Listing(l, C), NEW p, NEW m, Resizing(l, C, p, m)
    PROVE  Listing(m, C)
<1> USE DEF Resizing
<1>1. Placed(m, C) BY DEF Listing, Placed
<1>2. Ends(m, C) BY DEF Listing, Ends
<1>3. \A q \in C : NextIs(m, C, q) /\ PrevIs(m, C, q) BY DEF Listing, NextIs, PrevIs
<1> QED BY <1>1, <1>2, <1>3 DEF Listing

\* A chunk c of n pages behind the last one.
Appending(l, C, m, c, n) ==
    /\ C # {} /\ c \in Page /\ n \in Nat \ {0} /\ c + n - 1 <= NumPages
    /\ l.back + l.mem[l.back].size < c
    /\ m.front = l.front /\ m.back = c
    /\ \A q \in C : /\ m.mem[q] \in Node
                    /\ m.mem[q].size = l.mem[q].size
                    /\ m.mem[q].prev = l.mem[q].prev
                    /\ q # l.back => m.mem[q].next = l.mem[q].next
    /\ m.mem[l.back].next = c
    /\ m.mem[c] = [size |-> n, next |-> Null, prev |-> l.back]

LEMMA Appended ==
    ASSUME NEW l, NEW C, Listing(l, C), NEW m, NEW c, NEW n, Appending(l, C, m, c, n)
    PROVE  Listing(m, C \cup {c})
<1> USE DEF Appending
<1> DEFINE D == C \cup {c}
           b == l.back
<1>1. /\ NumPages \in Nat /\ Null \notin C /\ c \in Nat
      /\ \A p \in C : p \in Nat /\ l.mem[p].size \in Nat
  BY ChunksAreInts, PmmAssumption DEF Page
<1>2. /\ l.front \in C /\ b \in C /\ l.front \in Nat /\ b \in Nat
      /\ \A q \in C : l.front <= q /\ q <= b
  BY EndsOf
<1>3. \A q \in C : q + l.mem[q].size < c /\ q < c
  <2> SUFFICES ASSUME NEW q \in C PROVE q + l.mem[q].size < c /\ q < c OBVIOUS
  <2>0. q \in Nat /\ l.mem[q].size \in Nat /\ l.mem[b].size \in Nat BY <1>1, <1>2
  <2>1. q < b => q + l.mem[q].size < b BY <1>2 DEF Listing, Placed
  <2>2. q <= b BY <1>2
  <2>3. b + l.mem[b].size < c OBVIOUS
  <2> HIDE DEF b
  <2> QED BY <1>1, <1>2, <2>0, <2>1, <2>2, <2>3
<1>a. c \notin C BY <1>1, <1>3
<1>4. m.mem[c].size = n /\ m.mem[c].next = Null /\ m.mem[c].prev = b OBVIOUS
<1>b. m.mem[c] \in Node
  <2>1. n \in 0..NumPages /\ Null \in Ptr /\ b \in Ptr
    BY <1>1, <1>2 DEF Listing, Placed, Ptr
  <2> QED BY <2>1 DEF Node
<1> HIDE DEF b
<1>5. Placed(m, D)
  <2>1. D \subseteq Page BY DEF Listing, Placed
  <2>2. \A p \in D : m.mem[p] \in Node /\ m.mem[p].size >= 1 /\ p + m.mem[p].size - 1 <= NumPages
    BY <1>4, <1>b DEF Listing, Placed
  <2>3. ASSUME NEW p \in D, NEW q \in D, p < q PROVE p + m.mem[p].size < q
    <3>1. p \in C BY <1>1, <1>3, <2>3
    <3> QED BY <2>3, <3>1, <1>3 DEF Listing, Placed
  <2> QED BY <2>1, <2>2, <2>3 DEF Placed
<1>6. Ends(m, D)
  <2>1. \A q \in D : l.front <= q /\ q <= c BY <1>1, <1>2, <1>3
  <2> QED BY <1>2, <2>1 DEF Ends
<1>7. \A q \in D : NextIs(m, D, q)
  <2>1. NextIs(m, D, c) BY <1>4 DEF NextIs
  <2>2. NextIs(m, D, b)
    <3>1. \A q \in D : b < q => c <= q BY <1>1, <1>2
    <3> QED BY <3>1, <1>2, <1>3 DEF NextIs, b
  <2>3. ASSUME NEW q \in C, q # b PROVE NextIs(m, D, q)
    <3>1. l.mem[q].next \in C /\ q < l.mem[q].next /\ \A r \in C : q < r => l.mem[q].next <= r
      BY <2>3 DEF Listing, NextIs, b
    <3>2. m.mem[q].next = l.mem[q].next /\ q # c BY <2>3, <1>a DEF b
    <3>3. \A r \in D : q < r => l.mem[q].next <= r BY <3>1, <1>1, <1>3
    <3> QED BY <3>1, <3>2, <3>3 DEF NextIs
  <2> QED BY <2>1, <2>2, <2>3
<1>8. \A q \in D : PrevIs(m, D, q)
  <2>1. PrevIs(m, D, c)
    <3>1. b < c /\ c # l.front /\ \A q \in D : q < c => q <= b BY <1>1, <1>2, <1>3, <1>a
    <3> QED BY <3>1, <1>2, <1>4 DEF PrevIs
  <2>2. ASSUME NEW q \in C PROVE PrevIs(m, D, q)
    <3>1. PrevIs(l, C, q) BY DEF Listing
    <3>2. ~(c < q) BY <1>1, <1>3
    <3> QED BY <2>2, <3>1, <3>2 DEF PrevIs
  <2> QED BY <2>1, <2>2
<1> QED BY <1>5, <1>6, <1>7, <1>8 DEF Listing

\* A chunk c of n pages between a and p, touching neither.
Between(l, C, p, m, c, n, a) ==
    /\ p \in C /\ p # l.front /\ a = l.mem[p].prev
    /\ c \in Page /\ n \in Nat \ {0}
    /\ a + l.mem[a].size < c /\ c + n < p
    /\ m.front = l.front /\ m.back = l.back
    /\ \A q \in C : /\ m.mem[q] \in Node
                    /\ m.mem[q].size = l.mem[q].size
                    /\ q # a => m.mem[q].next = l.mem[q].next
                    /\ q # p => m.mem[q].prev = l.mem[q].prev
    /\ m.mem[a].next = c /\ m.mem[p].prev = c
    /\ m.mem[c] = [size |-> n, next |-> p, prev |-> a]

LEMMA PutBetween ==
    ASSUME NEW l, NEW C, Listing(l, C), NEW p, NEW m, NEW c, NEW n, NEW a, Between(l, C, p, m, c, n, a)
    PROVE  Listing(m, C \cup {c})
<1> USE DEF Between
<1> DEFINE D == C \cup {c}
<1>1. /\ NumPages \in Nat /\ Null \notin C /\ c \in Nat /\ c >= 1
      /\ \A q \in C : q \in Nat /\ q >= 1 /\ q <= NumPages /\ l.mem[q].size \in Nat
  <2>1. c \in Page OBVIOUS
  <2>2. c \in Nat /\ c >= 1 BY <2>1, PmmAssumption DEF Page
  <2> QED BY <2>2, ChunksAreInts
<1>2. /\ l.front \in C /\ l.back \in C /\ l.front \in Nat /\ l.back \in Nat
      /\ \A q \in C : l.front <= q /\ q <= l.back
  BY EndsOf
<1>3. a \in C /\ a < p /\ a \in Nat /\ p \in Nat /\ \A q \in C : q < p => q <= a
  <2>1. PrevIs(l, C, p) BY DEF Listing
  <2> QED BY <2>1, <1>1 DEF PrevIs
<1>4. a < c /\ c < p BY <1>1, <1>3
<1>5. \A q \in C : (q <= a /\ q + l.mem[q].size < c) \/ (p <= q /\ c + n < q)
  <2> SUFFICES ASSUME NEW q \in C PROVE (q <= a /\ q + l.mem[q].size < c) \/ (p <= q /\ c + n < q) OBVIOUS
  <2>0. q \in Nat /\ l.mem[q].size \in Nat /\ l.mem[a].size \in Nat BY <1>1, <1>3
  <2>1. q < a => q + l.mem[q].size < a BY <1>3 DEF Listing, Placed
  <2>2. q < p => q <= a BY <1>3
  <2> QED BY <1>1, <1>3, <1>4, <2>0, <2>1, <2>2
<1>6. c \notin C /\ c # a /\ c # p BY <1>1, <1>3, <1>4, <1>5
<1>7. m.mem[c].size = n /\ m.mem[c].next = p /\ m.mem[c].prev = a OBVIOUS
<1>8. m.mem[c] \in Node
  <2>1. n \in 0..NumPages /\ p \in Ptr /\ a \in Ptr
    BY <1>1, <1>3 DEF Listing, Placed, Ptr
  <2> QED BY <2>1 DEF Node
<1>9. Placed(m, D)
  <2>1. D \subseteq Page BY DEF Listing, Placed
  <2>a. c + n - 1 <= NumPages BY <1>1, <1>3
  <2>2. \A q \in D : m.mem[q] \in Node /\ m.mem[q].size >= 1 /\ q + m.mem[q].size - 1 <= NumPages
    BY <1>7, <1>8, <2>a DEF Listing, Placed
  <2>3. ASSUME NEW q \in D, NEW r \in D, q < r PROVE q + m.mem[q].size < r
    <3>1. CASE q = c BY <2>3, <3>1, <1>1, <1>3, <1>4, <1>5, <1>7
    <3>2. CASE q \in C /\ r = c BY <2>3, <3>2, <1>1, <1>3, <1>4, <1>5
    <3>3. CASE q \in C /\ r \in C BY <2>3, <3>3 DEF Listing, Placed
    <3> QED BY <3>1, <3>2, <3>3
  <2> QED BY <2>1, <2>2, <2>3 DEF Placed
<1>10. Ends(m, D)
  <2>1. l.front <= c /\ c <= l.back BY <1>1, <1>2, <1>3, <1>4
  <2> QED BY <1>2, <2>1 DEF Ends
<1>11. \A q \in D : NextIs(m, D, q)
  <2>1. NextIs(m, D, c)
    <3>1. \A q \in D : c < q => p <= q BY <1>1, <1>3, <1>4, <1>5
    <3>2. c # l.back BY <1>2, <1>6
    <3> QED BY <3>1, <3>2, <1>4, <1>7 DEF NextIs
  <2>2. NextIs(m, D, a)
    <3>1. \A q \in D : a < q => c <= q BY <1>1, <1>3, <1>4, <1>5
    <3>2. a # l.back BY <1>2, <1>3
    <3> QED BY <3>1, <3>2, <1>4 DEF NextIs
  <2>3. ASSUME NEW q \in C, q # a PROVE NextIs(m, D, q)
    <3>1. NextIs(l, C, q) BY DEF Listing
    <3>2. m.mem[q].next = l.mem[q].next BY <2>3
    <3>3. CASE q = l.back BY <3>1, <3>2, <3>3 DEF NextIs
    <3>4. CASE q # l.back
      <4>1. PICK s \in C : s = l.mem[q].next /\ q < s /\ \A r \in C : q < r => s <= r
        BY <3>1, <3>4 DEF NextIs
      <4>2. q < c => s <= c BY <2>3, <4>1, <1>1, <1>3, <1>4, <1>5
      <4> QED BY <3>2, <3>4, <4>1, <4>2 DEF NextIs
    <3> QED BY <3>3, <3>4
  <2> QED BY <2>1, <2>2, <2>3
<1>12. \A q \in D : PrevIs(m, D, q)
  <2>1. PrevIs(m, D, c)
    <3>1. \A q \in D : q < c => q <= a BY <1>1, <1>3, <1>4, <1>5
    <3>2. c # l.front BY <1>2, <1>6
    <3> QED BY <3>1, <3>2, <1>3, <1>4, <1>7 DEF PrevIs
  <2>2. PrevIs(m, D, p)
    <3>1. \A q \in D : q < p => q <= c BY <1>1, <1>3, <1>4, <1>5
    <3> QED BY <3>1, <1>4 DEF PrevIs
  <2>3. ASSUME NEW q \in C, q # p PROVE PrevIs(m, D, q)
    <3>1. PrevIs(l, C, q) BY DEF Listing
    <3>2. m.mem[q].prev = l.mem[q].prev BY <2>3
    <3>3. CASE q = l.front BY <3>1, <3>2, <3>3 DEF PrevIs
    <3>4. CASE q # l.front
      <4>1. PICK s \in C : s = l.mem[q].prev /\ s < q /\ \A r \in C : r < q => r <= s
        BY <3>1, <3>4 DEF PrevIs
      <4>2. c < q => c <= s BY <2>3, <4>1, <1>1, <1>3, <1>4, <1>5
      <4> QED BY <3>2, <3>4, <4>1, <4>2 DEF PrevIs
    <3> QED BY <3>3, <3>4
  <2> QED BY <2>1, <2>2, <2>3
<1> QED BY <1>9, <1>10, <1>11, <1>12 DEF Listing

\* Without the chunk p.
Removing(l, C, p, m) ==
    /\ p \in C
    /\ m.front = IF p = l.front THEN l.mem[p].next ELSE l.front
    /\ m.back = IF p = l.back THEN l.mem[p].prev ELSE l.back
    /\ \A q \in C \ {p} :
          /\ m.mem[q] \in Node
          /\ m.mem[q].size = l.mem[q].size
          /\ m.mem[q].next = IF p # l.front /\ q = l.mem[p].prev THEN l.mem[p].next ELSE l.mem[q].next
          /\ m.mem[q].prev = IF p # l.back /\ q = l.mem[p].next THEN l.mem[p].prev ELSE l.mem[q].prev

LEMMA Removed ==
    ASSUME NEW l, NEW C, Listing(l, C), NEW p, NEW m, Removing(l, C, p, m)
    PROVE  Listing(m, C \ {p})
<1> USE DEF Removing
<1> DEFINE D == C \ {p}
<1>1. /\ NumPages \in Nat /\ Null \notin C
      /\ \A q \in C : q \in Nat /\ q >= 1 /\ q <= NumPages /\ l.mem[q].size \in Nat
  BY ChunksAreInts
<1>2. /\ l.front \in C /\ l.back \in C /\ l.front \in Nat /\ l.back \in Nat
      /\ \A q \in C : l.front <= q /\ q <= l.back
  BY EndsOf
<1>3. p \in Nat /\ \A q \in D : q \in C /\ q # p BY <1>1
<1>4. \A q \in C : /\ q # l.back => /\ l.mem[q].next \in C /\ q < l.mem[q].next
                                    /\ \A r \in C : q < r => l.mem[q].next <= r
                   /\ q = l.back => l.mem[q].next = Null
                   /\ q # l.front => /\ l.mem[q].prev \in C /\ l.mem[q].prev < q
                                     /\ \A r \in C : r < q => r <= l.mem[q].prev
                   /\ q = l.front => l.mem[q].prev = Null
  BY DEF Listing, NextIs, PrevIs
<1>5. Placed(m, D)
  BY DEF Listing, Placed
<1>6. Ends(m, D)
  <2>1. CASE p = l.front /\ p = l.back
    <3>1. D = {} BY <2>1, <1>1, <1>2
    <3> QED BY <2>1, <3>1, <1>4 DEF Ends
  <2>2. CASE p = l.front /\ p # l.back
    <3>1. m.front \in D /\ m.back \in D BY <2>2, <1>1, <1>2, <1>4
    <3>2. \A q \in D : p < q BY <2>2, <1>1, <1>2
    <3>3. \A q \in D : m.front <= q /\ q <= m.back BY <2>2, <3>2, <1>2, <1>4
    <3> QED BY <3>1, <3>3 DEF Ends
  <2>3. CASE p # l.front /\ p = l.back
    <3>1. m.front \in D /\ m.back \in D BY <2>3, <1>1, <1>2, <1>4
    <3>2. \A q \in D : q < p BY <2>3, <1>1, <1>2
    <3>3. \A q \in D : m.front <= q /\ q <= m.back BY <2>3, <3>2, <1>2, <1>4
    <3> QED BY <3>1, <3>3 DEF Ends
  <2>4. CASE p # l.front /\ p # l.back BY <2>4, <1>2 DEF Ends
  <2> QED BY <2>1, <2>2, <2>3, <2>4
<1>7. ASSUME NEW q \in D PROVE NextIs(m, D, q)
  <2>1. CASE q = m.back
    <3>1. CASE p = l.back
      <4>1. p # l.front /\ q = l.mem[p].prev BY <2>1, <3>1, <1>1, <1>4, <1>7
      <4> QED BY <2>1, <3>1, <4>1, <1>4, <1>7 DEF NextIs
    <3>2. CASE p # l.back
      <4>1. q = l.back BY <2>1, <3>2
      <4>2. ~(p # l.front /\ q = l.mem[p].prev) BY <4>1, <1>1, <1>2, <1>4
      <4> QED BY <2>1, <4>1, <4>2, <1>4, <1>7 DEF NextIs
    <3> QED BY <3>1, <3>2
  <2>2. CASE q # m.back
    <3>1. CASE p # l.front /\ q = l.mem[p].prev
      <4>1. p # l.back BY <2>2, <3>1
      <4>2. PICK s \in C : s = l.mem[p].next /\ p < s /\ \A r \in C : p < r => s <= r BY <4>1, <1>4
      <4>3. q < p /\ \A r \in C : r < p => r <= q BY <3>1, <1>4
      <4>4. s \in D /\ q < s /\ \A r \in D : q < r => s <= r BY <4>2, <4>3, <1>1
      <4> QED BY <2>2, <3>1, <4>2, <4>4 DEF NextIs
    <3>2. CASE ~(p # l.front /\ q = l.mem[p].prev)
      <4>1. q # l.back
        <5>1. CASE p = l.back BY <5>1
        <5>2. CASE p # l.back BY <5>2, <2>2
        <5> QED BY <5>1, <5>2
      <4>2. PICK s \in C : s = l.mem[q].next /\ q < s /\ \A r \in C : q < r => s <= r BY <4>1, <1>4
      <4>3. s # p
        <5> SUFFICES ASSUME s = p PROVE FALSE OBVIOUS
        <5>1. p # l.front BY <4>2, <1>1, <1>2
        <5>2. l.mem[s].prev = q BY <4>1, <4>2, Neighbours
        <5> QED BY <3>2, <5>1, <5>2
      <4> QED BY <2>2, <3>2, <4>2, <4>3 DEF NextIs
    <3> QED BY <3>1, <3>2
  <2> QED BY <2>1, <2>2
<1>8. ASSUME NEW q \in D PROVE PrevIs(m, D, q)
  <2>1. CASE q = m.front
    <3>1. CASE p = l.front
      <4>1. p # l.back /\ q = l.mem[p].next BY <2>1, <3>1, <1>1, <1>4, <1>8
      <4> QED BY <2>1, <3>1, <4>1, <1>4, <1>8 DEF PrevIs
    <3>2. CASE p # l.front
      <4>1. q = l.front BY <2>1, <3>2
      <4>2. ~(p # l.back /\ q = l.mem[p].next) BY <4>1, <1>1, <1>2, <1>4
      <4> QED BY <2>1, <4>1, <4>2, <1>4, <1>8 DEF PrevIs
    <3> QED BY <3>1, <3>2
  <2>2. CASE q # m.front
    <3>1. CASE p # l.back /\ q = l.mem[p].next
      <4>1. p # l.front BY <2>2, <3>1
      <4>2. PICK s \in C : s = l.mem[p].prev /\ s < p /\ \A r \in C : r < p => r <= s BY <4>1, <1>4
      <4>3. p < q /\ \A r \in C : p < r => q <= r BY <3>1, <1>4
      <4>4. s \in D /\ s < q /\ \A r \in D : r < q => r <= s BY <4>2, <4>3, <1>1
      <4> QED BY <2>2, <3>1, <4>2, <4>4 DEF PrevIs
    <3>2. CASE ~(p # l.back /\ q = l.mem[p].next)
      <4>1. q # l.front
        <5>1. CASE p = l.front BY <5>1
        <5>2. CASE p # l.front BY <5>2, <2>2
        <5> QED BY <5>1, <5>2
      <4>2. PICK s \in C : s = l.mem[q].prev /\ s < q /\ \A r \in C : r < q => r <= s BY <4>1, <1>4
      <4>3. s # p
        <5> SUFFICES ASSUME s = p PROVE FALSE OBVIOUS
        <5>1. p # l.back BY <4>2, <1>1, <1>2
        <5>2. l.mem[s].next = q BY <4>1, <4>2, Neighbours
        <5> QED BY <3>2, <5>1, <5>2
      <4> QED BY <2>2, <3>2, <4>2, <4>3 DEF PrevIs
    <3> QED BY <3>1, <3>2
  <2> QED BY <2>1, <2>2
<1> QED BY <1>5, <1>6, <1>7, <1>8 DEF Listing

\* The chunk c in the place of p, which starts where the n new pages end.
Replacing(l, C, p, m, c, n) ==
    /\ p \in C /\ p # l.front /\ p # l.back
    /\ c \in Page /\ n \in Nat \ {0} /\ c + n = p
    /\ l.mem[p].prev + l.mem[l.mem[p].prev].size < c
    /\ m.front = l.front /\ m.back = l.back
    /\ \A q \in C \ {p} : /\ m.mem[q] \in Node
                          /\ m.mem[q].size = l.mem[q].size
                          /\ q # l.mem[p].prev => m.mem[q].next = l.mem[q].next
                          /\ q # l.mem[p].next => m.mem[q].prev = l.mem[q].prev
    /\ m.mem[l.mem[p].prev].next = c /\ m.mem[l.mem[p].next].prev = c
    /\ m.mem[c] = [size |-> n + l.mem[p].size, next |-> l.mem[p].next, prev |-> l.mem[p].prev]

LEMMA Replaced ==
    ASSUME NEW l, NEW C, Listing(l, C), NEW p, NEW m, NEW c, NEW n, Replacing(l, C, p, m, c, n)
    PROVE  Listing(m, (C \ {p}) \cup {c})
<1> USE DEF Replacing
<1> DEFINE a == l.mem[p].prev
           b == l.mem[p].next
           D == C \ {p}
           node(q) == [size |-> l.mem[q].size, next |-> IF q = a THEN b ELSE l.mem[q].next,
                       prev |-> IF q = b THEN a ELSE l.mem[q].prev]
           k == [front |-> l.front, back |-> l.back, mem |-> [q \in D |-> node(q)]]
<1>1. /\ NumPages \in Nat /\ Null \notin C
      /\ \A q \in C : q \in Nat /\ q >= 1 /\ q <= NumPages /\ l.mem[q].size \in Nat /\ l.mem[q] \in Node
  BY ChunksAreInts
<1>2. a \in D /\ b \in D /\ a < p /\ p < b /\ p + l.mem[p].size < b
  BY <1>1 DEF Listing, Placed, NextIs, PrevIs
<1>3. \A q \in D : /\ k.mem[q] \in Node
                   /\ k.mem[q].size = l.mem[q].size
                   /\ k.mem[q].next = IF q = a THEN b ELSE l.mem[q].next
                   /\ k.mem[q].prev = IF q = b THEN a ELSE l.mem[q].prev
  <2> SUFFICES ASSUME NEW q \in D
               PROVE  /\ k.mem[q] \in Node
                      /\ k.mem[q].size = l.mem[q].size
                      /\ k.mem[q].next = IF q = a THEN b ELSE l.mem[q].next
                      /\ k.mem[q].prev = IF q = b THEN a ELSE l.mem[q].prev
    OBVIOUS
  <2>1. k.mem[q] = node(q) OBVIOUS
  <2>2. l.mem[q] \in Node /\ a \in Ptr /\ b \in Ptr BY <1>1, <1>2 DEF Listing, Placed, Ptr
  <2>3. node(q) \in Node BY <2>2 DEF Node
  <2> QED BY <2>1, <2>3
<1>4. k.front = l.front /\ k.back = l.back OBVIOUS
<1> HIDE DEF k, node
<1>5. Listing(k, D)
  <2>1. Removing(l, C, p, k) BY <1>3, <1>4 DEF Removing
  <2> QED BY <2>1, Removed
<1>6. b # k.front
  <2>1. k.front <= a BY <1>2, <1>4, <1>5 DEF Listing, Ends
  <2> QED BY <2>1, <1>1, <1>2
<1>7. a = k.mem[b].prev /\ a + k.mem[a].size < c BY <1>2, <1>3
<1>8. n + l.mem[p].size \in Nat \ {0} /\ c + (n + l.mem[p].size) < b
  <2>1. l.mem[p].size \in Nat /\ p \in Nat /\ b \in Nat /\ c \in Nat BY <1>1, <1>2, PmmAssumption DEF Page
  <2> QED BY <2>1, <1>2
<1>9. \A q \in D : /\ m.mem[q] \in Node
                   /\ m.mem[q].size = k.mem[q].size
                   /\ q # a => m.mem[q].next = k.mem[q].next
                   /\ q # b => m.mem[q].prev = k.mem[q].prev
  BY <1>3
<1>10. m.mem[c] = [size |-> n + l.mem[p].size, next |-> b, prev |-> a] /\ m.mem[a].next = c /\ m.mem[b].prev = c
  OBVIOUS
<1>11. m.front = k.front /\ m.back = k.back BY <1>4
<1> DEFINE s == n + l.mem[p].size
<1> HIDE DEF a, b, D, s
<1>12. Between(k, D, b, m, c, s, a)
  <2>1. s \in Nat \ {0} /\ c + s < b /\ m.mem[c] = [size |-> s, next |-> b, prev |-> a]
    BY <1>8, <1>10 DEF s
  <2> QED BY <2>1, <1>2, <1>6, <1>7, <1>9, <1>10, <1>11 DEF Between
<1>13. Listing(m, D \cup {c}) BY <1>5, <1>12, PutBetween
<1> QED BY <1>13 DEF D

-----------------------------------------------------------------------------
(* The pages of a sound list, and each routine of llallocator.cppm.        *)

PagesOf(l, C) == UNION {Run(p, l.mem[p].size) : p \in C}

\* None of the pages of the run is free.
Apart(l, C, c, n) == Run(c, n) \cap PagesOf(l, C) = {}

LEMMA ApartIs ==
    ASSUME NEW l, NEW C, Listing(l, C), NEW c \in Page, NEW n \in Nat \ {0}, Apart(l, C, c, n), NEW p \in C
    PROVE  p + l.mem[p].size <= c \/ c + n <= p
<1>1. p \in Nat /\ l.mem[p].size \in Nat /\ l.mem[p].size >= 1 /\ c \in Nat
  <2>1. l.mem[p].size >= 1 BY DEF Listing, Placed
  <2>2. c \in Nat BY PmmAssumption DEF Page
  <2> QED BY <2>1, <2>2, ChunksAreInts
<1>2. \A x : ~(x \in Run(c, n) /\ x \in Run(p, l.mem[p].size)) BY DEF Apart, PagesOf
<1>3. CASE c <= p
  <2>1. ~(p \in Run(c, n)) BY <1>1, <1>2 DEF Run
  <2> QED BY <2>1, <1>1, <1>3 DEF Run
<1>4. CASE p < c
  <2>1. ~(c \in Run(p, l.mem[p].size)) BY <1>1, <1>2 DEF Run
  <2> QED BY <2>1, <1>1, <1>4 DEF Run
<1> QED BY <1>1, <1>3, <1>4

LEMMA RunSplit ==
    ASSUME NEW p \in Nat, NEW s \in Nat, NEW n \in Nat
    PROVE  Run(p, s + n) = Run(p, s) \cup Run(p + s, n)
  BY DEF Run

SameSizes(l, m, D) == \A q \in D : m.mem[q].size = l.mem[q].size

\* The free pages when one chunk changes its size ...
LEMMA PagesOfResized ==
    ASSUME NEW l, NEW C, NEW m, NEW p \in C, NEW R,
           SameSizes(l, m, C \ {p}),
           Run(p, m.mem[p].size) = Run(p, l.mem[p].size) \cup R
    PROVE  PagesOf(m, C) = PagesOf(l, C) \cup R
<1> SUFFICES ASSUME NEW x PROVE x \in PagesOf(m, C) <=> x \in PagesOf(l, C) \cup R OBVIOUS
<1>1. x \in PagesOf(m, C) <=> \E q \in C : x \in Run(q, m.mem[q].size) BY DEF PagesOf
<1>2. x \in PagesOf(l, C) <=> \E q \in C : x \in Run(q, l.mem[q].size) BY DEF PagesOf
<1>3. \A q \in C : q # p => Run(q, m.mem[q].size) = Run(q, l.mem[q].size) BY DEF SameSizes
<1> QED BY <1>1, <1>2, <1>3

\* ... when a chunk is added ...
LEMMA PagesOfMore ==
    ASSUME NEW l, NEW C, NEW m, NEW c, SameSizes(l, m, C)
    PROVE  PagesOf(m, C \cup {c}) = PagesOf(l, C) \cup Run(c, m.mem[c].size)
<1> SUFFICES ASSUME NEW x
             PROVE x \in PagesOf(m, C \cup {c}) <=> x \in PagesOf(l, C) \cup Run(c, m.mem[c].size)
  OBVIOUS
<1>1. x \in PagesOf(m, C \cup {c}) <=> \E q \in C \cup {c} : x \in Run(q, m.mem[q].size) BY DEF PagesOf
<1>2. x \in PagesOf(l, C) <=> \E q \in C : x \in Run(q, l.mem[q].size) BY DEF PagesOf
<1>3. \A q \in C : Run(q, m.mem[q].size) = Run(q, l.mem[q].size) BY DEF SameSizes
<1> QED BY <1>1, <1>2, <1>3

\* ... and when one is removed.
LEMMA PagesOfFewer ==
    ASSUME NEW l, NEW C, Listing(l, C), NEW m, NEW p \in C, SameSizes(l, m, C \ {p})
    PROVE  PagesOf(m, C \ {p}) = PagesOf(l, C) \ Run(p, l.mem[p].size)
<1> SUFFICES ASSUME NEW x
             PROVE x \in PagesOf(m, C \ {p}) <=> x \in PagesOf(l, C) \ Run(p, l.mem[p].size)
  OBVIOUS
<1>1. x \in PagesOf(m, C \ {p}) <=> \E q \in C \ {p} : x \in Run(q, l.mem[q].size)
  <2>1. \A q \in C \ {p} : Run(q, m.mem[q].size) = Run(q, l.mem[q].size) BY DEF SameSizes
  <2> QED BY <2>1 DEF PagesOf
<1>2. x \in PagesOf(l, C) <=> \E q \in C : x \in Run(q, l.mem[q].size) BY DEF PagesOf
<1>3. ASSUME NEW q \in C \ {p}, x \in Run(q, l.mem[q].size), x \in Run(p, l.mem[p].size) PROVE FALSE
  <2>1. p \in Nat /\ q \in Nat /\ l.mem[p].size \in Nat /\ l.mem[q].size \in Nat BY ChunksAreInts
  <2>2. /\ p < q => p + l.mem[p].size < q
        /\ q < p => q + l.mem[q].size < p
    BY DEF Listing, Placed
  <2>3. x \in Int /\ q <= x /\ x < q + l.mem[q].size /\ p <= x /\ x < p + l.mem[p].size
    BY <1>3, <2>1 DEF Run
  <2> QED BY <1>3, <2>1, <2>2, <2>3
<1> QED BY <1>1, <1>2, <1>3

\* The list m has the pages of l and the run c, n besides.
Adds(l, C, m, c, n) == \E D : Listing(m, D) /\ PagesOf(m, D) = PagesOf(l, C) \cup Run(c, n)

NewNode(n) == [size |-> n, next |-> Null, prev |-> Unknown]

LEMMA AppendAdds ==
    ASSUME NEW l, NEW C, Typed(l), Listing(l, C), C # {}, NEW c, NEW n, RunInside(c, n),
           Apart(l, C, c, n), l.back < c, l.mem[c] = NewNode(n)
    PROVE  AppendChunk(l, c, n).fault = l.fault /\ Adds(l, C, AppendChunk(l, c, n), c, n)
<1>a. PICK b : b = l.back OBVIOUS
<1>b. PICK m : m = AppendChunk(l, c, n) OBVIOUS
<1>1. /\ b \in C /\ b \in Page /\ b \in Nat /\ IsHeader(l, b) /\ l.mem[b] \in Node /\ l.mem[b].size \in Nat
      /\ l.mem[b].size >= 1 /\ b >= 1
      /\ \A q \in C : q \in Nat /\ q <= b /\ l.mem[q] \in Node
  BY <1>a, EndsOf, ChunksAreInts, PmmAssumption DEF Listing, Placed, IsHeader
<1>2. c \in Page /\ c \in Nat /\ n \in Nat \ {0} /\ c + n - 1 <= NumPages
  BY PmmAssumption DEF RunInside, Page
<1>3. b + l.mem[b].size <= c BY <1>a, <1>1, <1>2, ApartIs
<1>4. l.mem \in [Page -> Node \cup {Unknown}] /\ C \subseteq Page BY DEF Typed, List, Listing, Placed
<1>5. CASE b + l.mem[b].size = c
  <2>1. m = [l EXCEPT !.mem[b].size = l.mem[b].size + n] BY <1>a, <1>b, <1>1, <1>5 DEF AppendChunk
  <2>2. /\ m.front = l.front /\ m.back = l.back /\ m.fault = l.fault
        /\ m.mem[b] = [l.mem[b] EXCEPT !.size = l.mem[b].size + n]
        /\ \A q \in C : q # b => m.mem[q] = l.mem[q]
    BY <2>1, <1>1, <1>4 DEF Typed, List
  <2>3. m.mem[b].size = l.mem[b].size + n /\ m.mem[b].next = l.mem[b].next /\ m.mem[b].prev = l.mem[b].prev
    BY <2>2, <1>1 DEF Node
  <2>4. b + (l.mem[b].size + n) - 1 <= NumPages /\ l.mem[b].size + n \in 0..NumPages /\ l.mem[b].size + n >= 1
    <3>1. NumPages \in Nat BY PmmAssumption
    <3> QED BY <3>1, <1>1, <1>2, <1>5
  <2>5. m.mem[b] \in Node BY <2>2, <2>4, <1>1 DEF Node
  <2>6. \A q \in C : ~(b < q) BY <1>1
  <2>7. Listing(m, C)
    <3>1. \A q \in C : m.mem[q] \in Node /\ m.mem[q].next = l.mem[q].next /\ m.mem[q].prev = l.mem[q].prev
      BY <1>1, <2>2, <2>3, <2>5
    <3>2. \A q \in C : q # b => m.mem[q].size = l.mem[q].size BY <2>2
    <3>3. m.mem[b].size >= 1 /\ b + m.mem[b].size - 1 <= NumPages BY <2>3, <2>4
    <3>4. Resizing(l, C, b, m) BY <1>1, <2>2, <2>6, <3>1, <3>2, <3>3 DEF Resizing
    <3> QED BY <3>4, Resized
  <2>8. PagesOf(m, C) = PagesOf(l, C) \cup Run(c, n)
    <3>1. Run(b, l.mem[b].size + n) = Run(b, l.mem[b].size) \cup Run(b + l.mem[b].size, n)
      BY <1>1, <1>2, RunSplit
    <3>2. Run(b, m.mem[b].size) = Run(b, l.mem[b].size) \cup Run(c, n) BY <3>1, <1>5, <2>3
    <3>3. SameSizes(l, m, C \ {b}) BY <2>2 DEF SameSizes
    <3> QED BY <1>1, <3>2, <3>3, PagesOfResized
  <2> QED BY <1>b, <2>2, <2>7, <2>8 DEF Adds
<1>6. CASE b + l.mem[b].size # c
  <2>1. m = [l EXCEPT !.mem[b].next = c, !.mem[c].prev = b, !.back = c] BY <1>a, <1>b, <1>1, <1>6 DEF AppendChunk
  <2>0. \A q \in C : q < c BY <1>a, <1>1, <1>2
  <2>2. /\ m.front = l.front /\ m.back = c /\ m.fault = l.fault
        /\ m.mem[b] = [l.mem[b] EXCEPT !.next = c]
        /\ m.mem[c] = [l.mem[c] EXCEPT !.prev = b]
        /\ \A q \in C : q # b => m.mem[q] = l.mem[q]
    <3>1. c # b /\ c \notin C BY <2>0, <1>1, <1>2
    <3> QED BY <2>1, <3>1, <1>1, <1>2, <1>4 DEF Typed, List
  <2>3. m.mem[b].next = c /\ m.mem[b].size = l.mem[b].size /\ m.mem[b].prev = l.mem[b].prev /\ m.mem[b] \in Node
    BY <2>2, <1>1, <1>2 DEF Node, Ptr
  <2>4. m.mem[c] = [size |-> n, next |-> Null, prev |-> b] BY <2>2 DEF NewNode
  <2>5. b + l.mem[b].size < c BY <1>1, <1>2, <1>3, <1>6
  <2>6. Listing(m, C \cup {c})
    <3>1. \A q \in C : /\ m.mem[q] \in Node
                       /\ m.mem[q].size = l.mem[q].size
                       /\ m.mem[q].prev = l.mem[q].prev
                       /\ q # b => m.mem[q].next = l.mem[q].next
      BY <1>1, <2>2, <2>3
    <3>2. Appending(l, C, m, c, n) BY <1>a, <1>2, <2>2, <2>3, <2>4, <2>5, <3>1 DEF Appending
    <3> QED BY <3>2, Appended
  <2>7. PagesOf(m, C \cup {c}) = PagesOf(l, C) \cup Run(c, n)
    <3>1. m.mem[c].size = n BY <2>4
    <3>2. SameSizes(l, m, C) BY <2>2, <2>3 DEF SameSizes
    <3>3. PagesOf(m, C \cup {c}) = PagesOf(l, C) \cup Run(c, m.mem[c].size) BY <3>2, PagesOfMore
    <3> QED BY <3>1, <3>3
  <2> QED BY <1>b, <2>2, <2>6, <2>7 DEF Adds
<1> QED BY <1>b, <1>5, <1>6

\* Listing does not look at the header of a page that is not a chunk's.
SameList(l, C, m) ==
    /\ Typed(m) /\ Listing(m, C) /\ PagesOf(m, C) = PagesOf(l, C)
    /\ m.front = l.front /\ m.back = l.back /\ m.fault = l.fault

LEMMA NewHeader ==
    ASSUME NEW l, NEW C, Typed(l), Listing(l, C), NEW c, NEW n, RunInside(c, n), Apart(l, C, c, n)
    PROVE  \E m : /\ m = [l EXCEPT !.mem[c] = NewNode(n)]
                  /\ c \notin C /\ SameList(l, C, m) /\ m.mem[c] = NewNode(n)
<1>m. PICK m : m = [l EXCEPT !.mem[c] = NewNode(n)] OBVIOUS
<1>0. c \in Page /\ c \in Nat /\ n \in Nat \ {0} BY PmmAssumption DEF RunInside, Page
<1>1. c \notin C
  <2> SUFFICES ASSUME c \in C PROVE FALSE OBVIOUS
  <2>1. l.mem[c].size \in Nat /\ l.mem[c].size >= 1 BY ChunksAreInts DEF Listing, Placed
  <2> QED BY <1>0, <2>1, ApartIs
<1>2. NewNode(n) \in Node /\ c + NewNode(n).size - 1 <= NumPages
  BY PmmAssumption DEF NewNode, Node, RunInside, Ptr
<1>3. Typed(m)
  <2> DEFINE nd == NewNode(n)
  <2>1. \A x \in Node : c + x.size - 1 <= NumPages => Typed([l EXCEPT !.mem[c] = x]) BY <1>0, AssignTyped
  <2> QED BY <1>2, <1>m, <2>1
<1>4. /\ \A q \in C : m.mem[q] = l.mem[q]
      /\ m.front = l.front /\ m.back = l.back /\ m.fault = l.fault
  BY <1>1, <1>m DEF Typed, List
<1>5. m.mem[c] = NewNode(n) BY <1>0, <1>m DEF Typed, List
<1>6. Placed(m, C) BY <1>4 DEF Listing, Placed
<1>7. Ends(m, C) BY <1>4 DEF Listing, Ends
<1>8. \A q \in C : NextIs(m, C, q) /\ PrevIs(m, C, q) BY <1>4 DEF Listing, NextIs, PrevIs
<1>9. PagesOf(m, C) = PagesOf(l, C) BY <1>4 DEF PagesOf
<1>10. Listing(m, C) BY <1>6, <1>7, <1>8 DEF Listing
<1>11. SameList(l, C, m) BY <1>3, <1>4, <1>9, <1>10 DEF SameList
<1> QED BY <1>m, <1>1, <1>5, <1>11

\* The fields of a list after one store through a chunk.
StoredNext(l, m, p, v) ==
    /\ m.front = l.front /\ m.back = l.back /\ m.fault = l.fault
    /\ \A q \in Page : q # p => m.mem[q] = l.mem[q]
    /\ m.mem[p].size = l.mem[p].size /\ m.mem[p].prev = l.mem[p].prev /\ m.mem[p].next = v
    /\ m.mem[p] \in Node

StoredPrev(l, m, p, v) ==
    /\ m.front = l.front /\ m.back = l.back /\ m.fault = l.fault
    /\ \A q \in Page : q # p => m.mem[q] = l.mem[q]
    /\ m.mem[p].size = l.mem[p].size /\ m.mem[p].next = l.mem[p].next /\ m.mem[p].prev = v
    /\ m.mem[p] \in Node

LEMMA StoreIs ==
    ASSUME NEW l, Typed(l), NEW p \in Page, IsHeader(l, p), NEW v \in Ptr
    PROVE  /\ StoredNext(l, Store(l, p, "next", v), p, v)
           /\ StoredPrev(l, Store(l, p, "prev", v), p, v)
<1>1. StoredNext(l, Store(l, p, "next", v), p, v)
  BY DEF Store, Typed, List, IsHeader, Node, StoredNext
<1>2. StoredPrev(l, Store(l, p, "prev", v), p, v)
  BY DEF Store, Typed, List, IsHeader, Node, StoredPrev
<1> QED BY <1>1, <1>2

LEMMA ChunkIsHeader ==
    ASSUME NEW l, NEW C, Listing(l, C), NEW p \in C
    PROVE  p \in Page /\ p \in Ptr /\ IsHeader(l, p) /\ l.mem[p] \in Node
  BY PmmAssumption DEF Listing, Placed, IsHeader, Ptr

LEMMA InsertBetweenAdds ==
    ASSUME NEW l, NEW C, Typed(l), Listing(l, C), NEW c \in Page, NEW n \in Nat \ {0}, c \notin C,
           l.mem[c] = NewNode(n), IsHeader(l, c),
           NEW p \in C, p # l.front, NEW a, a = l.mem[p].prev, a + l.mem[a].size < c, c + n < p, NEW m,
           m = InsertBetween(l, c, a, p)
    PROVE  Adds(l, C, m, c, n) /\ m.fault = l.fault
<1>1. a \in C /\ a # p /\ a # c /\ p # c
  <2>1. PrevIs(l, C, p) BY DEF Listing
  <2> QED BY <2>1, ChunksAreInts DEF PrevIs
<1>2. a \in Page /\ IsHeader(l, a) /\ p \in Page /\ IsHeader(l, p) /\ a # Null /\ p # Null
      /\ a \in Ptr /\ p \in Ptr /\ c \in Ptr
  BY <1>1, ChunkIsHeader, PmmAssumption DEF Ptr
<1>3. PICK l1 : l1 = Store(l, a, "next", c) OBVIOUS
<1>4. StoredNext(l, l1, a, c) /\ Typed(l1) /\ IsHeader(l1, p) /\ IsHeader(l1, c)
  BY <1>2, <1>3, StoreIs, StoreTyped
<1>5. PICK l2 : l2 = Store(l1, p, "prev", c) OBVIOUS
<1>6. StoredPrev(l1, l2, p, c) /\ Typed(l2) /\ IsHeader(l2, c)
  BY <1>2, <1>4, <1>5, StoreIs, StoreTyped
<1>7. PICK l3 : l3 = Store(l2, c, "next", p) OBVIOUS
<1>8. StoredNext(l2, l3, c, p) /\ Typed(l3) /\ IsHeader(l3, c)
  BY <1>2, <1>6, <1>7, StoreIs, StoreTyped
<1>9. m = Store(l3, c, "prev", a)
  <2>1. m = [[l2 EXCEPT !.mem[c].next = p] EXCEPT !.mem[c].prev = a]
    BY <1>2, <1>3, <1>5 DEF InsertBetween
  <2>2. l3 = [l2 EXCEPT !.mem[c].next = p] BY <1>6, <1>7 DEF Store
  <2> QED BY <2>1, <2>2, <1>8 DEF Store
<1>a. StoredPrev(l3, m, c, a) BY <1>2, <1>8, <1>9, StoreIs
<1>10. \A q \in Page : q # c => m.mem[q] = l2.mem[q] BY <1>8, <1>a DEF StoredNext, StoredPrev
<1>11. m.mem[c] = [size |-> n, next |-> p, prev |-> a]
  <2>1. l2.mem[c] = NewNode(n) BY <1>1, <1>4, <1>6 DEF StoredNext, StoredPrev
  <2>2. m.mem[c].size = n /\ m.mem[c].next = p /\ m.mem[c].prev = a /\ m.mem[c] \in Node
    BY <2>1, <1>8, <1>a DEF StoredNext, StoredPrev, NewNode
  <2> QED BY <2>2 DEF Node
<1>12. ASSUME NEW q \in C
       PROVE  /\ m.mem[q] \in Node
              /\ m.mem[q].size = l.mem[q].size
              /\ q # a => m.mem[q].next = l.mem[q].next
              /\ q # p => m.mem[q].prev = l.mem[q].prev
  <2>1. q \in Page /\ q # c /\ l.mem[q] \in Node BY ChunkIsHeader
  <2>2. m.mem[q] = l2.mem[q] BY <2>1, <1>10
  <2>3. CASE q = a BY <2>1, <2>2, <2>3, <1>1, <1>4, <1>6 DEF StoredNext, StoredPrev
  <2>4. CASE q = p BY <2>1, <2>2, <2>4, <1>1, <1>4, <1>6 DEF StoredNext, StoredPrev
  <2>5. CASE q # a /\ q # p
    <3>1. m.mem[q] = l.mem[q] BY <2>1, <2>2, <2>5, <1>4, <1>6 DEF StoredNext, StoredPrev
    <3> QED BY <2>1, <3>1
  <2> QED BY <2>3, <2>4, <2>5
<1>13. m.mem[a].next = c
  <2>1. l2.mem[a] = l1.mem[a] /\ l1.mem[a].next = c BY <1>1, <1>2, <1>4, <1>6 DEF StoredNext, StoredPrev
  <2> QED BY <2>1, <1>1, <1>2, <1>10
<1>14. m.mem[p].prev = c
  <2>1. l2.mem[p].prev = c BY <1>6 DEF StoredPrev
  <2> QED BY <2>1, <1>1, <1>2, <1>10
<1>15. m.front = l.front /\ m.back = l.back /\ m.fault = l.fault
  <2>1. l1.front = l.front /\ l1.back = l.back /\ l1.fault = l.fault BY <1>4 DEF StoredNext
  <2>2. l2.front = l1.front /\ l2.back = l1.back /\ l2.fault = l1.fault BY <1>6 DEF StoredPrev
  <2>3. l3.front = l2.front /\ l3.back = l2.back /\ l3.fault = l2.fault BY <1>8 DEF StoredNext
  <2>4. m.front = l3.front /\ m.back = l3.back /\ m.fault = l3.fault BY <1>a DEF StoredPrev
  <2> QED BY <2>1, <2>2, <2>3, <2>4
<1>16. Between(l, C, p, m, c, n, a) BY <1>11, <1>12, <1>13, <1>14, <1>15 DEF Between
<1>17. Listing(m, C \cup {c}) BY <1>16, PutBetween
<1>18. PagesOf(m, C \cup {c}) = PagesOf(l, C) \cup Run(c, n)
  <2>1. SameSizes(l, m, C) BY <1>12 DEF SameSizes
  <2>2. PagesOf(m, C \cup {c}) = PagesOf(l, C) \cup Run(c, m.mem[c].size) BY <2>1, PagesOfMore
  <2>3. m.mem[c].size = n BY <1>11
  <2> QED BY <2>2, <2>3
<1> QED BY <1>15, <1>17, <1>18 DEF Adds

StoredSize(l, m, p, v) ==
    /\ m.front = l.front /\ m.back = l.back /\ m.fault = l.fault
    /\ \A q \in Page : q # p => m.mem[q] = l.mem[q]
    /\ m.mem[p].next = l.mem[p].next /\ m.mem[p].prev = l.mem[p].prev /\ m.mem[p].size = v
    /\ m.mem[p] \in Node

LEMMA SizeIs ==
    ASSUME NEW l, Typed(l), NEW p \in Page, IsHeader(l, p), NEW v \in 0..NumPages, p + v - 1 <= NumPages, NEW m,
           m = [l EXCEPT !.mem[p].size = v]
    PROVE  StoredSize(l, m, p, v) /\ Typed(m) /\ \A r : IsHeader(m, r) <=> IsHeader(l, r)
<1>1. StoredSize(l, m, p, v) BY DEF Typed, List, IsHeader, Node, StoredSize
<1>2. Typed(m) /\ \A r : IsHeader(m, r) <=> IsHeader(l, r) BY AssignTyped
<1> QED BY <1>1, <1>2

\* A traversal never recovers from a store through a bad pointer.
LEMMA FaultStays ==
    ASSUME NEW l \in List, l.fault = "list", NEW p, NEW field, NEW v
    PROVE  Store(l, p, field, v).fault = "list"
  BY DEF Store, Fault, List

\* The chunk p ends where the new run starts, and the next one is beyond it.
LEMMA MergeLeftGrows ==
    ASSUME NEW l, NEW C, Typed(l), Listing(l, C), NEW c, NEW n, RunInside(c, n), NEW p \in C,
           p + l.mem[p].size = c, \A q \in C : p < q => c + n < q, NEW m,
           StoredSize(l, m, p, l.mem[p].size + n)
    PROVE  Adds(l, C, m, c, n)
<1>1. /\ p \in Page /\ IsHeader(l, p) /\ l.mem[p] \in Node /\ p \in Nat /\ l.mem[p].size \in Nat /\ n \in Nat
      /\ l.mem[p].size >= 1
  BY ChunkIsHeader, ChunksAreInts DEF Listing, Placed, RunInside
<1>2. l.mem[p].size + n \in 0..NumPages /\ p + (l.mem[p].size + n) - 1 <= NumPages
  <2>1. NumPages \in Nat /\ c + n - 1 <= NumPages /\ p >= 1 BY PmmAssumption, <1>1 DEF RunInside, Page
  <2> QED BY <1>1, <2>1
<1>3. StoredSize(l, m, p, l.mem[p].size + n) OBVIOUS
<1>4. \A q \in C : q \in Page /\ l.mem[q] \in Node BY ChunkIsHeader
<1>5. Listing(m, C)
  <2>1. \A q \in C : m.mem[q] \in Node /\ m.mem[q].next = l.mem[q].next /\ m.mem[q].prev = l.mem[q].prev
    BY <1>3, <1>4 DEF StoredSize
  <2>2. \A q \in C : q # p => m.mem[q].size = l.mem[q].size BY <1>3, <1>4 DEF StoredSize
  <2>3. m.mem[p].size >= 1 /\ p + m.mem[p].size - 1 <= NumPages BY <1>1, <1>2, <1>3 DEF StoredSize
  <2>4. \A q \in C : p < q => p + m.mem[p].size < q
    <3>1. p + m.mem[p].size = c + n BY <1>1, <1>3 DEF StoredSize
    <3> QED BY <3>1
  <2>5. m.front = l.front /\ m.back = l.back BY <1>3 DEF StoredSize
  <2>6. Resizing(l, C, p, m) BY <2>1, <2>2, <2>3, <2>4, <2>5 DEF Resizing
  <2> QED BY <2>6, Resized
<1>6. PagesOf(m, C) = PagesOf(l, C) \cup Run(c, n)
  <2>1. Run(p, l.mem[p].size + n) = Run(p, l.mem[p].size) \cup Run(c, n) BY <1>1, RunSplit
  <2>2. Run(p, m.mem[p].size) = Run(p, l.mem[p].size) \cup Run(c, n) BY <2>1, <1>3 DEF StoredSize
  <2>3. SameSizes(l, m, C \ {p}) BY <1>3, <1>4 DEF SameSizes, StoredSize
  <2> QED BY <2>2, <2>3, PagesOfResized
<1> QED BY <1>5, <1>6 DEF Adds

\* The chunk p ends where the new run starts, and the chunk q where it ends: one
\* chunk of all three is left.
Swallowing(l, C, p, q, m, c, n) ==
    /\ p \in C /\ q \in C /\ q # l.back /\ p # l.back
    /\ l.mem[p].next = q /\ p < q
    /\ c \in Nat /\ n \in Nat \ {0} /\ p + l.mem[p].size = c /\ c + n = q
    /\ m.front = l.front /\ m.back = l.back
    /\ \A r \in C \ {q} : /\ m.mem[r] \in Node
                          /\ r # p => m.mem[r].size = l.mem[r].size
                          /\ m.mem[r].next = IF r = p THEN l.mem[q].next ELSE l.mem[r].next
                          /\ m.mem[r].prev = IF r = l.mem[q].next THEN p ELSE l.mem[r].prev
    /\ m.mem[p].size = l.mem[p].size + n + l.mem[q].size

LEMMA SwallowAdds ==
    ASSUME NEW l, NEW C, Listing(l, C), NEW p, NEW q, NEW m, NEW c, NEW n, Swallowing(l, C, p, q, m, c, n)
    PROVE  Adds(l, C, m, c, n)
<1>0. PICK D : D = C \ {q} OBVIOUS
<1> DEFINE node(r) == [size |-> l.mem[r].size, next |-> m.mem[r].next, prev |-> m.mem[r].prev]
<1>1. PICK k : k = [front |-> l.front, back |-> l.back, mem |-> [r \in D |-> node(r)]] OBVIOUS
<1>2. /\ NumPages \in Nat
      /\ \A r \in C : r \in Nat /\ r >= 1 /\ l.mem[r].size \in Nat /\ l.mem[r] \in Node
  BY ChunksAreInts
<1>3. /\ p \in C /\ q \in C /\ q # l.back /\ p # l.back
      /\ l.mem[p].next = q /\ p < q
      /\ c \in Nat /\ n \in Nat \ {0} /\ p + l.mem[p].size = c /\ c + n = q
      /\ m.front = l.front /\ m.back = l.back
      /\ m.mem[p].size = l.mem[p].size + n + l.mem[q].size
  BY DEF Swallowing
<1>4. /\ p \in D /\ p \in Nat /\ q \in Nat /\ l.mem[p].size \in Nat /\ l.mem[q].size \in Nat
      /\ l.mem[p].size >= 1 /\ n \in Nat /\ q + l.mem[q].size - 1 <= NumPages
  <2>1. p \in Nat /\ q \in Nat /\ p # q BY <1>2, <1>3
  <2> QED BY <1>0, <1>2, <1>3, <2>1 DEF Listing, Placed
<1>5. q # l.front /\ l.mem[q].prev = p
  <2>1. l.front <= p /\ l.front \in Nat BY <1>3, EndsOf
  <2> QED BY <2>1, <1>3, <1>4, Neighbours
<1>6. ASSUME NEW r \in D
      PROVE  /\ k.mem[r] \in Node /\ m.mem[r] \in Node
             /\ k.mem[r].size = l.mem[r].size
             /\ k.mem[r].next = m.mem[r].next
             /\ k.mem[r].prev = m.mem[r].prev
             /\ r # p => m.mem[r].size = l.mem[r].size
             /\ m.mem[r].next = IF r = p THEN l.mem[q].next ELSE l.mem[r].next
             /\ m.mem[r].prev = IF r = l.mem[q].next THEN p ELSE l.mem[r].prev
  <2>1. k.mem[r] = node(r) BY <1>1
  <2>2. /\ m.mem[r] \in Node
        /\ r # p => m.mem[r].size = l.mem[r].size
        /\ m.mem[r].next = IF r = p THEN l.mem[q].next ELSE l.mem[r].next
        /\ m.mem[r].prev = IF r = l.mem[q].next THEN p ELSE l.mem[r].prev
    BY <1>0 DEF Swallowing
  <2>3. l.mem[r] \in Node BY <1>0, <1>2
  <2>4. node(r) \in Node BY <2>2, <2>3 DEF Node
  <2> QED BY <2>1, <2>2, <2>4
<1>7. k.front = l.front /\ k.back = l.back BY <1>1
<1> HIDE DEF node
<1>8. Removing(l, C, q, k) BY <1>0, <1>3, <1>5, <1>6, <1>7 DEF Removing
<1>9. Listing(k, D) BY <1>0, <1>8, Removed
<1>10. SameSizes(l, k, C \ {q}) BY <1>0, <1>6 DEF SameSizes
<1>11. PagesOf(k, D) = PagesOf(l, C) \ Run(q, l.mem[q].size) BY <1>0, <1>3, <1>10, PagesOfFewer
<1>12. p + m.mem[p].size = q + l.mem[q].size /\ m.mem[p].size >= 1 BY <1>3, <1>4
<1>13. ASSUME NEW r \in D, p < r PROVE p + m.mem[p].size < r
  <2>1. r \in C /\ r # q /\ r \in Nat BY <1>0, <1>2
  <2>2. NextIs(l, C, p) BY <1>3 DEF Listing
  <2>3. q <= r BY <2>1, <2>2, <1>3, <1>13 DEF NextIs
  <2>4. q < r BY <2>1, <2>3, <1>4
  <2>5. q + l.mem[q].size < r BY <2>1, <2>4, <1>3 DEF Listing, Placed
  <2> QED BY <2>5, <1>12
<1>14. Resizing(k, D, p, m)
  <2>1. p + m.mem[p].size - 1 <= NumPages
    <3>1. m.mem[p].size \in Int /\ p \in Int BY <1>3, <1>4
    <3> QED BY <3>1, <1>2, <1>4, <1>12
  <2>2. m.front = k.front /\ m.back = k.back BY <1>3, <1>7
  <2> QED BY <2>1, <2>2, <1>4, <1>6, <1>12, <1>13 DEF Resizing
<1>15. Listing(m, D) BY <1>9, <1>14, Resized
<1>16. PICK t : t = n + l.mem[q].size OBVIOUS
<1>17. Run(p, l.mem[p].size + t) = Run(p, l.mem[p].size) \cup Run(c, t)
  <2>1. PICK s : s = l.mem[p].size OBVIOUS
  <2>2. p \in Nat /\ s \in Nat /\ t \in Nat BY <2>1, <1>4, <1>16
  <2>3. Run(p, s + t) = Run(p, s) \cup Run(p + s, t) BY <2>2, RunSplit
  <2> QED BY <2>1, <2>3, <1>3
<1>18. Run(c, t) = Run(c, n) \cup Run(q, l.mem[q].size)
  <2>1. PICK s : s = l.mem[q].size OBVIOUS
  <2>2. c \in Nat /\ n \in Nat /\ s \in Nat BY <2>1, <1>3, <1>4
  <2>3. Run(c, n + s) = Run(c, n) \cup Run(c + n, s) BY <2>2, RunSplit
  <2> QED BY <2>1, <2>3, <1>3, <1>16
<1>19. PagesOf(m, D) = PagesOf(k, D) \cup Run(c, t)
  <2>1. m.mem[p].size = l.mem[p].size + t BY <1>3, <1>4, <1>16
  <2>2. k.mem[p].size = l.mem[p].size BY <1>4, <1>6
  <2>3. Run(p, m.mem[p].size) = Run(p, k.mem[p].size) \cup Run(c, t) BY <2>1, <2>2, <1>17
  <2>4. SameSizes(k, m, D \ {p}) BY <1>6 DEF SameSizes
  <2> QED BY <2>3, <2>4, <1>4, PagesOfResized
<1>20. Run(q, l.mem[q].size) \subseteq PagesOf(l, C) BY <1>3 DEF PagesOf
<1>21. PagesOf(m, D) = PagesOf(l, C) \cup Run(c, n) BY <1>11, <1>18, <1>19, <1>20
<1> QED BY <1>15, <1>21 DEF Adds

LEMMA MergeLeftAdds ==
    ASSUME NEW l, NEW C, Typed(l), Listing(l, C), NEW c, NEW n, RunInside(c, n), Apart(l, C, c, n),
           NEW p \in C, p # l.back, p + l.mem[p].size = c, NEW m, m = MergeLeft(l, p, c, n), m.fault # "list"
    PROVE  Adds(l, C, m, c, n) /\ m.fault = l.fault
<1>1. PICK q : q = l.mem[p].next OBVIOUS
<1>2. q \in C /\ p < q /\ \A r \in C : p < r => q <= r
  <2>1. NextIs(l, C, p) BY DEF Listing
  <2> QED BY <2>1, <1>1 DEF NextIs
<1>3. /\ p \in Nat /\ q \in Nat /\ c \in Nat /\ n \in Nat \ {0} /\ l.mem[p].size \in Nat /\ l.mem[q].size \in Nat
      /\ l.mem[p].size >= 1 /\ l.mem[q].size >= 1 /\ NumPages \in Nat /\ c \in Page /\ p >= 1
      /\ q + l.mem[q].size - 1 <= NumPages
  <2>1. c \in Page /\ c \in Nat /\ n \in Nat \ {0} BY PmmAssumption DEF RunInside, Page
  <2> QED BY <2>1, <1>2, ChunksAreInts DEF Listing, Placed
<1>4. c + n <= q
  <2>1. q + l.mem[q].size <= c \/ c + n <= q BY <1>2, <1>3, ApartIs
  <2>2. p + l.mem[p].size < q BY <1>2 DEF Listing, Placed
  <2> QED BY <2>1, <2>2, <1>3
<1>5. p \in Page /\ p \in Ptr /\ IsHeader(l, p) /\ q \in Page /\ q \in Ptr /\ IsHeader(l, q) /\ q # Null
  BY <1>2, ChunkIsHeader, PmmAssumption
<1>6. PICK k : k = [l EXCEPT !.mem[p].size = l.mem[p].size + n] OBVIOUS
<1>7. l.mem[p].size + n \in 0..NumPages /\ p + (l.mem[p].size + n) - 1 <= NumPages
  BY <1>3, <1>4
<1>8. StoredSize(l, k, p, l.mem[p].size + n) /\ Typed(k) /\ \A r : IsHeader(k, r) <=> IsHeader(l, r)
  <2> DEFINE s == l.mem[p].size + n
  <2>1. s \in 0..NumPages /\ p + s - 1 <= NumPages /\ k = [l EXCEPT !.mem[p].size = s] BY <1>6, <1>7
  <2> HIDE DEF s
  <2>2. StoredSize(l, k, p, s) /\ Typed(k) /\ \A r : IsHeader(k, r) <=> IsHeader(l, r)
    BY <2>1, <1>5, SizeIs
  <2> QED BY <2>2 DEF s
<1>9. p + k.mem[p].size = c + n BY <1>3, <1>8 DEF StoredSize
<1>10. CASE c + n # q
  <2>1. m = k BY <1>1, <1>6, <1>9, <1>10 DEF MergeLeft
  <2>2. \A r \in C : p < r => c + n < r
    <3> SUFFICES ASSUME NEW r \in C, p < r PROVE c + n < r OBVIOUS
    <3>1. r \in Nat BY ChunksAreInts
    <3>2. q <= r BY <1>2
    <3> QED BY <3>1, <3>2, <1>3, <1>4, <1>10
  <2>3. Adds(l, C, m, c, n) BY <2>1, <2>2, <1>8, MergeLeftGrows
  <2>4. m.fault = l.fault BY <2>1, <1>8 DEF StoredSize
  <2> QED BY <2>3, <2>4
<1>11. CASE c + n = q
  <2>1. PICK far : far = l.mem[q].next OBVIOUS
  <2>2. PICK g : g = Store(k, far, "prev", p) OBVIOUS
  <2>3. PICK h : h = [g EXCEPT !.mem[p].size = g.mem[p].size + l.mem[q].size] OBVIOUS
  <2>4. m = Store(h, p, "next", far)
    <3>1. m = Store([Store(k, far, "prev", p) EXCEPT !.mem[p].size = @ + l.mem[q].size], p, "next", far)
      BY <1>1, <1>5, <1>6, <1>9, <1>11, <2>1 DEF MergeLeft, Swallowed
    <3> QED BY <3>1, <2>2, <2>3
  <2>5. q # l.back
    <3> SUFFICES ASSUME q = l.back PROVE FALSE OBVIOUS
    <3>1. NextIs(l, C, q) BY <1>2 DEF Listing
    <3>2. far = Null BY <3>1, <2>1 DEF NextIs
    <3>3. g = Fault(k) BY <3>2, <2>2, PmmAssumption DEF Store, IsHeader
    <3>4. g \in List /\ g.fault = "list" BY <3>3, <1>5, <1>8, AssignTyped DEF Fault, Typed, List
    <3>5. h \in [mem : [Page -> {g.mem[r] : r \in Page} \cup {h.mem[p]}], front : Ptr, back : Ptr, fault : {"list"}]
      BY <3>4, <2>3, <1>5 DEF List
    <3>6. m.fault = "list" BY <2>4, <3>5 DEF Store, Fault
    <3> QED BY <3>6
  <2>6. far \in C /\ q < far
    <3>1. NextIs(l, C, q) BY <1>2 DEF Listing
    <3> QED BY <3>1, <2>1, <2>5 DEF NextIs
  <2>7. far \in Page /\ far \in Ptr /\ IsHeader(k, far) /\ far # p /\ far # q
    <3>1. far \in Nat BY <2>6, ChunksAreInts
    <3> QED BY <3>1, <2>6, <1>2, <1>3, <1>8, ChunkIsHeader
  <2>8. StoredPrev(k, g, far, p) /\ Typed(g) /\ IsHeader(g, p)
    BY <2>2, <2>7, <1>5, <1>8, StoreIs, StoreTyped
  <2>9. g.mem[p].size = l.mem[p].size + n
    BY <2>7, <2>8, <1>5, <1>8 DEF StoredPrev, StoredSize
  <2>10. PICK s : s = l.mem[p].size + n + l.mem[q].size OBVIOUS
  <2>11. s \in 0..NumPages /\ p + s - 1 <= NumPages BY <2>10, <1>3, <1>11
  <2>12. h = [g EXCEPT !.mem[p].size = s] BY <2>3, <2>9, <2>10
  <2>13. StoredSize(g, h, p, s) /\ Typed(h) /\ IsHeader(h, p) BY <2>8, <2>11, <2>12, <1>5, SizeIs
  <2>14. StoredNext(h, m, p, far) BY <2>4, <2>7, <2>13, <1>5, StoreIs
  <2>15. ASSUME NEW r \in C \ {q}
         PROVE  /\ m.mem[r] \in Node
                /\ r # p => m.mem[r].size = l.mem[r].size
                /\ m.mem[r].next = IF r = p THEN far ELSE l.mem[r].next
                /\ m.mem[r].prev = IF r = far THEN p ELSE l.mem[r].prev
    <3>1. r \in Page /\ l.mem[r] \in Node BY ChunkIsHeader
    <3>2. CASE r = p BY <3>1, <3>2, <2>7, <2>8, <2>13, <2>14, <1>8 DEF StoredNext, StoredPrev, StoredSize
    <3>3. CASE r = far
      <4>1. m.mem[r] = g.mem[r] BY <3>1, <3>3, <2>7, <2>13, <2>14 DEF StoredNext, StoredSize
      <4>2. k.mem[r] = l.mem[r] BY <3>1, <3>3, <2>7, <1>8 DEF StoredSize
      <4> QED BY <3>3, <4>1, <4>2, <2>7, <2>8 DEF StoredPrev
    <3>4. CASE r # p /\ r # far
      <4>1. m.mem[r] = l.mem[r]
        BY <3>1, <3>4, <2>8, <2>13, <2>14, <1>8 DEF StoredNext, StoredPrev, StoredSize
      <4> QED BY <3>1, <3>4, <4>1
    <3> QED BY <3>2, <3>3, <3>4
  <2>16. m.mem[p].size = l.mem[p].size + n + l.mem[q].size
    BY <2>10, <2>13, <2>14 DEF StoredNext, StoredSize
  <2>17. m.front = l.front /\ m.back = l.back /\ m.fault = l.fault
    BY <2>8, <2>13, <2>14, <1>8 DEF StoredNext, StoredPrev, StoredSize
  <2>18. Swallowing(l, C, p, q, m, c, n)
    BY <2>1, <2>5, <2>15, <2>16, <2>17, <1>1, <1>2, <1>3, <1>11 DEF Swallowing
  <2>19. Adds(l, C, m, c, n) BY <2>18, SwallowAdds
  <2> QED BY <2>17, <2>19
<1> QED BY <1>10, <1>11

LEMMA ReplaceAdds ==
    ASSUME NEW l, NEW C, Listing(l, C), NEW p, NEW m, NEW c, NEW n, Replacing(l, C, p, m, c, n)
    PROVE  Adds(l, C, m, c, n)
<1>1. PICK D : D = C \ {p} OBVIOUS
<1>2. /\ p \in C /\ c + n = p /\ n \in Nat /\ c \in Nat
      /\ m.mem[c].size = n + l.mem[p].size
      /\ \A q \in D : m.mem[q].size = l.mem[q].size
  BY <1>1, PmmAssumption DEF Replacing, Page
<1>3. Listing(m, D \cup {c}) BY <1>1, Replaced
<1>4. SameSizes(l, m, C \ {p}) BY <1>1, <1>2 DEF SameSizes
<1>5. PagesOf(m, D) = PagesOf(l, C) \ Run(p, l.mem[p].size) BY <1>1, <1>2, <1>4, PagesOfFewer
<1>6. PagesOf(m, D \cup {c}) = PagesOf(m, D) \cup Run(c, m.mem[c].size)
  <2>1. SameSizes(m, m, D) BY DEF SameSizes
  <2> QED BY <2>1, PagesOfMore
<1>7. Run(c, n + l.mem[p].size) = Run(c, n) \cup Run(p, l.mem[p].size)
  <2>1. PICK s : s = l.mem[p].size OBVIOUS
  <2>2. s \in Nat /\ c \in Nat /\ n \in Nat BY <2>1, <1>2, ChunksAreInts
  <2>3. Run(c, n + s) = Run(c, n) \cup Run(c + n, s) BY <2>2, RunSplit
  <2> QED BY <2>1, <2>3, <1>2
<1>8. Run(p, l.mem[p].size) \subseteq PagesOf(l, C) BY <1>2 DEF PagesOf
<1>9. PagesOf(m, D \cup {c}) = PagesOf(l, C) \cup Run(c, n) BY <1>2, <1>5, <1>6, <1>7, <1>8
<1> QED BY <1>3, <1>9 DEF Adds

\* One whole header written.
StoredNode(l, m, p, node) ==
    /\ m.front = l.front /\ m.back = l.back /\ m.fault = l.fault
    /\ \A q \in Page : q # p => m.mem[q] = l.mem[q]
    /\ m.mem[p] = node

LEMMA NodeIs ==
    ASSUME NEW l, Typed(l), NEW p \in Page, NEW node \in Node, p + node.size - 1 <= NumPages, NEW m,
           m = [l EXCEPT !.mem[p] = node]
    PROVE  StoredNode(l, m, p, node) /\ Typed(m) /\ \A r : IsHeader(l, r) => IsHeader(m, r)
<1>1. StoredNode(l, m, p, node) BY DEF Typed, List, StoredNode
<1>2. Typed(m) BY AssignTyped
<1>3. \A r : IsHeader(l, r) => IsHeader(m, r) BY <1>1, PmmAssumption DEF StoredNode, IsHeader
<1> QED BY <1>1, <1>2, <1>3

LEMMA MergeRightAdds ==
    ASSUME NEW l, NEW C, Typed(l), Listing(l, C), NEW c, NEW n, RunInside(c, n), c \notin C,
           NEW p \in C, p # l.front, c + n = p, l.mem[p].prev + l.mem[l.mem[p].prev].size < c,
           NEW m, m = MergeRight(l, p, c, n), m.fault # "list"
    PROVE  Adds(l, C, m, c, n) /\ m.fault = l.fault
<1>1. PICK a : a = l.mem[p].prev OBVIOUS
<1>2. PICK b : b = l.mem[p].next OBVIOUS
<1>3. a \in C /\ a < p
  <2>1. PrevIs(l, C, p) BY DEF Listing
  <2> QED BY <2>1, <1>1 DEF PrevIs
<1>4. /\ NumPages \in Nat /\ p \in Nat /\ p >= 1 /\ l.mem[p].size \in Nat /\ c \in Page /\ c \in Nat /\ n \in Nat \ {0}
      /\ l.mem[p] \in Node /\ p + l.mem[p].size - 1 <= NumPages /\ c >= 1 /\ a \in Nat
  <2>1. c \in Page /\ c \in Nat /\ c >= 1 /\ n \in Nat \ {0} BY PmmAssumption DEF RunInside, Page
  <2> QED BY <2>1, <1>3, ChunksAreInts DEF Listing, Placed
<1>5. b \in Ptr /\ a \in Ptr /\ c \in Ptr BY <1>1, <1>2, <1>4 DEF Node, Ptr
<1>6. PICK s : s = n + l.mem[p].size OBVIOUS
<1>7. s \in 0..NumPages /\ c + s - 1 <= NumPages BY <1>4, <1>6
<1>8. PICK node : node = [size |-> s, next |-> b, prev |-> a] OBVIOUS
<1>9. node \in Node /\ node.size = s /\ node.next = b /\ node.prev = a BY <1>5, <1>7, <1>8 DEF Node
<1>10. PICK k : k = [l EXCEPT !.mem[c] = node] OBVIOUS
<1>11. StoredNode(l, k, c, node) /\ Typed(k) /\ \A r : IsHeader(l, r) => IsHeader(k, r)
  BY <1>4, <1>7, <1>9, <1>10, NodeIs
<1>12. PICK g : g = Store(k, b, "prev", c) OBVIOUS
<1>13. m = Store(g, a, "next", c) BY <1>1, <1>2, <1>6, <1>8, <1>10, <1>12 DEF MergeRight
<1>14. p # l.back
  <2> SUFFICES ASSUME p = l.back PROVE FALSE OBVIOUS
  <2>1. NextIs(l, C, p) BY DEF Listing
  <2>2. b = Null BY <2>1, <1>2 DEF NextIs
  <2>3. g = Fault(k) BY <2>2, <1>12, PmmAssumption DEF Store, IsHeader
  <2>4. g \in List /\ g.fault = "list" BY <2>3, <1>11, <1>4, AssignTyped DEF Fault, Typed, List
  <2> QED BY <2>4, <1>13, FaultStays
<1>15. b \in C /\ p < b /\ b \in Nat
  <2>1. NextIs(l, C, p) BY DEF Listing
  <2> QED BY <2>1, <1>2, <1>14, ChunksAreInts DEF NextIs
<1>16. a \in Page /\ IsHeader(k, a) /\ b \in Page /\ IsHeader(k, b) /\ a # b /\ a # c /\ b # c /\ a # p
  BY <1>3, <1>4, <1>11, <1>15, ChunkIsHeader
<1>17. StoredPrev(k, g, b, c) /\ Typed(g) /\ IsHeader(g, a)
  BY <1>5, <1>11, <1>12, <1>16, StoreIs, StoreTyped
<1>18. StoredNext(g, m, a, c) BY <1>5, <1>13, <1>16, <1>17, StoreIs
<1>19. ASSUME NEW q \in C \ {p}
       PROVE  /\ m.mem[q] \in Node
              /\ m.mem[q].size = l.mem[q].size
              /\ q # a => m.mem[q].next = l.mem[q].next
              /\ q # b => m.mem[q].prev = l.mem[q].prev
  <2>1. q \in Page /\ l.mem[q] \in Node /\ q # c BY ChunkIsHeader
  <2>2. k.mem[q] = l.mem[q] BY <2>1, <1>11 DEF StoredNode
  <2>3. CASE q = a BY <2>2, <2>3, <1>16, <1>17, <1>18 DEF StoredNext, StoredPrev
  <2>4. CASE q = b BY <2>2, <2>4, <1>16, <1>17, <1>18 DEF StoredNext, StoredPrev
  <2>5. CASE q # a /\ q # b
    <3>1. m.mem[q] = l.mem[q] BY <2>1, <2>2, <2>5, <1>17, <1>18 DEF StoredNext, StoredPrev
    <3> QED BY <2>1, <3>1
  <2> QED BY <2>3, <2>4, <2>5
<1>20. m.mem[a].next = c BY <1>18 DEF StoredNext
<1>21. m.mem[b].prev = c BY <1>16, <1>17, <1>18 DEF StoredNext, StoredPrev
<1>22. m.mem[c] = [size |-> n + l.mem[p].size, next |-> b, prev |-> a]
  <2>1. m.mem[c] = node BY <1>4, <1>11, <1>16, <1>17, <1>18 DEF StoredNext, StoredPrev, StoredNode
  <2> QED BY <2>1, <1>6, <1>8
<1>23. m.front = l.front /\ m.back = l.back /\ m.fault = l.fault
  BY <1>11, <1>17, <1>18 DEF StoredNext, StoredPrev, StoredNode
<1>24. Replacing(l, C, p, m, c, n)
  <2>1. \A q \in C \ {p} : /\ m.mem[q] \in Node
                           /\ m.mem[q].size = l.mem[q].size
                           /\ q # l.mem[p].prev => m.mem[q].next = l.mem[q].next
                           /\ q # l.mem[p].next => m.mem[q].prev = l.mem[q].prev
    BY <1>1, <1>2, <1>19
  <2> QED BY <2>1, <1>1, <1>2, <1>4, <1>14, <1>20, <1>21, <1>22, <1>23 DEF Replacing
<1>25. Adds(l, C, m, c, n) BY <1>24, ReplaceAdds
<1> QED BY <1>23, <1>25

\* Where the loop of insert_chunk stops.
LEMMA InsertIs ==
    ASSUME NEW l, NEW c, NEW n, NEW stops, stops = {k \in DOMAIN Chain(l) : Stops(l, Chain(l)[k], c)},
           stops # {}, NEW first, first = (CHOOSE k \in stops : \A j \in stops : k <= j), NEW p, p = Chain(l)[first]
    PROVE  InsertChunk(l, c, n) = IF p < c THEN MergeLeft(l, p, c, n)
                                  ELSE IF c + n = p THEN MergeRight(l, p, c, n)
                                  ELSE InsertBetween(l, c, l.mem[p].prev, p)
<1> DEFINE s == {k \in DOMAIN Chain(l) : Stops(l, Chain(l)[k], c)}
           f == CHOOSE k \in s : \A j \in s : k <= j
           q == Chain(l)[f]
<1>1. stops = s OBVIOUS
<1> HIDE DEF s
<1>2. first = f BY <1>1
<1> HIDE DEF f
<1>3. p = q BY <1>2
<1>4. InsertChunk(l, c, n) = IF q < c THEN MergeLeft(l, q, c, n)
                             ELSE IF c + n = q THEN MergeRight(l, q, c, n)
                             ELSE InsertBetween(l, c, l.mem[q].prev, q)
  <2>1. s # {} BY <1>1
  <2> QED BY <2>1 DEF InsertChunk, s, f
<1> HIDE DEF q
<1> QED BY <1>3, <1>4

\* The traversal stops at the chunk that ends where the run starts, or at the first
\* one above it, which is then the one after the run.
LEMMA InsertAdds ==
    ASSUME NEW l, NEW C, Typed(l), Listing(l, C), C # {}, NEW c, NEW n, RunInside(c, n), Apart(l, C, c, n),
           c \notin C, l.mem[c] = NewNode(n), IsHeader(l, c), l.front <= c, ~(l.back < c),
           NEW m, m = InsertChunk(l, c, n), m.fault # "list"
    PROVE  Adds(l, C, m, c, n) /\ m.fault = l.fault
<1>1. PICK len \in Nat : Walks(l, C, len) BY ChainWalks
<1>2. PICK chain : chain = Chain(l) OBVIOUS
<1>3. /\ DOMAIN chain = 1..len /\ len # 0
      /\ chain[len] = l.back
      /\ \A k \in 1..len : chain[k] \in C
      /\ \A q \in C : \E k \in 1..len : chain[k] = q
      /\ \A i, j \in 1..len : i < j => chain[i] < chain[j]
  BY <1>1, <1>2 DEF Walks
<1>4. /\ c \in Page /\ c \in Nat /\ n \in Nat \ {0}
      /\ \A q \in C : q \in Nat /\ q # c /\ l.mem[q].size \in Nat /\ l.mem[q].size >= 1
      /\ l.front \in C /\ l.back \in C /\ l.front \in Nat /\ l.back \in Nat
  <2>1. c \in Page /\ c \in Nat /\ n \in Nat \ {0} BY PmmAssumption DEF RunInside, Page
  <2> QED BY <2>1, ChunksAreInts, EndsOf DEF Listing, Placed
<1>5. PICK stops : stops = {k \in DOMAIN chain : Stops(l, chain[k], c)} OBVIOUS
<1>6. stops # {}
  <2>1. l.back >= c BY <1>4
  <2> QED BY <2>1, <1>3, <1>5 DEF Stops
<1>7. stops \in SUBSET Nat BY <1>3, <1>5
<1>8. PICK first : first = CHOOSE k \in stops : \A j \in stops : k <= j OBVIOUS
<1>9. first \in stops /\ \A j \in stops : first <= j BY <1>6, <1>7, <1>8, FirstIndex
<1>10. PICK p : p = chain[first] OBVIOUS
<1>11. p \in C /\ Stops(l, p, c) /\ p \in Nat /\ p # c BY <1>3, <1>4, <1>5, <1>9, <1>10
<1>12. m = IF p < c THEN MergeLeft(l, p, c, n)
           ELSE IF c + n = p THEN MergeRight(l, p, c, n)
           ELSE InsertBetween(l, c, l.mem[p].prev, p)
  BY <1>2, <1>5, <1>6, <1>8, <1>10, InsertIs
<1>13. CASE p < c
  <2>1. p + l.mem[p].size = c BY <1>4, <1>11, <1>13 DEF Stops
  <2>2. p # l.back BY <1>4, <1>13
  <2>3. m = MergeLeft(l, p, c, n) BY <1>12, <1>13
  <2> QED BY <2>1, <2>2, <2>3, <1>11, MergeLeftAdds
<1>14. CASE ~(p < c)
  <2>1. c < p /\ p # l.front BY <1>4, <1>11, <1>14
  <2>2. PICK a : a = l.mem[p].prev OBVIOUS
  <2>3. a \in C /\ a < p
    <3>1. PrevIs(l, C, p) BY <1>11 DEF Listing
    <3> QED BY <3>1, <2>1, <2>2 DEF PrevIs
  <2>4. PICK k \in 1..len : chain[k] = a BY <2>3, <1>3
  <2>5. k < first
    <3> SUFFICES ASSUME ~(k < first) PROVE FALSE OBVIOUS
    <3>1. first \in 1..len BY <1>3, <1>5, <1>9
    <3>2. k = first \/ first < k BY <3>1, <2>4
    <3>3. a = p \/ p < a BY <3>1, <3>2, <2>4, <1>3, <1>10
    <3> QED BY <3>3, <2>3, <1>4, <1>11
  <2>6. ~Stops(l, a, c)
    <3>1. k \notin stops BY <2>4, <2>5, <1>7, <1>9
    <3> QED BY <3>1, <2>4, <1>3, <1>5
  <2>7. a < c /\ a + l.mem[a].size # c BY <2>3, <2>6, <1>4 DEF Stops
  <2>8. a + l.mem[a].size < c
    <3>1. a + l.mem[a].size <= c \/ c + n <= a BY <2>3, <1>4, ApartIs
    <3> QED BY <3>1, <2>3, <2>7, <1>4
  <2>9. c + n <= p
    <3>1. p + l.mem[p].size <= c \/ c + n <= p BY <1>4, <1>11, ApartIs
    <3> QED BY <3>1, <2>1, <1>4, <1>11
  <2>10. CASE c + n = p
    <3>1. m = MergeRight(l, p, c, n) BY <2>10, <1>12, <1>14
    <3>2. l.mem[p].prev + l.mem[l.mem[p].prev].size < c BY <2>2, <2>8
    <3> QED BY <3>1, <3>2, <2>1, <2>10, <1>11, MergeRightAdds
  <2>11. CASE c + n # p
    <3>1. m = InsertBetween(l, c, a, p) BY <2>2, <2>11, <1>12, <1>14
    <3>2. c + n < p BY <2>9, <2>11, <1>4, <1>11
    <3> QED BY <3>1, <3>2, <2>1, <2>2, <2>8, <1>4, <1>11, InsertBetweenAdds
  <2> QED BY <2>10, <2>11
<1> QED BY <1>13, <1>14

\* The first chunk of an empty list.
LEMMA FirstAdds ==
    ASSUME NEW l, Typed(l), Listing(l, {}), NEW c, NEW n, RunInside(c, n), l.mem[c] = NewNode(n), NEW m,
           m = [l EXCEPT !.front = c, !.back = c, !.mem[c].prev = Null]
    PROVE  Adds(l, {}, m, c, n) /\ m.fault = l.fault
<1>1. c \in Page /\ c \in Nat /\ n \in Nat \ {0} /\ n \in 0..NumPages /\ c + n - 1 <= NumPages
  BY PmmAssumption DEF RunInside, Page
<1>2. m.front = c /\ m.back = c /\ m.fault = l.fault
  BY DEF Typed, List
<1>3. m.mem[c] = [l.mem[c] EXCEPT !.prev = Null] BY <1>1 DEF Typed, List
<1>4. m.mem[c] = [size |-> n, next |-> Null, prev |-> Null] BY <1>3 DEF NewNode
<1>5. m.mem[c].size = n /\ m.mem[c].next = Null /\ m.mem[c].prev = Null BY <1>4
<1>6. m.mem[c] \in Node BY <1>1, <1>4 DEF Node, Ptr
<1>7. Placed(m, {c})
  <2>1. ~(c < c) BY <1>1
  <2> QED BY <2>1, <1>1, <1>5, <1>6 DEF Placed
<1>8. Ends(m, {c})
  <2>1. c <= c BY <1>1
  <2> QED BY <2>1, <1>2 DEF Ends
<1>9. NextIs(m, {c}, c) /\ PrevIs(m, {c}, c) BY <1>2, <1>5 DEF NextIs, PrevIs
<1>10. Listing(m, {c}) BY <1>7, <1>8, <1>9 DEF Listing
<1>11. PagesOf(m, {c}) = PagesOf(l, {}) \cup Run(c, n) BY <1>5 DEF PagesOf
<1> QED BY <1>2, <1>10, <1>11 DEF Adds

\* pmm_add_chunk, above the first chunk, keeps the list sound and adds the run to it,
\* whatever neighbours it has; it may only fail by merging past the last chunk.
LEMMA AddAdds ==
    ASSUME NEW l, NEW C, Typed(l), Listing(l, C), NEW c, NEW n, RunInside(c, n), Apart(l, C, c, n),
           ~(l.front # Null /\ c < l.front), NEW m, m = AddChunk(l, c, n)
    PROVE  /\ m.fault # "list" => Adds(l, C, m, c, n) /\ m.fault = l.fault
           /\ C = {} \/ l.back < c => m.fault = l.fault
<1>1. PICK k : k = [l EXCEPT !.mem[c] = NewNode(n)] /\ c \notin C /\ SameList(l, C, k) /\ k.mem[c] = NewNode(n)
  BY NewHeader
<1>2. /\ c \notin C /\ Typed(k) /\ Listing(k, C) /\ PagesOf(k, C) = PagesOf(l, C)
      /\ k.front = l.front /\ k.back = l.back /\ k.fault = l.fault /\ k.mem[c] = NewNode(n)
  BY <1>1 DEF SameList
<1>3. Apart(k, C, c, n) BY <1>2 DEF Apart
<1>4. IsHeader(k, c)
  <2>1. c \in Page BY DEF RunInside
  <2>2. NewNode(n) # Unknown BY <2>1, PmmAssumption DEF NewNode, Node, RunInside, Ptr
  <2> QED BY <2>1, <2>2, <1>2 DEF IsHeader
<1>5. m = IF l.front = Null THEN [k EXCEPT !.front = c, !.back = c, !.mem[c].prev = Null]
          ELSE IF l.back < c THEN AppendChunk(k, c, n)
          ELSE IF l.front > c THEN PrependChunk(k, c, n)
          ELSE InsertChunk(k, c, n)
  BY <1>1 DEF AddChunk, NewNode
<1>6. C = {} <=> l.front = Null
  <2>1. Null \notin C BY ChunksAreInts
  <2> QED BY <2>1 DEF Listing, Ends
<1>7. Adds(k, C, m, c, n) => Adds(l, C, m, c, n) BY <1>2 DEF Adds
<1>8. CASE C = {}
  <2>1. m = [k EXCEPT !.front = c, !.back = c, !.mem[c].prev = Null] BY <1>5, <1>6, <1>8
  <2>2. Listing(k, {}) /\ Typed(k) /\ k.mem[c] = NewNode(n) BY <1>2, <1>8
  <2>3. Adds(k, {}, m, c, n) /\ m.fault = k.fault BY <2>1, <2>2, FirstAdds
  <2> QED BY <2>3, <1>2, <1>7, <1>8
<1>9. CASE C # {} /\ l.back < c
  <2>1. m = AppendChunk(k, c, n) BY <1>5, <1>6, <1>9
  <2>2. m.fault = k.fault /\ Adds(k, C, m, c, n) BY <2>1, <1>2, <1>3, <1>9, AppendAdds
  <2> QED BY <2>2, <1>2, <1>7
<1>10. CASE C # {} /\ ~(l.back < c)
  <2>0. c \in Nat /\ l.front \in Nat BY <1>10, EndsOf, PmmAssumption DEF RunInside, Page
  <2>1. k.front <= c BY <2>0, <1>2, <1>6, <1>10
  <2>2. m = InsertChunk(k, c, n) BY <2>0, <2>1, <1>2, <1>5, <1>6, <1>10
  <2>3. ASSUME m.fault # "list" PROVE Adds(k, C, m, c, n) /\ m.fault = k.fault
    BY <2>1, <2>2, <2>3, <1>2, <1>3, <1>4, <1>10, InsertAdds
  <2> QED BY <2>3, <1>2, <1>7, <1>10
<1> QED BY <1>8, <1>9, <1>10

-----------------------------------------------------------------------------
(* Allocation.                                                             *)

\* Two chunks share no page.
LEMMA ChunksApart ==
    ASSUME NEW l, NEW C, Listing(l, C), NEW p \in C, NEW q \in C, NEW x,
           x \in Run(p, l.mem[p].size), x \in Run(q, l.mem[q].size)
    PROVE  p = q
<1>1. p \in Nat /\ q \in Nat /\ l.mem[p].size \in Nat /\ l.mem[q].size \in Nat BY ChunksAreInts
<1>2. /\ p < q => p + l.mem[p].size < q
      /\ q < p => q + l.mem[q].size < p
  BY DEF Listing, Placed
<1>3. x \in Int /\ q <= x /\ x < q + l.mem[q].size /\ p <= x /\ x < p + l.mem[p].size
  BY <1>1 DEF Run
<1> QED BY <1>1, <1>2, <1>3

\* The list k without the pages of the run.
Takes(l, C, k, q, n) ==
    /\ \E D : Listing(k, D) /\ PagesOf(k, D) = PagesOf(l, C) \ Run(q, n)
    /\ Run(q, n) \subseteq PagesOf(l, C)
    /\ k.fault = l.fault

\* The end of a chunk that has more than n pages.
LEMMA ShrinkTakes ==
    ASSUME NEW l, NEW C, Typed(l), Listing(l, C), NEW p \in C, NEW n \in Nat \ {0}, NEW left \in Nat \ {0},
           l.mem[p].size = left + n, NEW k, StoredSize(l, k, p, left)
    PROVE  Takes(l, C, k, p + left, n)
<1>1. /\ p \in Nat /\ left \in Nat /\ n \in Nat /\ NumPages \in Nat
      /\ \A q \in C : q \in Page /\ l.mem[q] \in Node /\ q \in Nat
  BY ChunkIsHeader, ChunksAreInts
<1>2. /\ k.front = l.front /\ k.back = l.back /\ k.fault = l.fault
      /\ k.mem[p].size = left
      /\ \A q \in C : q # p => k.mem[q] = l.mem[q]
      /\ k.mem[p] \in Node /\ k.mem[p].next = l.mem[p].next /\ k.mem[p].prev = l.mem[p].prev
  BY <1>1 DEF StoredSize
<1>3. Resizing(l, C, p, k)
  <2>1. \A q \in C : k.mem[q] \in Node /\ k.mem[q].next = l.mem[q].next /\ k.mem[q].prev = l.mem[q].prev
    BY <1>1, <1>2
  <2>2. p + (left + n) - 1 <= NumPages BY DEF Listing, Placed
  <2>3. p + left - 1 <= NumPages BY <2>2, <1>1
  <2>4. ASSUME NEW q \in C, p < q PROVE p + left < q
    <3>1. p + (left + n) < q BY <2>4 DEF Listing, Placed
    <3>2. q \in Nat BY <1>1
    <3> QED BY <3>1, <3>2, <1>1
  <2> QED BY <2>1, <2>3, <2>4, <1>2 DEF Resizing
<1>4. Listing(k, C) BY <1>3, Resized
<1>5. Run(p, left + n) = Run(p, left) \cup Run(p + left, n) BY <1>1, RunSplit
<1>6. \A x : ~(x \in Run(p, left) /\ x \in Run(p + left, n)) BY <1>1 DEF Run
<1>7. Run(p + left, n) \subseteq PagesOf(l, C) BY <1>5 DEF PagesOf
<1>8. PagesOf(k, C) = PagesOf(l, C) \ Run(p + left, n)
  <2> SUFFICES ASSUME NEW x PROVE x \in PagesOf(k, C) <=> x \in PagesOf(l, C) \ Run(p + left, n) OBVIOUS
  <2>1. x \in PagesOf(k, C) <=> x \in Run(p, left) \/ \E q \in C : q # p /\ x \in Run(q, l.mem[q].size)
    BY <1>2 DEF PagesOf
  <2>2. x \in PagesOf(l, C) <=> x \in Run(p, left) \/ x \in Run(p + left, n)
                                   \/ \E q \in C : q # p /\ x \in Run(q, l.mem[q].size)
    BY <1>5 DEF PagesOf
  <2>3. ASSUME NEW q \in C, q # p, x \in Run(q, l.mem[q].size) PROVE x \notin Run(p, l.mem[p].size)
    BY <2>3, ChunksApart
  <2> QED BY <2>1, <2>2, <2>3, <1>5, <1>6
<1> QED BY <1>2, <1>4, <1>7, <1>8 DEF Takes

\* A chunk of exactly n pages: it is unlinked, with its size set to 0 before.
LEMMA UnlinkRemoves ==
    ASSUME NEW l, NEW C, Typed(l), Listing(l, C), NEW p \in C, NEW k, StoredSize(l, k, p, 0), Typed(k),
           NEW m, m \in Unlink(k, p)
    PROVE  Removing(l, C, p, m) /\ m.fault = l.fault
<1>1. PICK a : a = l.mem[p].prev OBVIOUS
<1>2. PICK b : b = l.mem[p].next OBVIOUS
<1>3. /\ p # l.front => a \in C /\ a < p
      /\ p = l.front => a = Null
      /\ p # l.back => b \in C /\ p < b
      /\ p = l.back => b = Null
  <2>1. NextIs(l, C, p) /\ PrevIs(l, C, p) BY DEF Listing
  <2> QED BY <2>1, <1>1, <1>2 DEF NextIs, PrevIs
<1>4. /\ Null \notin C /\ p \in Page /\ p \in Nat
      /\ \A q \in C : q \in Nat /\ q \in Page /\ q \in Ptr /\ IsHeader(l, q) /\ l.mem[q] \in Node /\ q # Unknown
  <2>1. \A q \in C : q \in Nat /\ q \in Page /\ q \in Ptr /\ IsHeader(l, q) /\ l.mem[q] \in Node
    BY ChunkIsHeader, ChunksAreInts
  <2>2. Unknown \notin Page BY PmmAssumption
  <2> QED BY <2>1, <2>2, ChunksAreInts
<1>5. a # Unknown /\ a \in Ptr /\ b \in Ptr BY <1>3, <1>4, PmmAssumption DEF Ptr
<1>6. /\ k.front = l.front /\ k.back = l.back /\ k.fault = l.fault
      /\ k.mem[p].prev = a /\ k.mem[p].next = b
      /\ \A q \in C \ {p} : k.mem[q] = l.mem[q]
  BY <1>1, <1>2, <1>4 DEF StoredSize
<1>7. m = UnlinkFrom(k, p, a) BY <1>5, <1>6, UnlinkIs
<1>8. PICK g : g = IF a = Null THEN [k EXCEPT !.front = b] ELSE Store(k, a, "next", b) OBVIOUS
<1>9. m = IF b = Null THEN [g EXCEPT !.back = a] ELSE Store(g, b, "prev", a)
  BY <1>6, <1>7, <1>8 DEF UnlinkFrom, UnlinkBack
<1>10. \A q \in C \ {p} : IsHeader(k, q) BY <1>4, <1>6 DEF IsHeader
<1>11. /\ Typed(g) /\ g.fault = l.fault /\ g.back = l.back
       /\ g.front = IF p = l.front THEN b ELSE l.front
       /\ \A q \in C \ {p} : /\ g.mem[q] \in Node
                             /\ IsHeader(g, q)
                             /\ g.mem[q].size = l.mem[q].size
                             /\ g.mem[q].next = IF p # l.front /\ q = a THEN b ELSE l.mem[q].next
                             /\ g.mem[q].prev = l.mem[q].prev
  <2>1. CASE p = l.front
    <3>1. g = [k EXCEPT !.front = b] BY <2>1, <1>3, <1>8
    <3>2. Typed(g) BY <3>1, <1>4, <1>5, AssignTyped
    <3>3. g.mem = k.mem /\ g.front = b /\ g.back = k.back /\ g.fault = k.fault BY <3>1 DEF Typed, List
    <3> QED BY <2>1, <3>2, <3>3, <1>4, <1>6, <1>10 DEF IsHeader
  <2>2. CASE p # l.front
    <3>1. a # Null /\ a \in C \ {p} /\ a \in Page BY <2>2, <1>3, <1>4
    <3>2. g = Store(k, a, "next", b) BY <3>1, <1>8
    <3>3. StoredNext(k, g, a, b) BY <3>1, <3>2, <1>5, <1>10, StoreIs
    <3>4. Typed(g) /\ \A q : IsHeader(g, q) <=> IsHeader(k, q) BY <3>2, <1>5, StoreTyped
    <3>5. ASSUME NEW q \in C \ {p}
          PROVE  /\ g.mem[q] \in Node
                 /\ g.mem[q].size = l.mem[q].size
                 /\ g.mem[q].next = IF q = a THEN b ELSE l.mem[q].next
                 /\ g.mem[q].prev = l.mem[q].prev
      <4>1. q \in Page /\ l.mem[q] \in Node /\ k.mem[q] = l.mem[q] BY <1>4, <1>6
      <4>2. CASE q = a BY <4>1, <4>2, <3>3 DEF StoredNext
      <4>3. CASE q # a
        <5>1. g.mem[q] = l.mem[q] BY <4>1, <4>3, <3>3 DEF StoredNext
        <5> QED BY <4>1, <4>3, <5>1
      <4> QED BY <4>2, <4>3
    <3>6. g.fault = l.fault /\ g.back = l.back /\ g.front = l.front BY <3>3, <1>6 DEF StoredNext
    <3> QED BY <2>2, <3>4, <3>5, <3>6, <1>10
  <2> QED BY <2>1, <2>2
<1>12. /\ m.fault = l.fault /\ m.front = g.front
       /\ m.back = IF p = l.back THEN a ELSE l.back
       /\ \A q \in C \ {p} : /\ m.mem[q] \in Node
                             /\ m.mem[q].size = l.mem[q].size
                             /\ m.mem[q].next = g.mem[q].next
                             /\ m.mem[q].prev = IF p # l.back /\ q = b THEN a ELSE l.mem[q].prev
  <2>1. CASE p = l.back
    <3>1. m = [g EXCEPT !.back = a] BY <2>1, <1>3, <1>9
    <3>2. m.mem = g.mem /\ m.front = g.front /\ m.back = a /\ m.fault = g.fault BY <3>1, <1>11 DEF Typed, List
    <3> QED BY <2>1, <3>2, <1>11
  <2>2. CASE p # l.back
    <3>1. b # Null /\ b \in C \ {p} /\ b \in Page BY <2>2, <1>3, <1>4
    <3>2. m = Store(g, b, "prev", a) BY <3>1, <1>9
    <3>3. StoredPrev(g, m, b, a) BY <3>1, <3>2, <1>5, <1>11, StoreIs
    <3>4. ASSUME NEW q \in C \ {p}
          PROVE  /\ m.mem[q] \in Node
                 /\ m.mem[q].size = l.mem[q].size
                 /\ m.mem[q].next = g.mem[q].next
                 /\ m.mem[q].prev = IF q = b THEN a ELSE l.mem[q].prev
      <4>1. q \in Page /\ g.mem[q] \in Node /\ g.mem[q].size = l.mem[q].size /\ g.mem[q].prev = l.mem[q].prev
        BY <1>4, <1>11
      <4>2. CASE q = b BY <4>1, <4>2, <3>3 DEF StoredPrev
      <4>3. CASE q # b
        <5>1. m.mem[q] = g.mem[q] BY <4>1, <4>3, <3>3 DEF StoredPrev
        <5> QED BY <4>1, <4>3, <5>1
      <4> QED BY <4>2, <4>3
    <3>5. m.fault = g.fault /\ m.back = g.back /\ m.front = g.front BY <3>3 DEF StoredPrev
    <3> QED BY <2>2, <3>4, <3>5, <1>11
  <2> QED BY <2>1, <2>2
<1>13. Removing(l, C, p, m) BY <1>1, <1>2, <1>11, <1>12 DEF Removing
<1> QED BY <1>12, <1>13

\* Where the first fit is.
FirstFits(l, n, fit, first, p, left, rest) ==
    /\ fit = {k \in DOMAIN Chain(l) : Fits(l, Chain(l)[k], n)} /\ fit # {}
    /\ first = CHOOSE k \in fit : \A j \in fit : k <= j
    /\ p = Chain(l)[first]
    /\ left = l.mem[p].size - n
    /\ rest = [l EXCEPT !.mem[p].size = left]

LEMMA AllocIs ==
    ASSUME NEW l, NEW n, NEW fit, NEW first, NEW p, NEW left, NEW rest,
           FirstFits(l, n, fit, first, p, left, rest)
    PROVE  AllocFromChunk(l, n) = {<<m, p + left>> : m \in IF left = 0 THEN Unlink(rest, p) ELSE {rest}}
<1> DEFINE s == {k \in DOMAIN Chain(l) : Fits(l, Chain(l)[k], n)}
           f == CHOOSE k \in s : \A j \in s : k <= j
           q == Chain(l)[f]
           lf == l.mem[q].size - n
           rs == [l EXCEPT !.mem[q].size = lf]
<1>0. /\ fit = s /\ fit # {} /\ first = CHOOSE k \in fit : \A j \in fit : k <= j
      /\ p = Chain(l)[first] /\ left = l.mem[p].size - n /\ rest = [l EXCEPT !.mem[p].size = left]
  BY DEF FirstFits
<1>1. fit = s BY <1>0
<1> HIDE DEF s
<1>2. first = f BY <1>0, <1>1
<1> HIDE DEF f
<1>3. p = q BY <1>0, <1>2
<1> HIDE DEF q
<1>4. left = lf BY <1>0, <1>3
<1> HIDE DEF lf
<1>5. rest = rs BY <1>0, <1>3, <1>4
<1> HIDE DEF rs
<1>6. AllocFromChunk(l, n) = {<<m, q + lf>> : m \in IF lf = 0 THEN Unlink(rs, q) ELSE {rs}}
  <2>1. s # {} BY <1>0, <1>1
  <2> QED BY <2>1 DEF AllocFromChunk, s, f, q, lf, rs
<1> QED BY <1>3, <1>4, <1>5, <1>6

\* The lowest chunk with n pages.
LowestFit(l, C, n, p) == p \in C /\ l.mem[p].size >= n /\ \A q \in C : l.mem[q].size >= n => p <= q

\* page_alloc takes the end of the lowest chunk with n pages out of the list; it finds
\* none only when there is no such chunk.
LEMMA AllocTakes ==
    ASSUME NEW l, NEW C, Typed(l), Listing(l, C), NEW n \in Nat \ {0}
    PROVE  /\ AllocFromChunk(l, n) = {} => \A p \in C : l.mem[p].size < n
           /\ AllocFromChunk(l, n) # {} =>
                 \E p \in C : /\ LowestFit(l, C, n, p)
                              /\ \A r \in AllocFromChunk(l, n) :
                                    r[2] = p + l.mem[p].size - n /\ Takes(l, C, r[1], r[2], n)
<1>1. PICK len \in Nat : Walks(l, C, len) BY ChainWalks
<1>2. PICK chain : chain = Chain(l) OBVIOUS
<1>3. /\ DOMAIN chain = 1..len
      /\ \A k \in 1..len : chain[k] \in C
      /\ \A q \in C : \E k \in 1..len : chain[k] = q
      /\ \A i, j \in 1..len : i < j => chain[i] < chain[j]
  BY <1>1, <1>2 DEF Walks
<1>4. PICK fit : fit = {k \in DOMAIN chain : Fits(l, chain[k], n)} OBVIOUS
<1>5. \A q \in C : q \in Nat /\ l.mem[q].size \in Nat /\ l.mem[q].size <= NumPages
  <2>1. \A q \in C : q \in Nat /\ l.mem[q].size \in Nat /\ l.mem[q] \in Node BY ChunksAreInts
  <2> QED BY <2>1, PmmAssumption DEF Node
<1>6. CASE fit = {}
  <2>1. \A p \in C : l.mem[p].size < n
    <3> SUFFICES ASSUME NEW p \in C PROVE l.mem[p].size < n OBVIOUS
    <3>1. PICK k \in 1..len : chain[k] = p BY <1>3
    <3>2. ~(l.mem[p].size >= n) BY <3>1, <1>3, <1>4, <1>6 DEF Fits
    <3> QED BY <3>2, <1>5
  <2>2. AllocFromChunk(l, n) = {} BY <1>2, <1>4, <1>6 DEF AllocFromChunk
  <2> QED BY <2>1, <2>2
<1>7. CASE fit # {}
  <2>1. fit \in SUBSET Nat BY <1>3, <1>4
  <2>2. PICK first : first = CHOOSE k \in fit : \A j \in fit : k <= j OBVIOUS
  <2>3. first \in fit /\ \A j \in fit : first <= j BY <1>7, <2>1, <2>2, FirstIndex
  <2>4. PICK p : p = chain[first] OBVIOUS
  <2>5. p \in C /\ l.mem[p].size >= n BY <2>3, <2>4, <1>3, <1>4 DEF Fits
  <2>6. ASSUME NEW q \in C, l.mem[q].size >= n PROVE p <= q
    <3>1. PICK k \in 1..len : chain[k] = q BY <1>3
    <3>2. k \in fit BY <3>1, <2>6, <1>3, <1>4 DEF Fits
    <3>3. first <= k /\ first \in 1..len BY <3>2, <2>3, <1>3, <1>4
    <3>4. first = k \/ first < k BY <3>3
    <3>5. p = q \/ p < q BY <3>1, <3>3, <3>4, <2>4, <1>3
    <3> QED BY <3>5, <2>5, <1>5
  <2>7. PICK left : left = l.mem[p].size - n OBVIOUS
  <2>8. PICK rest : rest = [l EXCEPT !.mem[p].size = left] OBVIOUS
  <2>9. AllocFromChunk(l, n) = {<<m, p + left>> : m \in IF left = 0 THEN Unlink(rest, p) ELSE {rest}}
    <3>1. FirstFits(l, n, fit, first, p, left, rest)
      BY <1>2, <1>4, <1>7, <2>2, <2>4, <2>7, <2>8 DEF FirstFits
    <3> QED BY <3>1, AllocIs
  <2>10. left \in 0..NumPages /\ l.mem[p].size = left + n /\ p + left - 1 <= NumPages /\ p + left = p + l.mem[p].size - n
    <3>1. p + l.mem[p].size - 1 <= NumPages BY <2>5 DEF Listing, Placed
    <3>2. PICK size : size = l.mem[p].size OBVIOUS
    <3>3. size \in Nat /\ p \in Nat /\ NumPages \in Nat /\ size <= NumPages /\ size >= n
      BY <3>2, <2>5, <1>5, PmmAssumption
    <3> QED BY <3>1, <3>2, <3>3, <2>7
  <2>11. StoredSize(l, rest, p, left) /\ Typed(rest)
    <3>1. p \in Page /\ IsHeader(l, p) BY <2>5, ChunkIsHeader
    <3> QED BY <3>1, <2>8, <2>10, SizeIs
  <2>12. ASSUME NEW m \in IF left = 0 THEN Unlink(rest, p) ELSE {rest}
         PROVE  Takes(l, C, m, p + left, n)
    <3>1. CASE left = 0
      <4>1. Removing(l, C, p, m) /\ m.fault = l.fault BY <2>5, <2>11, <2>12, <3>1, UnlinkRemoves
      <4>2. Listing(m, C \ {p}) BY <4>1, Removed
      <4>3. SameSizes(l, m, C \ {p}) BY <4>1 DEF Removing, SameSizes
      <4>4. PagesOf(m, C \ {p}) = PagesOf(l, C) \ Run(p, l.mem[p].size) BY <2>5, <4>3, PagesOfFewer
      <4>5. p + left = p /\ l.mem[p].size = n BY <2>5, <2>10, <3>1, <1>5
      <4>6. Run(p, n) \subseteq PagesOf(l, C) BY <2>5, <4>5 DEF PagesOf
      <4> QED BY <4>1, <4>2, <4>4, <4>5, <4>6 DEF Takes
    <3>2. CASE left # 0
      <4>1. m = rest /\ left \in Nat \ {0} BY <2>10, <2>12, <3>2, PmmAssumption
      <4> QED BY <4>1, <2>5, <2>10, <2>11, ShrinkTakes
    <3> QED BY <3>1, <3>2
  <2>13. LowestFit(l, C, n, p) BY <2>5, <2>6 DEF LowestFit
  <2>14. \A r \in AllocFromChunk(l, n) : r[2] = p + l.mem[p].size - n /\ Takes(l, C, r[1], r[2], n)
    <3> SUFFICES ASSUME NEW r \in AllocFromChunk(l, n)
                 PROVE  r[2] = p + l.mem[p].size - n /\ Takes(l, C, r[1], r[2], n)
      OBVIOUS
    <3>1. PICK m \in IF left = 0 THEN Unlink(rest, p) ELSE {rest} : r = <<m, p + left>> BY <2>9
    <3>2. r[1] = m /\ r[2] = p + left BY <3>1
    <3> QED BY <3>2, <2>10, <2>12
  <2>15. \E k \in fit : TRUE BY <1>7
  <2>16. AllocFromChunk(l, n) # {}
    <3>1. (IF left = 0 THEN Unlink(rest, p) ELSE {rest}) # {}
      <4>1. Unlink(rest, p) # {} BY UnlinkIs
      <4> QED BY <4>1
    <3> QED BY <2>9, <3>1
  <2> QED BY <2>5, <2>13, <2>14, <2>16
<1> QED BY <1>6, <1>7

\* What the caller writes into its pages is not part of the list.
LEMMA GivenKeeps ==
    ASSUME NEW l, NEW C, Typed(l), Listing(l, C), NEW p, NEW n, Run(p, n) \cap PagesOf(l, C) = {}
    PROVE  Listing(Given(l, p, n), C) /\ PagesOf(Given(l, p, n), C) = PagesOf(l, C)
<1>1. PICK m : m = Given(l, p, n) OBVIOUS
<1>2. ASSUME NEW q \in C PROVE m.mem[q] = l.mem[q]
  <2>1. q \in Nat /\ l.mem[q].size \in Nat /\ l.mem[q].size >= 1 /\ q \in Page
    BY ChunksAreInts, ChunkIsHeader DEF Listing, Placed
  <2>2. q \in Run(q, l.mem[q].size) BY <2>1 DEF Run
  <2>3. q \notin Run(p, n) BY <2>2 DEF PagesOf
  <2> QED BY <2>1, <2>3, <1>1 DEF Given, Typed, List
<1>3. m.front = l.front /\ m.back = l.back BY <1>1 DEF Given, Typed, List
<1>4. Placed(m, C) BY <1>2 DEF Listing, Placed
<1>5. Ends(m, C) BY <1>3 DEF Listing, Ends
<1>6. \A q \in C : NextIs(m, C, q) /\ PrevIs(m, C, q) BY <1>2, <1>3 DEF Listing, NextIs, PrevIs
<1>7. PagesOf(m, C) = PagesOf(l, C) BY <1>2 DEF PagesOf
<1> QED BY <1>1, <1>4, <1>5, <1>6, <1>7 DEF Listing

-----------------------------------------------------------------------------
(* The inductive invariant.                                                *)

LEMMA ChunksOf ==
    ASSUME NEW l, NEW C, Listing(l, C)
    PROVE  Range(Chain(l)) = C /\ FreePages(l) = PagesOf(l, C)
<1>1. PICK len \in Nat : Walks(l, C, len) BY ChainWalks
<1>2. Range(Chain(l)) = C BY <1>1 DEF Walks, Range
<1>3. FreePages(l) = PagesOf(l, C) BY <1>2 DEF FreePages, PagesOf, ChunkPages
<1> QED BY <1>2, <1>3

\* Until the list is damaged its chunks are what the traversal finds, and the free
\* pages are those boot added and nobody holds; nobody holds any during boot.
Listed == \E C : Listing(pmm, C)
ListInv ==
    /\ TypeInv
    /\ booted < Len(Regions) => Sound /\ held = {}
    /\ Sound => Listed
    /\ PagesConserved

LEMMA ListInvInit == Init => ListInv
<1> SUFFICES ASSUME Init PROVE ListInv OBVIOUS
<1>1. pmm.front = Null /\ pmm.back = Null /\ pmm.fault = "none" /\ booted = 0 /\ held = {} /\ freedBelow = FALSE
  BY DEF Init
<1>2. Listing(pmm, {}) BY <1>1 DEF Listing, Placed, Ends
<1>3. FreePages(pmm) = {} BY <1>2, ChunksOf DEF PagesOf
<1>4. HeldPages = {} BY <1>1 DEF HeldPages
<1>5. AddedPages = {} BY <1>1 DEF AddedPages
<1>6. PagesConserved BY <1>1, <1>3, <1>4, <1>5 DEF PagesConserved
<1>7. Sound BY <1>1 DEF Sound
<1> QED BY <1>1, <1>2, <1>6, <1>7, TypeInvInit DEF ListInv, Listed

\* A region the boot code has yet to add is above every page it added.
LEMMA NextRegion ==
    ASSUME TypeInv, booted < Len(Regions)
    PROVE  /\ RunInside(Regions[booted + 1][1], Regions[booted + 1][2])
           /\ \A x \in AddedPages : x \in Int /\ x < Regions[booted + 1][1]
<1>1. booted \in Nat /\ Len(Regions) \in Nat /\ DOMAIN Regions = 1..Len(Regions)
      /\ booted + 1 \in DOMAIN Regions /\ \A i \in 1..booted : i \in DOMAIN Regions /\ i < booted + 1
  BY PmmAssumption DEF TypeInv, TypeOK
<1>2. ASSUME NEW x \in AddedPages PROVE x \in Int /\ x < Regions[booted + 1][1]
  <2>1. PICK i \in 1..booted : x \in Run(Regions[i][1], Regions[i][2]) BY DEF AddedPages
  <2>2. PICK a, b, c : a = Regions[i][1] /\ b = Regions[i][2] /\ c = Regions[booted + 1][1] OBVIOUS
  <2>3. i \in DOMAIN Regions /\ i < booted + 1 BY <1>1
  <2>4. a + b <= c BY <2>2, <2>3, <1>1, PmmAssumption
  <2>5. RunInside(a, b) BY <2>2, <2>3, RegionsInside
  <2>6. c \in Page BY <2>2, <1>1, RegionsInside DEF RunInside
  <2>7. a \in Nat /\ b \in Nat /\ c \in Nat BY <2>5, <2>6, PmmAssumption DEF RunInside, Page
  <2>8. x \in Int /\ x <= a + b - 1 BY <2>1, <2>2, <2>7 DEF Run
  <2>9. x < c BY <2>4, <2>7, <2>8
  <2> QED BY <2>2, <2>8, <2>9
<1> QED BY <1>1, <1>2, RegionsInside

\* A chunk is free pages, so the ends of the list are free pages.
LEMMA ChunksAreFree ==
    ASSUME NEW l, NEW C, Listing(l, C), NEW p \in C
    PROVE  p \in PagesOf(l, C)
<1>1. p \in Nat /\ l.mem[p].size \in Nat /\ l.mem[p].size >= 1 BY ChunksAreInts DEF Listing, Placed
<1>2. p \in Run(p, l.mem[p].size) BY <1>1 DEF Run
<1> QED BY <1>2 DEF PagesOf

LEMMA BootStep ==
    ASSUME ListInv, Boot
    PROVE  /\ ListInv'
           /\ \E p, n : /\ RunInside(p, n) /\ Run(p, n) \cap FreePages(pmm) = {}
                        /\ FreePages(pmm)' = FreePages(pmm) \cup Run(p, n)
<1>1. booted < Len(Regions) /\ Sound /\ held = {} /\ TypeInv BY DEF Boot, ListInv
<1>2. PICK c : c = Regions[booted + 1][1] OBVIOUS
<1>3. PICK n : n = Regions[booted + 1][2] OBVIOUS
<1>4. RunInside(c, n) /\ \A x \in AddedPages : x \in Int /\ x < c BY <1>1, <1>2, <1>3, NextRegion
<1>5. PICK C : Listing(pmm, C) BY <1>1 DEF ListInv, Listed
<1>6. FreePages(pmm) = PagesOf(pmm, C) BY <1>5, ChunksOf
<1>7. HeldPages = {} BY <1>1 DEF HeldPages
<1>8. FreePages(pmm) = AddedPages BY <1>1, <1>7 DEF ListInv, PagesConserved
<1>9. \A x : ~(x \in AddedPages /\ x \in Run(c, n))
  <2>1. c \in Nat /\ n \in Nat BY <1>4, PmmAssumption DEF RunInside, Page
  <2> QED BY <2>1, <1>4 DEF Run
<1>10. Apart(pmm, C, c, n) BY <1>6, <1>8, <1>9 DEF Apart
<1>11. Typed(pmm) BY <1>1 DEF TypeInv, TypeOK, Typed, List
<1>12. C = {} \/ pmm.back < c
  <2>1. ASSUME C # {} PROVE pmm.back < c
    <3>1. pmm.back \in C BY <2>1, <1>5, EndsOf
    <3> QED BY <3>1, <1>4, <1>5, <1>6, <1>8, ChunksAreFree
  <2> QED BY <2>1
<1>13. ~(pmm.front # Null /\ c < pmm.front)
  <2>1. CASE C = {} BY <2>1, <1>5 DEF Listing, Ends
  <2>2. CASE C # {}
    <3>1. pmm.front \in C BY <2>2, <1>5, EndsOf
    <3>2. pmm.front < c /\ pmm.front \in Int BY <3>1, <1>4, <1>5, <1>6, <1>8, ChunksAreFree
    <3>3. c \in Int BY <1>4, PmmAssumption DEF RunInside, Page
    <3> QED BY <3>2, <3>3
  <2> QED BY <2>1, <2>2
<1>14. pmm' = AddChunk(pmm, c, n) BY <1>2, <1>3 DEF Boot
<1>15. pmm.fault = "none" /\ ~freedBelow BY <1>1 DEF Sound
<1>16. pmm'.fault = "none" /\ Adds(pmm, C, pmm', c, n)
  <2>1. PICK k : k = AddChunk(pmm, c, n) OBVIOUS
  <2>2. /\ k.fault # "list" => Adds(pmm, C, k, c, n) /\ k.fault = pmm.fault
        /\ C = {} \/ pmm.back < c => k.fault = pmm.fault
    BY <2>1, <1>4, <1>5, <1>10, <1>11, <1>13, AddAdds
  <2> QED BY <2>1, <2>2, <1>12, <1>14, <1>15
<1>17. PICK D : Listing(pmm', D) /\ PagesOf(pmm', D) = PagesOf(pmm, C) \cup Run(c, n) BY <1>16 DEF Adds
<1>18. FreePages(pmm)' = FreePages(pmm) \cup Run(c, n)
  <2>1. FreePages(pmm') = PagesOf(pmm', D) BY <1>17, ChunksOf
  <2>2. FreePages(pmm)' = FreePages(pmm') BY DEF FreePages, ChunkPages
  <2> QED BY <2>1, <2>2, <1>6, <1>17
<1>19. held' = {} /\ booted' = booted + 1 /\ freedBelow' = FALSE /\ Sound'
  BY <1>1, <1>15, <1>16 DEF Boot, Sound, TypeInv, TypeOK
<1>20. AddedPages' = AddedPages \cup Run(c, n)
  <2>1. booted \in Nat BY <1>1, PmmAssumption DEF TypeInv, TypeOK
  <2>2. AddedPages' = UNION {Run(Regions[i][1], Regions[i][2]) : i \in 1..(booted + 1)} BY <1>19 DEF AddedPages
  <2>3. 1..(booted + 1) = (1..booted) \cup {booted + 1} BY <2>1
  <2> QED BY <2>2, <2>3, <1>2, <1>3 DEF AddedPages
<1>21. HeldPages' = {} BY <1>19 DEF HeldPages
<1>22. PagesConserved' BY <1>8, <1>18, <1>19, <1>20, <1>21 DEF PagesConserved
<1>23. TypeInv' BY <1>1, TypeInvBoot
<1>24. Listed' BY <1>17 DEF Listed
<1>25. ListInv' BY <1>19, <1>22, <1>23, <1>24 DEF ListInv
<1>26. Run(c, n) \cap FreePages(pmm) = {} BY <1>8, <1>9
<1> QED BY <1>4, <1>18, <1>25, <1>26

-----------------------------------------------------------------------------
(* First fit in the list and in the set of free pages.                     *)

\* The page behind a chunk is not free.
LEMMA BehindChunk ==
    ASSUME NEW l, NEW C, Listing(l, C), NEW q \in C
    PROVE  q + l.mem[q].size \notin PagesOf(l, C)
<1>1. PICK e : e = q + l.mem[q].size OBVIOUS
<1> SUFFICES ASSUME NEW r \in C, e \in Run(r, l.mem[r].size) PROVE FALSE BY <1>1 DEF PagesOf
<1>2. q \in Nat /\ r \in Nat /\ l.mem[q].size \in Nat /\ l.mem[r].size \in Nat BY ChunksAreInts
<1>3. /\ r < q => r + l.mem[r].size < q
      /\ q < r => e < r
  BY <1>1 DEF Listing, Placed
<1>4. e \in Nat /\ r <= e /\ e < r + l.mem[r].size BY <1>1, <1>2 DEF Run
<1> QED BY <1>1, <1>2, <1>3, <1>4

\* A run of free pages lies in one chunk.
LEMMA RunInChunk ==
    ASSUME NEW l, NEW C, Listing(l, C), NEW n \in Nat \ {0}, NEW x, Run(x, n) \subseteq PagesOf(l, C),
           NEW q \in C, x \in Run(q, l.mem[q].size)
    PROVE  x \in Int /\ q <= x /\ x + n <= q + l.mem[q].size /\ l.mem[q].size >= n
<1>1. q \in Nat /\ l.mem[q].size \in Nat BY ChunksAreInts
<1>2. x \in Int /\ q <= x /\ x < q + l.mem[q].size BY <1>1 DEF Run
<1>3. ~(q + l.mem[q].size \in Run(x, n)) BY BehindChunk
<1>4. x + n <= q + l.mem[q].size BY <1>1, <1>2, <1>3 DEF Run
<1> QED BY <1>1, <1>2, <1>4

\* Where page_alloc finds its run is where first fit is among the free pages, because
\* a stretch of free pages is one chunk.
LEMMA FitIsFirst ==
    ASSUME NEW l, NEW C, Listing(l, C), NEW n \in Nat \ {0}, NEW p, LowestFit(l, C, n, p)
    PROVE  Abstract!FirstFit(PagesOf(l, C), n) = {p + l.mem[p].size - n}
<1>1. PICK S : S = PagesOf(l, C) OBVIOUS
<1>2. p \in C /\ l.mem[p].size >= n /\ \A q \in C : l.mem[q].size >= n => p <= q BY DEF LowestFit
<1>3. PICK e : e = p + l.mem[p].size OBVIOUS
<1>4. /\ \A q \in C : q \in Nat /\ l.mem[q].size \in Nat
      /\ p \in Nat /\ l.mem[p].size \in Nat /\ e \in Nat /\ e - n \in Nat /\ p <= e - n /\ p + n <= e
  <2>1. \A q \in C : q \in Nat /\ l.mem[q].size \in Nat BY ChunksAreInts
  <2>2. p \in Nat /\ l.mem[p].size \in Nat BY <2>1, <1>2
  <2> QED BY <2>1, <2>2, <1>2, <1>3
<1>5. Run(p, l.mem[p].size) = p..(e - 1)
  <2>1. p + l.mem[p].size - 1 = e - 1
    <3>1. PICK size : size = l.mem[p].size OBVIOUS
    <3>2. size \in Nat /\ p \in Nat /\ e = p + size BY <3>1, <1>3, <1>4
    <3> QED BY <3>1, <3>2
  <2> QED BY <2>1 DEF Run
<1>6. p..(e - 1) \subseteq S /\ e \notin S
  <2>1. Run(p, l.mem[p].size) \subseteq S BY <1>1, <1>2 DEF PagesOf
  <2>2. e \notin S BY <1>1, <1>2, <1>3, BehindChunk
  <2> QED BY <2>1, <2>2, <1>5
<1>7. ASSUME NEW x \in S, Run(x, n) \subseteq S
      PROVE  \E q \in C : /\ x \in Int /\ p <= q /\ q <= x /\ x + n <= q + l.mem[q].size
                          /\ q..(q + l.mem[q].size - 1) \subseteq S
  <2>1. PICK q \in C : x \in Run(q, l.mem[q].size) BY <1>1 DEF PagesOf
  <2>2. x \in Int /\ q <= x /\ x + n <= q + l.mem[q].size /\ l.mem[q].size >= n
    BY <2>1, <1>1, <1>7, RunInChunk
  <2>3. Run(q, l.mem[q].size) \subseteq S BY <1>1 DEF PagesOf
  <2> QED BY <2>2, <2>3, <1>2 DEF Run
<1>8. PICK fits : fits = {x \in S : Run(x, n) \subseteq S} OBVIOUS
<1>9. Abstract!FirstFit(S, n) = {x \in fits : x + n \notin S /\ \A q \in fits : q < x => q..x \subseteq S}
  BY <1>8 DEF Abstract!FirstFit, Abstract!Run, Run
<1>10. e - n \in fits
  <2>1. Run(e - n, n) = (e - n)..(e - 1) BY <1>4 DEF Run
  <2>2. (e - n)..(e - 1) \subseteq p..(e - 1) BY <1>4
  <2>3. e - n \in p..(e - 1) BY <1>4
  <2> QED BY <2>1, <2>2, <2>3, <1>6, <1>8
<1>11. (e - n) + n = e BY <1>4
<1>12. ASSUME NEW q \in fits, q < e - n PROVE q..(e - n) \subseteq S
  <2>1. q \in Int /\ p <= q
    <3>1. PICK r \in C : q \in Int /\ p <= r /\ r <= q BY <1>7, <1>8
    <3>2. r \in Nat BY <1>4
    <3> QED BY <3>1, <3>2, <1>4
  <2>2. q..(e - n) \subseteq p..(e - 1) BY <2>1, <1>4
  <2> QED BY <2>2, <1>6
<1>13. ASSUME NEW y \in fits, y + n \notin S, \A q \in fits : q < y => q..y \subseteq S
       PROVE  y = e - n
  <2>1. PICK r \in C : /\ y \in Int /\ p <= r /\ r <= y /\ y + n <= r + l.mem[r].size
                       /\ r..(r + l.mem[r].size - 1) \subseteq S
    BY <1>7, <1>8
  <2>2. r \in Nat /\ l.mem[r].size \in Nat BY <1>4
  <2>3. y + n = r + l.mem[r].size
    <3>1. ~(y + n \in r..(r + l.mem[r].size - 1)) BY <2>1, <1>13
    <3> QED BY <3>1, <2>1, <2>2
  <2>4. r = p
    <3> SUFFICES ASSUME p < r PROVE FALSE BY <2>1, <2>2, <1>4
    <3>1. e < r BY <1>2, <1>3 DEF Listing, Placed
    <3>2. p \in fits
      <4>1. p..(p + n - 1) \subseteq p..(e - 1) BY <1>4
      <4>2. p \in p..(p + n - 1) BY <1>4
      <4> QED BY <4>1, <4>2, <1>6, <1>8 DEF Run
    <3>3. p < y /\ e \in p..y BY <3>1, <2>1, <2>2, <1>4
    <3> QED BY <3>2, <3>3, <1>6, <1>13
  <2> QED BY <2>1, <2>3, <2>4, <1>3, <1>4
<1>14. Abstract!FirstFit(S, n) = {e - n} BY <1>6, <1>9, <1>10, <1>11, <1>12, <1>13
<1>15. p + l.mem[p].size - n = e - n BY <1>3, <1>4
<1> QED BY <1>1, <1>14, <1>15

LEMMA NoFit ==
    ASSUME NEW l, NEW C, Listing(l, C), NEW n \in Nat \ {0}, \A p \in C : l.mem[p].size < n
    PROVE  Abstract!FirstFit(PagesOf(l, C), n) = {}
<1>1. ASSUME NEW x \in PagesOf(l, C), Run(x, n) \subseteq PagesOf(l, C) PROVE FALSE
  <2>1. PICK q \in C : x \in Run(q, l.mem[q].size) BY DEF PagesOf
  <2>2. l.mem[q].size >= n /\ l.mem[q].size \in Nat BY <2>1, <1>1, RunInChunk, ChunksAreInts
  <2> QED BY <2>2
<1> QED BY <1>1 DEF Abstract!FirstFit, Abstract!Run, Run

-----------------------------------------------------------------------------
(* The steps of a running kernel.                                          *)

\* While the kernel runs and the list is sound.
LEMMA RunningIs ==
    ASSUME ListInv, Running, Sound
    PROVE  /\ Typed(pmm) /\ pmm.fault = "none" /\ booted = Len(Regions)
           /\ \E C : /\ Listing(pmm, C) /\ FreePages(pmm) = PagesOf(pmm, C)
                     /\ PagesOf(pmm, C) \cap HeldPages = {}
                     /\ PagesOf(pmm, C) \cup HeldPages = AddedPages
           /\ \A r, s \in held : r # s => Run(r[1], r[2]) \cap Run(s[1], s[2]) = {}
<1>1. Typed(pmm) BY DEF ListInv, TypeInv, TypeOK, Typed, List
<1>2. pmm.fault = "none" /\ booted = Len(Regions) BY DEF Running
<1>3. PICK C : Listing(pmm, C) BY DEF ListInv, Listed
<1>4. FreePages(pmm) = PagesOf(pmm, C) BY <1>3, ChunksOf
<1>5. /\ FreePages(pmm) \cap HeldPages = {}
      /\ FreePages(pmm) \cup HeldPages = AddedPages
      /\ \A r, s \in held : r # s => Run(r[1], r[2]) \cap Run(s[1], s[2]) = {}
  BY DEF ListInv, PagesConserved
<1> QED BY <1>1, <1>2, <1>3, <1>4, <1>5

LEMMA AllocStep ==
    ASSUME ListInv, NEW n \in 1..MaxCount, PageAlloc(n)
    PROVE  /\ ListInv'
           /\ Sound' => \E p \in Page :
                           /\ RunInside(p, n) /\ Run(p, n) \subseteq FreePages(pmm)
                           /\ p \in Abstract!FirstFit(FreePages(pmm), n)
                           /\ FreePages(pmm)' = FreePages(pmm) \ Run(p, n)
<1>1. TypeInv' BY TypeInvAlloc DEF ListInv
<1>2. PICK r \in AllocFromChunk(pmm, n) :
         pmm' = Given(r[1], r[2], n) /\ held' = held \cup {<<r[2], n>>}
  BY DEF PageAlloc
<1>3. Running /\ booted' = booted /\ freedBelow' = freedBelow BY DEF PageAlloc
<1>4. ~(booted' < Len(Regions))
  <2>1. Len(Regions) \in Nat BY PmmAssumption
  <2> QED BY <2>1, <1>3 DEF Running
<1>5. CASE ~Sound
  <2>1. freedBelow BY <1>3, <1>5 DEF Sound, Running
  <2>2. ~Sound' BY <2>1, <1>3 DEF Sound
  <2> QED BY <2>2, <1>1, <1>4 DEF ListInv, PagesConserved
<1>6. CASE Sound
  <2>0. Typed(pmm) /\ pmm.fault = "none" BY <1>3, <1>6, RunningIs
  <2>1. PICK C : /\ Listing(pmm, C) /\ FreePages(pmm) = PagesOf(pmm, C)
                 /\ PagesOf(pmm, C) \cap HeldPages = {}
                 /\ PagesOf(pmm, C) \cup HeldPages = AddedPages
    BY <1>3, <1>6, RunningIs
  <2>2. n \in Nat \ {0} BY PmmAssumption
  <2>3. PICK k, q : k = r[1] /\ q = r[2] OBVIOUS
  <2>4. PICK p \in C : LowestFit(pmm, C, n, p) /\ q = p + pmm.mem[p].size - n /\ Takes(pmm, C, k, q, n)
    BY <2>0, <2>1, <2>2, <2>3, AllocTakes
  <2>5. Typed(k) /\ RunInside(q, n) BY <2>0, <2>2, <2>3, AllocTyped
  <2>6. PICK D : Listing(k, D) /\ PagesOf(k, D) = PagesOf(pmm, C) \ Run(q, n) BY <2>4 DEF Takes
  <2>7. Run(q, n) \subseteq PagesOf(pmm, C) /\ k.fault = "none" BY <2>0, <2>4 DEF Takes
  <2>8. Listing(Given(k, q, n), D) /\ PagesOf(Given(k, q, n), D) = PagesOf(k, D)
    <3>1. Run(q, n) \cap PagesOf(k, D) = {} BY <2>6
    <3> QED BY <3>1, <2>5, <2>6, GivenKeeps
  <2>9. Listing(pmm', D) /\ PagesOf(pmm', D) = PagesOf(pmm, C) \ Run(q, n) BY <2>3, <2>6, <2>8, <1>2
  <2>10. FreePages(pmm)' = FreePages(pmm) \ Run(q, n)
    <3>1. FreePages(pmm') = PagesOf(pmm', D) BY <2>9, ChunksOf
    <3>2. FreePages(pmm)' = FreePages(pmm') BY DEF FreePages, ChunkPages
    <3> QED BY <3>1, <3>2, <2>1, <2>9
  <2>11. held' = held \cup {<<q, n>>} BY <2>3, <1>2
  <2>12. HeldPages' = HeldPages \cup Run(q, n)
    <3>1. PICK t : t = <<q, n>> OBVIOUS
    <3>2. t[1] = q /\ t[2] = n /\ held' = held \cup {t} BY <3>1, <2>11
    <3>3. HeldPages' = HeldPages \cup Run(t[1], t[2]) BY <3>2 DEF HeldPages
    <3> QED BY <3>2, <3>3
  <2>13. AddedPages' = AddedPages BY <1>3 DEF AddedPages
  <2>14. \A s \in held : Run(s[1], s[2]) \cap Run(q, n) = {}
    <3>1. \A s \in held : Run(s[1], s[2]) \subseteq HeldPages BY DEF HeldPages
    <3> QED BY <3>1, <2>1, <2>7
  <2>15. \A s, t \in held' : s # t => Run(s[1], s[2]) \cap Run(t[1], t[2]) = {}
    <3>1. \A s, t \in held : s # t => Run(s[1], s[2]) \cap Run(t[1], t[2]) = {} BY <1>3, <1>6, RunningIs
    <3> QED BY <3>1, <2>11, <2>14
  <2>16. PagesConserved'
    <3>1. FreePages(pmm)' \cap HeldPages' = {} BY <2>1, <2>10, <2>12
    <3>2. FreePages(pmm)' \cup HeldPages' = AddedPages' BY <2>1, <2>7, <2>10, <2>12, <2>13
    <3> QED BY <3>1, <3>2, <2>15 DEF PagesConserved
  <2>17. Listed' BY <2>9 DEF Listed
  <2>18. ListInv' BY <2>16, <2>17, <1>1, <1>4 DEF ListInv
  <2>19. q \in Abstract!FirstFit(FreePages(pmm), n) BY <2>1, <2>2, <2>4, FitIsFirst
  <2>20. q \in Page BY <2>5 DEF RunInside
  <2> QED BY <2>1, <2>5, <2>7, <2>10, <2>18, <2>19, <2>20
<1> QED BY <1>5, <1>6

LEMMA DeallocStep ==
    ASSUME ListInv, NEW r \in held, PageDealloc(r[1], r[2])
    PROVE  /\ ListInv'
           /\ Sound' => \E p, n : /\ RunInside(p, n) /\ Run(p, n) \cap FreePages(pmm) = {}
                                  /\ FreePages(pmm)' = FreePages(pmm) \cup Run(p, n)
<1>1. TypeInv' BY TypeInvDealloc DEF ListInv
<1>2. PICK c, n : c = r[1] /\ n = r[2] OBVIOUS
<1>3. /\ Running /\ booted' = booted /\ held' = held \ {r}
      /\ pmm' = AddChunk(pmm, c, n)
      /\ freedBelow' = (freedBelow \/ (pmm.front # Null /\ c < pmm.front))
  <2>1. r = <<r[1], r[2]>> BY DEF ListInv, TypeInv, TypeOK
  <2> QED BY <2>1, <1>2 DEF PageDealloc
<1>4. ~(booted' < Len(Regions))
  <2>1. Len(Regions) \in Nat BY PmmAssumption
  <2> QED BY <2>1, <1>3 DEF Running
<1>5. CASE ~Sound' BY <1>1, <1>4, <1>5 DEF ListInv, PagesConserved
<1>6. CASE Sound'
  <2>0. ~freedBelow /\ ~(pmm.front # Null /\ c < pmm.front) /\ pmm'.fault = "none"
    BY <1>3, <1>6 DEF Sound
  <2>1. Sound BY <2>0, <1>3 DEF Sound, Running
  <2>2. Typed(pmm) /\ pmm.fault = "none" BY <2>1, <1>3, RunningIs
  <2>3. PICK C : /\ Listing(pmm, C) /\ FreePages(pmm) = PagesOf(pmm, C)
                 /\ PagesOf(pmm, C) \cap HeldPages = {}
                 /\ PagesOf(pmm, C) \cup HeldPages = AddedPages
    BY <2>1, <1>3, RunningIs
  <2>4. RunInside(c, n) BY <1>2 DEF ListInv, TypeInv
  <2>5. Run(c, n) \subseteq HeldPages BY <1>2 DEF HeldPages
  <2>6. Apart(pmm, C, c, n) BY <2>3, <2>5 DEF Apart
  <2>7. Adds(pmm, C, pmm', c, n)
    <3>1. PICK k : k = AddChunk(pmm, c, n) OBVIOUS
    <3>2. k.fault # "list" => Adds(pmm, C, k, c, n) BY <3>1, <2>0, <2>2, <2>3, <2>4, <2>6, AddAdds
    <3> QED BY <3>1, <3>2, <2>0, <1>3
  <2>8. PICK D : Listing(pmm', D) /\ PagesOf(pmm', D) = PagesOf(pmm, C) \cup Run(c, n) BY <2>7 DEF Adds
  <2>9. FreePages(pmm)' = FreePages(pmm) \cup Run(c, n)
    <3>1. FreePages(pmm') = PagesOf(pmm', D) BY <2>8, ChunksOf
    <3>2. FreePages(pmm)' = FreePages(pmm') BY DEF FreePages, ChunkPages
    <3> QED BY <3>1, <3>2, <2>3, <2>8
  <2>10. \A s, t \in held : s # t => Run(s[1], s[2]) \cap Run(t[1], t[2]) = {} BY <2>1, <1>3, RunningIs
  <2>11. HeldPages = HeldPages' \cup Run(c, n) BY <1>2, <1>3 DEF HeldPages
  <2>12. HeldPages' \cap Run(c, n) = {}
    <3> SUFFICES ASSUME NEW s \in held', NEW x \in Run(s[1], s[2]), x \in Run(c, n) PROVE FALSE
      BY DEF HeldPages
    <3>1. s \in held /\ s # r BY <1>3
    <3> QED BY <3>1, <2>10, <1>2
  <2>13. AddedPages' = AddedPages BY <1>3 DEF AddedPages
  <2>14. PagesConserved'
    <3>1. FreePages(pmm)' \cap HeldPages' = {} BY <2>3, <2>9, <2>11, <2>12
    <3>2. FreePages(pmm)' \cup HeldPages' = AddedPages' BY <2>3, <2>9, <2>11, <2>13
    <3>3. \A s, t \in held' : s # t => Run(s[1], s[2]) \cap Run(t[1], t[2]) = {} BY <2>10, <1>3
    <3> QED BY <3>1, <3>2, <3>3 DEF PagesConserved
  <2>15. Listed' BY <2>8 DEF Listed
  <2>16. ListInv' BY <2>14, <2>15, <1>1, <1>4 DEF ListInv
  <2>17. Run(c, n) \cap FreePages(pmm) = {} BY <2>3, <2>5
  <2> QED BY <2>4, <2>9, <2>16, <2>17
<1> QED BY <1>5, <1>6

LEMMA AllocZStep ==
    ASSUME ListInv, NEW n \in 1..MaxCount, PageAllocZ(n)
    PROVE  ListInv' /\ ~Sound'
<1>1. TypeInv' BY DEF ListInv, PageAllocZ, TypeInv, TypeOK, EndsInside, IsHeader
<1>2. pmm'.fault = "memset" BY DEF PageAllocZ, ListInv, TypeInv, TypeOK
<1>3. ~Sound' BY <1>2 DEF Sound
<1>4. ~(booted' < Len(Regions))
  <2>1. Len(Regions) \in Nat BY PmmAssumption
  <2> QED BY <2>1 DEF Running, PageAllocZ
<1> QED BY <1>1, <1>3, <1>4 DEF ListInv, PagesConserved

LEMMA ListInvStep == ListInv /\ [Next]_vars => ListInv'
<1> SUFFICES ASSUME ListInv, [Next]_vars PROVE ListInv' OBVIOUS
<1>1. CASE Boot BY <1>1, BootStep
<1>2. ASSUME NEW n \in 1..MaxCount, PageAlloc(n) PROVE ListInv' BY <1>2, AllocStep
<1>3. ASSUME NEW n \in 1..MaxCount, PageAllocZ(n) PROVE ListInv' BY <1>3, AllocZStep
<1>4. ASSUME NEW r \in held, PageDealloc(r[1], r[2]) PROVE ListInv' BY <1>4, DeallocStep
<1>5. CASE UNCHANGED vars
  <2>1. pmm' = pmm /\ booted' = booted /\ held' = held /\ freedBelow' = freedBelow BY <1>5 DEF vars
  <2>2. TypeInv' BY <2>1 DEF ListInv, TypeInv, TypeOK, EndsInside, IsHeader
  <2>3. Sound' = Sound BY <2>1 DEF Sound
  <2>4. FreePages(pmm)' = FreePages(pmm) BY <2>1 DEF FreePages, ChunkPages
  <2>5. HeldPages' = HeldPages /\ AddedPages' = AddedPages BY <2>1 DEF HeldPages, AddedPages
  <2>6. PagesConserved' BY <2>1, <2>3, <2>4, <2>5 DEF ListInv, PagesConserved
  <2>7. Sound' => Listed' BY <2>1, <2>3 DEF ListInv, Listed
  <2>8. booted' < Len(Regions) => Sound' /\ held' = {} BY <2>1, <2>3 DEF ListInv
  <2> QED BY <2>2, <2>6, <2>7, <2>8 DEF ListInv
<1> QED BY <1>1, <1>2, <1>3, <1>4, <1>5 DEF Next

-----------------------------------------------------------------------------
(* What follows.                                                           *)

LEMMA ListInvariant == Spec => []ListInv
  BY ListInvInit, ListInvStep, PTL DEF Spec

\* The list is sorted and doubly linked from front to back and no two chunks touch, for
\* every memory map and every order of calls, until a block is given back below the
\* first chunk or a merge past the last one writes through null (llallocator.cppm:34-136).
THEOREM ListCorrect == Spec => []ListWellFormed
<1>1. ListInv => ListWellFormed
  <2> SUFFICES ASSUME ListInv, Sound PROVE ListWellFormed BY DEF ListWellFormed
  <2>1. PICK C : Listing(pmm, C) BY DEF ListInv, Listed
  <2>2. PICK len \in Nat : Walks(pmm, C, len) BY <2>1, ChainWalks
  <2>3. PICK chain : chain = Chain(pmm) OBVIOUS
  <2>4. /\ DOMAIN chain = 1..len
        /\ len = 0 <=> C = {}
        /\ len # 0 => chain[1] = pmm.front /\ chain[len] = pmm.back
        /\ \A k \in 1..len : chain[k] \in C
        /\ \A k \in 1..len : k # len => pmm.mem[chain[k]].next = chain[k + 1]
        /\ \A i, j \in 1..len : i < j => chain[i] < chain[j]
    BY <2>2, <2>3 DEF Walks
  <2>5. chain = [k \in 1..len |-> chain[k]] BY <2>3, <2>4 DEF Chain, Restrict
  <2>6. chain \in Seq(C) /\ Len(chain) = len BY <2>4, <2>5
  <2>7. chain = <<>> => C = {} BY <2>4, <2>6
  <2>8. ASSUME chain # <<>>
        PROVE  /\ pmm.mem[chain[1]].prev = Null
               /\ pmm.back = chain[Len(chain)]
               /\ pmm.mem[pmm.back].next = Null
    <3>1. len # 0 BY <2>6, <2>8
    <3>2. pmm.front \in C /\ pmm.back \in C BY <2>1, <2>4, <3>1, EndsOf
    <3>3. NextIs(pmm, C, pmm.back) /\ PrevIs(pmm, C, pmm.front) BY <2>1, <3>2 DEF Listing
    <3> QED BY <2>4, <2>6, <3>1, <3>3 DEF NextIs, PrevIs
  <2>9. ASSUME NEW k \in 1..(Len(chain) - 1)
        PROVE  /\ chain[k] + pmm.mem[chain[k]].size < chain[k + 1]
               /\ pmm.mem[chain[k + 1]].prev = chain[k]
    <3>1. k \in 1..len /\ k # len /\ k + 1 \in 1..len /\ k < k + 1 BY <2>6
    <3>2. PICK p, q : p = chain[k] /\ q = chain[k + 1] OBVIOUS
    <3>3. p \in C /\ q \in C /\ p < q /\ pmm.mem[p].next = q BY <2>4, <3>1, <3>2
    <3>4. p + pmm.mem[p].size < q BY <2>1, <3>3 DEF Listing, Placed
    <3>5. p # pmm.back
      <4>1. NextIs(pmm, C, p) /\ Null \notin C BY <2>1, <3>3, ChunksAreInts DEF Listing
      <4> QED BY <3>3, <4>1 DEF NextIs
    <3>6. pmm.mem[q].prev = p BY <2>1, <3>3, <3>5, Neighbours
    <3> QED BY <3>2, <3>4, <3>6
  <2>10. C = {} => pmm.front = Null /\ pmm.back = Null BY <2>1 DEF Listing, Ends
  <2> QED BY <2>3, <2>7, <2>8, <2>9, <2>10 DEF ListWellFormed
<1> QED BY <1>1, ListInvariant, PTL

\* No page is lost, and none belongs to two callers or to a caller and the free list.
THEOREM Conservation == Spec => []PagesConserved
<1>1. ListInv => PagesConserved BY DEF ListInv
<1> QED BY <1>1, ListInvariant, PTL

\* page_alloc returns null only when no n consecutive pages are free, and otherwise the
\* end of the lowest stretch that has them (pmm.cppm:32), whatever n is asked for.
THEOREM FirstFitCorrect == Spec => []NullOnlyWhenFull
<1>1. ListInv => NullOnlyWhenFull
  <2> SUFFICES ASSUME ListInv, Sound, NEW n \in 1..MaxCount
               PROVE  {r[2] : r \in AllocFromChunk(pmm, n)} = Abstract!FirstFit(Free, n)
    BY DEF NullOnlyWhenFull
  <2>1. PICK C : Listing(pmm, C) BY DEF ListInv, Listed
  <2>2. Free = PagesOf(pmm, C) BY <2>1, ChunksOf DEF Free
  <2>3. Typed(pmm) BY DEF ListInv, TypeInv, TypeOK, Typed, List
  <2>4. n \in Nat \ {0} BY PmmAssumption
  <2>5. CASE AllocFromChunk(pmm, n) = {}
    <3>1. \A p \in C : pmm.mem[p].size < n BY <2>1, <2>3, <2>4, <2>5, AllocTakes
    <3>2. Abstract!FirstFit(Free, n) = {} BY <2>1, <2>2, <2>4, <3>1, NoFit
    <3> QED BY <2>5, <3>2
  <2>6. CASE AllocFromChunk(pmm, n) # {}
    <3>1. PICK p \in C : /\ LowestFit(pmm, C, n, p)
                         /\ \A r \in AllocFromChunk(pmm, n) : r[2] = p + pmm.mem[p].size - n
      BY <2>1, <2>3, <2>4, <2>6, AllocTakes
    <3>2. Abstract!FirstFit(Free, n) = {p + pmm.mem[p].size - n} BY <2>1, <2>2, <2>4, <3>1, FitIsFirst
    <3> QED BY <2>6, <3>1, <3>2
  <2> QED BY <2>5, <2>6
<1> QED BY <1>1, ListInvariant, PTL

\* Pmm implements PageSet while the list is sound: a call takes one run of free pages,
\* where first fit is, or adds one.
THEOREM Refinement == Spec => TakesOrGivesRuns
<1> USE DEF Free
<1>1. ASSUME NEW p, NEW n, RunInside(p, n), Run(p, n) \cap Free = {}, Free' = Free \cup Run(p, n)
      PROVE  Abstract!Add
  <2>1. p \in Nat /\ n \in Nat /\ p >= 1 /\ n >= 1 /\ p \in 1..NumPages /\ p + n - 1 \in 1..NumPages
    BY <1>1, PmmAssumption DEF RunInside, Page
  <2>2. Run(p, n) \in Abstract!Runs
    <3>1. Run(p, n) = p..(p + n - 1) BY DEF Run
    <3>2. p \in p..(p + n - 1) BY <2>1
    <3> QED BY <2>1, <3>1, <3>2 DEF Abstract!Runs
  <2>3. Free' \ Free = Run(p, n) /\ Free \subseteq Free' BY <1>1
  <2> QED BY <2>2, <2>3 DEF Abstract!Add
<1>2. ASSUME ListInv, [Next]_vars PROVE [~Sound' \/ Abstract!Next]_Free
  <2>1. CASE Boot
    <3>1. \E p, n : RunInside(p, n) /\ Run(p, n) \cap Free = {} /\ Free' = Free \cup Run(p, n)
      BY <1>2, <2>1, BootStep
    <3> QED BY <3>1, <1>1 DEF Abstract!Next
  <2>2. ASSUME NEW n \in 1..MaxCount, PageAlloc(n) PROVE [~Sound' \/ Abstract!Next]_Free
    <3> SUFFICES ASSUME Sound' PROVE Abstract!Next OBVIOUS
    <3>1. PICK p \in Page : /\ RunInside(p, n) /\ Run(p, n) \subseteq Free
                            /\ p \in Abstract!FirstFit(Free, n)
                            /\ Free' = Free \ Run(p, n)
      BY <1>2, <2>2, AllocStep
    <3>2. n \in 1..NumPages /\ p \in Nat BY <3>1, PmmAssumption DEF RunInside, Page
    <3>3. p \in Free BY <3>1, <3>2 DEF Run
    <3>4. Abstract!Run(p, n) = Run(p, n) BY DEF Run, Abstract!Run
    <3>5. Abstract!Take BY <3>1, <3>2, <3>3, <3>4 DEF Abstract!Take
    <3> QED BY <3>5 DEF Abstract!Next
  <2>3. ASSUME NEW n \in 1..MaxCount, PageAllocZ(n) PROVE ~Sound' BY <1>2, <2>3, AllocZStep
  <2>4. ASSUME NEW r \in held, PageDealloc(r[1], r[2]) PROVE [~Sound' \/ Abstract!Next]_Free
    <3> SUFFICES ASSUME Sound' PROVE Abstract!Next OBVIOUS
    <3>1. \E p, n : RunInside(p, n) /\ Run(p, n) \cap Free = {} /\ Free' = Free \cup Run(p, n)
      BY <1>2, <2>4, DeallocStep
    <3> QED BY <3>1, <1>1 DEF Abstract!Next
  <2>5. CASE UNCHANGED vars BY <2>5 DEF vars, FreePages, ChunkPages
  <2> QED BY <1>2, <2>1, <2>2, <2>3, <2>4, <2>5 DEF Next
<1> QED BY <1>2, ListInvariant, PTL DEF Spec, TakesOrGivesRuns

=============================================================================
