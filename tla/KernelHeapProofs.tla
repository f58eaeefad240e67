-------------------------- MODULE KernelHeapProofs --------------------------
(***************************************************************************)
(* Proofs about the kernel's heap for any number of pages, page size, size *)
(* classes and position of the 4 GiB line: until a page goes back to the   *)
(* PMM, no block is shared, no wild pointer is followed, a null with pages *)
(* left is followed by a block, and callers lose no word but those that    *)
(* init_chunk writes past its page.                                        *)
(***************************************************************************)
EXTENDS KernelHeap, NaturalsInduction, WellFoundedInduction, TLAPS

(***************************************************************************)
(* Addresses.                                                              *)
(***************************************************************************)

\* A set of naturals that is not empty has a least member.
LEMMA LeastNumber ==
    ASSUME NEW S \in SUBSET Nat, S # {}
    PROVE  \E m \in S : \A k \in S : m <= k
<1>1. PICK m \in S : \A k \in S : ~(<<k, m>> \in OpToRel(<, Nat))
    BY NatLessThanWellFounded, WFMin
<1>2. \A k \in S : ~(k < m) BY <1>1 DEF OpToRel
<1> QED BY <1>2

LEMMA ConstantTypes ==
    /\ NumPages \in Nat /\ NumPages >= 1 /\ LowPages \in Nat /\ LowPages >= 1
    /\ MaxRun \in Nat /\ PageWords \in Nat /\ PageWords >= 4
    /\ Bucket \subseteq Nat \ {0}
    /\ \A b \in Bucket : Buckets[b] \in 1..PageWords /\ PageWords % Buckets[b] = 0
<1>1. NumPages \in Nat /\ NumPages >= 1 /\ LowPages \in Nat /\ LowPages >= 1
      /\ MaxRun \in Nat /\ PageWords \in Nat /\ PageWords >= 4
    BY KernelHeapAssumption
<1>2. Bucket = 1..Len(Buckets) /\ Len(Buckets) \in Nat BY KernelHeapAssumption DEF Bucket
<1>3. Bucket \subseteq Nat \ {0} BY <1>2
<1>4. \A b \in Bucket : Buckets[b] \in 1..PageWords BY <1>2, KernelHeapAssumption
<1>5. \A b \in Bucket : PageWords % Buckets[b] = 0 BY KernelHeapAssumption DEF Bucket
<1> QED BY <1>1, <1>3, <1>4, <1>5

\* The words of a page.
LEMMA InPage ==
    ASSUME NEW p \in Page, NEW j \in 0..(PageWords - 1)
    PROVE  /\ Base(p) \in Nat /\ Base(p) >= PageWords
           /\ Base(p) + j \in Word /\ PageOf(Base(p) + j) = p
           /\ Base(p + 1) = Base(p) + PageWords
<1>1. PageWords \in Nat /\ PageWords >= 4 /\ NumPages \in Nat BY ConstantTypes
<1>2. p \in Nat /\ 1 <= p /\ p <= NumPages BY <1>1 DEF Page
<1>3. Base(p) \in Nat /\ Base(p) >= PageWords BY <1>1, <1>2 DEF Base
<1>4. PageOf(Base(p) + j) = p BY <1>1, <1>2 DEF Base, PageOf
<1>5. Base(p + 1) = Base(p) + PageWords BY <1>1, <1>2 DEF Base
<1>6. Base(1) = PageWords BY <1>1 DEF Base
<1>7. Base(p) + PageWords <= Base(NumPages + 1) BY <1>1, <1>2 DEF Base
<1>8. Base(NumPages + 1) \in Nat BY <1>1 DEF Base
<1>9. Base(p) + j \in Word BY <1>1, <1>3, <1>6, <1>7, <1>8 DEF Word
<1> QED BY <1>3, <1>4, <1>5, <1>9

\* Where a word lies.
LEMMA WordPage ==
    ASSUME NEW a \in Word
    PROVE  /\ a \in Nat /\ a # 0 /\ PageOf(a) \in Page
           /\ Base(PageOf(a)) <= a /\ a < Base(PageOf(a)) + PageWords
<1>1. PageWords \in Nat /\ PageWords >= 4 /\ NumPages \in Nat BY ConstantTypes
<1>2. Base(1) = PageWords /\ Base(NumPages + 1) = (NumPages + 1) * PageWords BY <1>1 DEF Base
<1>3. (NumPages + 1) * PageWords \in Nat BY <1>1
<1>4. a \in Nat /\ PageWords <= a /\ a < (NumPages + 1) * PageWords BY <1>1, <1>2, <1>3 DEF Word
<1>5. PageOf(a) \in Int /\ PageOf(a) * PageWords <= a /\ a < (PageOf(a) + 1) * PageWords
    BY <1>1, <1>4 DEF PageOf
<1>6. PageOf(a) >= 1 BY <1>1, <1>4, <1>5
<1>7. PageOf(a) < NumPages + 1 BY <1>1, <1>4, <1>5
<1>8. PageOf(a) \in Page BY <1>1, <1>5, <1>6, <1>7 DEF Page
<1>9. Base(PageOf(a)) <= a /\ a < Base(PageOf(a)) + PageWords BY <1>1, <1>5 DEF Base
<1> QED BY <1>1, <1>4, <1>8, <1>9

LEMMA BaseOf ==
    ASSUME NEW p \in Page
    PROVE  Base(p) \in Word /\ PageOf(Base(p)) = p /\ Base(p) \in Nat /\ Base(p) # Null /\ Base(p) % PageWords = 0
<1>1. PageWords \in Nat /\ PageWords >= 4 BY ConstantTypes
<1>2. Base(p) \in Nat /\ Base(p) >= PageWords /\ Base(p) + 0 \in Word /\ PageOf(Base(p) + 0) = p BY <1>1, InPage
<1>3. Base(p) + 0 = Base(p) BY <1>2
<1>4. (p * PageWords) % PageWords = 0 BY <1>1 DEF Page
<1> QED BY <1>1, <1>2, <1>3, <1>4 DEF Null, Base

\* The words of a ChunkPtr.
LEMMA ChunkWords ==
    ASSUME NEW p \in Page, NEW k \in 1..ChunkCount
    PROVE  LET c == Base(p) + 2 * k IN
           /\ BytesUsed(c) \in Word /\ List(c) \in Word /\ BytesUsed(c) # List(c)
           /\ PageOf(BytesUsed(c)) = p /\ PageOf(List(c)) = p
           /\ BytesUsed(c) > Base(p) /\ List(c) > Base(p)
<1>1. PageWords \in Nat /\ PageWords >= 4 BY ConstantTypes
<1>2. ChunkCount \in Nat /\ 2 * ChunkCount <= PageWords - 2 BY <1>1 DEF ChunkCount
<1>3. 2 * k \in 1..(PageWords - 2) BY <1>1, <1>2
<1>4. Base(p) \in Nat BY <1>1, BaseOf
<1>5. Base(p) + 2 * k \in Word /\ PageOf(Base(p) + 2 * k) = p BY <1>1, <1>3, InPage
<1>6. 2 * k + 1 \in 0..(PageWords - 1) BY <1>1, <1>3
<1>7. Base(p) + (2 * k + 1) \in Word /\ PageOf(Base(p) + (2 * k + 1)) = p BY <1>6, InPage
<1>8. Base(p) + (2 * k + 1) = (Base(p) + 2 * k) + 1 BY <1>3, <1>4
<1> QED BY <1>3, <1>4, <1>5, <1>7, <1>8 DEF BytesUsed, List

LEMMA Multiple ==
    ASSUME NEW s \in Nat, s >= 1, NEW a \in Int, a % s = 0
    PROVE  \E i \in Int : a = s * i
<1>1. a \div s \in Int OBVIOUS
<1>2. a = s * (a \div s) OBVIOUS
<1> QED BY <1>1, <1>2

\* A block lies in one page.
LEMMA BlockInPage ==
    ASSUME NEW b \in Bucket, NEW x \in Word, x % Buckets[b] = 0, NEW a \in Block(x, b)
    PROVE  a \in Word /\ PageOf(a) = PageOf(x)
<1> DEFINE s == Buckets[b]
           q == PageOf(x)
<1>1. PageWords \in Nat /\ PageWords >= 4 /\ s \in 1..PageWords /\ PageWords % s = 0 BY ConstantTypes
<1>2. x \in Nat /\ q \in Page /\ Base(q) <= x /\ x < Base(q) + PageWords BY WordPage
<1>3. q \in Nat /\ Base(q) = q * PageWords BY <1>2 DEF Page, Base
<1>0. x % s = 0 /\ s \in Nat /\ s >= 1 /\ x \in Int BY <1>1, <1>2
<1> HIDE DEF q, s
<1>4. PICK i \in Int : x = s * i BY ONLY <1>0, <1>1, Multiple
<1>5. PICK n \in Int : PageWords = s * n BY <1>1
<1>6. (q + 1) * (s * n) = s * ((q + 1) * n) BY <1>1, <1>3, <1>5
<1>7. s * i < s * ((q + 1) * n) BY <1>1, <1>2, <1>3, <1>4, <1>5, <1>6
<1>8. i < (q + 1) * n BY <1>1, <1>3, <1>4, <1>5, <1>7
<1>9. i + 1 <= (q + 1) * n BY <1>3, <1>4, <1>5, <1>8
<1>10. s * (i + 1) <= s * ((q + 1) * n) BY <1>1, <1>3, <1>4, <1>5, <1>9
<1>11. s * (i + 1) = x + s BY <1>1, <1>4
<1>12. x + s <= Base(q) + PageWords BY <1>1, <1>3, <1>5, <1>6, <1>10, <1>11
<1>13. a \in Nat /\ x <= a /\ a < x + s BY <1>1, <1>2 DEF Block, s
<1>14. a - Base(q) \in 0..(PageWords - 1) BY <1>1, <1>2, <1>3, <1>12, <1>13
<1>15. Base(q) + (a - Base(q)) = a BY <1>1, <1>2, <1>3, <1>13
<1>16. a \in Word /\ PageOf(a) = q BY <1>2, <1>14, <1>15, InPage
<1> QED BY <1>16 DEF q

\* Different blocks of one size do not meet.
LEMMA BlocksDiffer ==
    ASSUME NEW b \in Bucket, NEW x \in Word, NEW y \in Word, x % Buckets[b] = 0, y % Buckets[b] = 0, x # y
    PROVE  Block(x, b) \cap Block(y, b) = {}
<1> DEFINE s == Buckets[b]
<1>1. s \in Nat /\ s >= 1 BY ConstantTypes
<1>2. x \in Nat /\ y \in Nat BY WordPage
<1>0. x % s = 0 /\ y % s = 0 /\ x \in Int /\ y \in Int BY <1>2
<1> HIDE DEF s
<1>3. PICK i \in Int : x = s * i BY ONLY <1>0, <1>1, Multiple
<1>4. PICK j \in Int : y = s * j BY ONLY <1>0, <1>1, Multiple
<1>5. CASE i < j
  <2>1. s * (i + 1) <= s * j BY <1>1, <1>5
  <2>2. x + s <= y BY <1>1, <1>3, <1>4, <2>1
  <2> QED BY <1>1, <1>2, <2>2 DEF Block, s
<1>6. CASE j < i
  <2>1. s * (j + 1) <= s * i BY <1>1, <1>6
  <2>2. y + s <= x BY <1>1, <1>3, <1>4, <2>1
  <2> QED BY <1>1, <1>2, <2>2 DEF Block, s
<1> QED BY <1>3, <1>4, <1>5, <1>6

(***************************************************************************)
(* Lists.                                                                  *)
(***************************************************************************)

\* trail is what following links from first meets, n times.
Trail(trail, mem, valid, first, n) ==
    trail = [k \in 1..n |-> IF k = 1 THEN first
                            ELSE LET x == trail[k - 1] IN IF x \in valid THEN mem[x] ELSE Null]

\* There is a trail of any length: a counterexample of least n extends the one below it.
LEMMA TrailExists ==
    ASSUME NEW mem, NEW valid, NEW first, NEW n \in Nat
    PROVE  \E trail : Trail(trail, mem, valid, first, n)
<1> DEFINE Bad == {m \in Nat : ~ \E trail : Trail(trail, mem, valid, first, m)}
<1> SUFFICES ASSUME Bad # {} PROVE FALSE OBVIOUS
<1>1. PICK m \in Bad : \A k \in Bad : m <= k BY LeastNumber
<1>2. m # 0
  <2>1. Trail([k \in 1..0 |-> first], mem, valid, first, 0) BY DEF Trail
  <2> QED BY <2>1
<1>3. PICK g : Trail(g, mem, valid, first, m - 1) BY <1>1, <1>2
<1> DEFINE Next1(f, k) == IF k = 1 THEN first
                          ELSE LET x == f[k - 1] IN IF x \in valid THEN mem[x] ELSE Null
           h == [k \in 1..m |-> IF k = m THEN Next1(g, m) ELSE g[k]]
<1>4. \A k \in 1..m : h[k] = Next1(h, k)
  <2> SUFFICES ASSUME NEW k \in 1..m PROVE h[k] = Next1(h, k) OBVIOUS
  <2>1. m \in Nat BY <1>1
  <2>2. k # 1 => h[k - 1] = g[k - 1] BY <2>1
  <2>3. Next1(h, k) = Next1(g, k) BY <2>2
  <2>4. CASE k = m BY <2>3, <2>4
  <2>5. CASE k # m
    <3>1. k \in 1..(m - 1) BY <2>1, <2>5
    <3>2. g[k] = Next1(g, k) BY <1>3, <3>1 DEF Trail
    <3> QED BY <2>3, <2>5, <3>2
  <2> QED BY <2>4, <2>5
<1>5. h = [k \in 1..m |-> Next1(h, k)]
  <2> HIDE DEF Next1
  <2>1. \A k \in 1..m : h[k] = Next1(h, k) BY <1>4
  <2> QED BY <2>1
<1>6. Trail(h, mem, valid, first, m) BY <1>5 DEF Trail
<1> QED BY <1>1, <1>6

LEMMA FollowedIs ==
    ASSUME NEW mem, NEW valid, NEW first, NEW n \in Nat
    PROVE  Trail(Followed(mem, valid, first, n), mem, valid, first, n)
<1>1. Followed(mem, valid, first, n) = CHOOSE trail : Trail(trail, mem, valid, first, n)
    BY DEF Followed, Trail
<1> QED BY <1>1, TrailExists

\* Following a list that goes through the places 1, ..., len and then, if it is shorter
\* than n, ends in null.
Links(mem, valid, first, n, len, at) ==
    /\ n \in Nat /\ len \in 0..n /\ Null \notin valid
    /\ \A i \in 1..len : at[i] \in valid
    /\ len > 0 => first = at[1]
    /\ \A i \in 1..len : i < len => mem[at[i]] = at[i + 1]
    /\ len < n => (IF len = 0 THEN first = Null ELSE mem[at[len]] = Null)
Goes(f, n, len, at) == DOMAIN f = 1..n /\ \A k \in 1..n : f[k] = IF k <= len THEN at[k] ELSE Null

LEMMA FollowList ==
    ASSUME NEW mem, NEW valid, NEW first, NEW n, NEW len, NEW at, Links(mem, valid, first, n, len, at)
    PROVE  Goes(Followed(mem, valid, first, n), n, len, at)
<1>0. /\ n \in Nat /\ len \in 0..n /\ Null \notin valid
      /\ \A i \in 1..len : at[i] \in valid
      /\ len > 0 => first = at[1]
      /\ \A i \in 1..len : i < len => mem[at[i]] = at[i + 1]
      /\ len < n => (IF len = 0 THEN first = Null ELSE mem[at[len]] = Null)
  BY DEF Links
<1>1. PICK f : f = Followed(mem, valid, first, n) OBVIOUS
<1>2. Trail(f, mem, valid, first, n) BY <1>0, <1>1, FollowedIs
<1>3. DOMAIN f = 1..n /\ \A k \in 1..n : f[k] = IF k = 1 THEN first
                            ELSE LET x == f[k - 1] IN IF x \in valid THEN mem[x] ELSE Null
  BY <1>2 DEF Trail
<1> DEFINE Right(k) == f[k] = IF k <= len THEN at[k] ELSE Null
           Bad == {k \in 1..n : ~Right(k)}
<1>4. Bad = {}
  <2> SUFFICES ASSUME Bad # {} PROVE FALSE OBVIOUS
  <2>0. Bad \in SUBSET Nat BY <1>0
  <2>1. PICK k \in Bad : \A j \in Bad : k <= j BY <2>0, LeastNumber
  <2>2. k \in 1..n /\ ~Right(k) BY <2>1
  <2>3. CASE k = 1 BY <1>0, <1>3, <2>2, <2>3
  <2>4. CASE k # 1
    <3>1. k - 1 \in 1..n /\ k - 1 \notin Bad BY <1>0, <2>1, <2>2, <2>4
    <3>2. Right(k - 1) BY <3>1
    <3>3. f[k] = IF f[k - 1] \in valid THEN mem[f[k - 1]] ELSE Null BY <1>0, <1>3, <2>2, <2>4
    <3>4. CASE k <= len
      <4>1. k - 1 \in 1..len /\ k - 1 < len /\ (k - 1) + 1 = k BY <1>0, <2>2, <2>4, <3>4
      <4>2. f[k - 1] = at[k - 1] /\ f[k - 1] \in valid BY <1>0, <3>2, <4>1
      <4>3. mem[at[k - 1]] = at[k] BY <1>0, <4>1
      <4> QED BY <1>0, <2>2, <3>3, <3>4, <4>2, <4>3
    <3>5. CASE k = len + 1
      <4>1. k - 1 = len /\ len \in 1..len /\ len < n /\ len # 0 BY <1>0, <2>2, <2>4, <3>5
      <4>2. f[k - 1] = at[len] /\ f[k - 1] \in valid BY <1>0, <3>2, <4>1
      <4>3. mem[at[len]] = Null BY <1>0, <4>1
      <4> QED BY <1>0, <2>2, <3>3, <3>5, <4>2, <4>3
    <3>6. CASE k > len + 1
      <4>1. ~(k - 1 <= len) /\ ~(k <= len) BY <1>0, <2>2, <3>6
      <4>2. f[k - 1] = Null BY <1>0, <3>2, <4>1
      <4> QED BY <1>0, <2>2, <3>3, <4>1, <4>2
    <3> QED BY <1>0, <2>2, <3>4, <3>5, <3>6
  <2> QED BY <2>3, <2>4
<1>5. \A k \in 1..n : Right(k) BY <1>4
<1> QED BY <1>1, <1>3, <1>5 DEF Goes

\* FirstOf is one of the places.
LEMMA FirstOfIn ==
    ASSUME NEW places \in SUBSET (Nat \X Nat), places # {}
    PROVE  FirstOf(places) \in places
<1> DEFINE I == {i \in Nat : \E e \in places : e[1] = i}
<1>1. PICK i \in I : \A j \in I : i <= j BY LeastNumber
<1> DEFINE K == {k \in Nat : <<i, k>> \in places}
<1>2. K # {} BY <1>1
<1>3. PICK k \in K : \A j \in K : k <= j BY <1>2, LeastNumber
<1>4. <<i, k>> \in places /\ i \in Nat /\ k \in Nat BY <1>1, <1>3
<1>5. ASSUME NEW f \in places
      PROVE  i < f[1] \/ (i = f[1] /\ k <= f[2])
  <2>1. f[1] \in I /\ f[1] \in Nat /\ f[2] \in Nat /\ f = <<f[1], f[2]>> OBVIOUS
  <2>2. i <= f[1] BY <1>1, <2>1
  <2>3. i = f[1] => f[2] \in K BY <2>1
  <2>4. i = f[1] => k <= f[2] BY <1>3, <2>3
  <2> QED BY <1>4, <2>1, <2>2, <2>4
<1>6. \E e \in places : \A f \in places : e[1] < f[1] \/ (e[1] = f[1] /\ e[2] <= f[2])
  BY <1>4, <1>5
<1> QED BY <1>6 DEF FirstOf

(***************************************************************************)
(* The inductive invariant, until a page goes back.  A layout g says what  *)
(* each page is used for and by which bucket (use, of), which Metadata     *)
(* pages a bucket has, in list order (meta[b][1], ..., meta[b][count[b]]), *)
(* and what is on the list of the chunk at address c: it has left[c]       *)
(* blocks to give, node[c][left[c]] first and downwards, of which          *)
(* init_chunk cut off the lowest low[c] (0 when it cut none).              *)
(***************************************************************************)
Use == {"free", "meta", "chunk", "other"}
Layouts == [use : [Page -> Use], of : [Page -> Bucket \cup {0}],
            meta : [Bucket -> [Nat -> Page]], count : [Bucket -> Nat],
            left : [Word -> Nat], low : [Word -> Nat], node : [Word -> [Nat -> Word]]]

HeapType == [mem : [Word -> Int], list : [Bucket -> {Null} \cup PageStart], free : SUBSET Page,
             fault : BOOLEAN]

UsedFor(g, p, u, b) == p \in Page /\ g.use[p] = u /\ g.of[p] = b

\* c is a ChunkPtr, or x a block, of bucket b.
IsChunk(g, b, c) ==
    /\ c \in Word /\ UsedFor(g, PageOf(c), "meta", b)
    /\ \E k \in 1..ChunkCount : c = Base(PageOf(c)) + 2 * k
IsBlock(g, b, x) == x \in Word /\ UsedFor(g, PageOf(x), "chunk", b) /\ x % Buckets[b] = 0

\* x is the r-th block of chunk c from the end.
NodeAt(g, b, c, r, x) == IsChunk(g, b, c) /\ r \in (g.low[c] + 1)..g.left[c] /\ x = g.node[c][r]

\* The PMM gives pages from the top, so that the free ones are below all others, and
\* nobody has written to them.
FreeBelow(h, g) ==
    /\ \E top \in 0..NumPages : h.free = 1..top
    /\ \A p \in Page : p \in h.free <=> g.use[p] = "free"
    /\ \A a \in Word : PageOf(a) \in h.free => h.mem[a] = 0

\* A Metadata page is below the one that links to it.
MetasLinked(h, g) ==
    \A b \in Bucket :
        /\ h.list[b] = IF g.count[b] = 0 THEN Null ELSE Base(g.meta[b][1])
        /\ \A i \in 1..g.count[b] :
              /\ UsedFor(g, g.meta[b][i], "meta", b)
              /\ g.meta[b][i] + i <= NumPages + 1
              /\ h.mem[Base(g.meta[b][i])] = IF i = g.count[b] THEN Null ELSE Base(g.meta[b][i + 1])
        /\ \A i, j \in 1..g.count[b] : i < j => g.meta[b][j] < g.meta[b][i]
        /\ \A p \in Page : UsedFor(g, p, "meta", b) => \E i \in 1..g.count[b] : p = g.meta[b][i]

\* bytesUsed and the list of a chunk say what the layout says.
ChunkIs(h, g, b, c) ==
    /\ g.low[c] <= g.left[c]
    /\ h.mem[BytesUsed(c)] + Buckets[b] * g.left[c] = PageWords
    /\ g.low[c] < g.left[c] => h.mem[List(c)] = g.node[c][g.left[c]]
    /\ g.low[c] > 0 =>
          Null = IF g.low[c] = g.left[c] THEN h.mem[List(c)] ELSE h.mem[g.node[c][g.low[c] + 1]]
ChunksAre(h, g) == \A b \in Bucket : \A c \in Word : IsChunk(g, b, c) => ChunkIs(h, g, b, c)

\* A listed block is one of the bucket's, no caller has it, and it links to the next.
NodesAre(h, hl, g) ==
    \A b \in Bucket : \A c, x \in Word : \A r \in Nat : NodeAt(g, b, c, r, x) =>
        /\ IsBlock(g, b, x) /\ <<x, b>> \notin hl
        /\ r > g.low[c] + 1 => h.mem[x] = g.node[c][r - 1]

\* No block is listed twice.
NodesApart(g) ==
    \A b, d \in Bucket : \A c, e, x \in Word : \A r, q \in Nat :
        NodeAt(g, b, c, r, x) /\ NodeAt(g, d, e, q, x) => c = e /\ r = q

HeldAre(hl, g) == \A r \in hl : r[2] \in Bucket /\ IsBlock(g, r[2], r[1])

Sound(h, hl, g) ==
    /\ h \in HeapType /\ hl \subseteq Word \X Bucket /\ g \in Layouts /\ ~h.fault
    /\ FreeBelow(h, g) /\ MetasLinked(h, g) /\ ChunksAre(h, g)
    /\ NodesAre(h, hl, g) /\ NodesApart(g) /\ HeldAre(hl, g)

\* Block x of bucket b is nobody's.
Loose(hl, g, b, x) ==
    /\ IsBlock(g, b, x) /\ <<x, b>> \notin hl
    /\ \A d \in Bucket : \A c \in Word : \A r \in Nat : ~NodeAt(g, d, c, r, x)

(***************************************************************************)
(* What the traversals meet.                                               *)
(***************************************************************************)

LEMMA PageStarts ==
    /\ PageStart \subseteq Word /\ Null \notin PageStart /\ Null \notin Word
    /\ \A p \in Page : Base(p) \in PageStart
    /\ \A a \in PageStart : PageOf(a) \in Page /\ a = Base(PageOf(a))
<1>1. \A p \in Page : Base(p) \in Word /\ PageOf(Base(p)) = p BY BaseOf
<1>2. \A a \in Word : a # 0 BY WordPage
<1> QED BY <1>1, <1>2 DEF PageStart, Null

\* The chunks of a page in use for the metadata of b.
LEMMA ChunkOfPage ==
    ASSUME NEW g, NEW b \in Bucket, NEW p, UsedFor(g, p, "meta", b), NEW k \in 1..ChunkCount
    PROVE  LET c == Base(p) + 2 * k IN
           /\ IsChunk(g, b, c) /\ PageOf(c) = p
           /\ c \in Word /\ BytesUsed(c) \in Word /\ List(c) \in Word
<1>1. p \in Page BY DEF UsedFor
<1>2. PICK c : c = Base(p) + 2 * k OBVIOUS
<1>3. BytesUsed(c) \in Word /\ List(c) \in Word /\ PageOf(BytesUsed(c)) = p BY <1>1, <1>2, ChunkWords
<1>4. c \in Word /\ PageOf(c) = p BY <1>3 DEF BytesUsed
<1>5. IsChunk(g, b, c) BY <1>2, <1>4 DEF IsChunk
<1> QED BY <1>2, <1>3, <1>4, <1>5

\* Where the words of a chunk lie.
LEMMA ChunkLies ==
    ASSUME NEW g, NEW b \in Bucket, NEW c, IsChunk(g, b, c)
    PROVE  /\ c \in Word /\ BytesUsed(c) \in Word /\ List(c) \in Word
           /\ BytesUsed(c) # List(c)
           /\ PageOf(BytesUsed(c)) = PageOf(c) /\ PageOf(List(c)) = PageOf(c)
           /\ UsedFor(g, PageOf(c), "meta", b) /\ PageOf(c) \in Page
           /\ \A p \in Page : BytesUsed(c) # Base(p) /\ List(c) # Base(p)
           /\ \A d, e : IsChunk(g, e, d) => BytesUsed(c) # List(d)
<1>1. PICK k \in 1..ChunkCount : c = Base(PageOf(c)) + 2 * k BY DEF IsChunk
<1>2. PICK p : p = PageOf(c) OBVIOUS
<1>3. c \in Word /\ p \in Page /\ UsedFor(g, p, "meta", b) BY <1>2 DEF IsChunk, UsedFor
<1>4. /\ BytesUsed(c) \in Word /\ List(c) \in Word /\ BytesUsed(c) # List(c)
      /\ PageOf(BytesUsed(c)) = p /\ PageOf(List(c)) = p /\ BytesUsed(c) > Base(p) /\ List(c) > Base(p)
    BY <1>1, <1>2, <1>3, ChunkWords
<1>5. ASSUME NEW q \in Page PROVE BytesUsed(c) # Base(q) /\ List(c) # Base(q)
  <2>1. PageOf(Base(q)) = q /\ Base(q) \in Nat /\ Base(p) \in Nat BY <1>3, BaseOf
  <2>2. CASE q = p BY <1>4, <2>1, <2>2
  <2>3. CASE q # p BY <1>4, <2>1, <2>3
  <2> QED BY <2>2, <2>3
<1>6. ASSUME NEW d, NEW e, IsChunk(g, e, d) PROVE BytesUsed(c) # List(d)
  <2>1. PICK j \in 1..ChunkCount : d = Base(PageOf(d)) + 2 * j BY <1>6 DEF IsChunk
  <2>2. d \in Word /\ PageOf(d) \in Page BY <1>6 DEF IsChunk, UsedFor
  <2>3. PageOf(List(d)) = PageOf(d) BY <2>1, <2>2, ChunkWords
  <2>4. CASE PageOf(d) = p
    <3>1. Base(p) \in Nat /\ ChunkCount \in Int BY <1>3, BaseOf, ConstantTypes DEF ChunkCount
    <3>2. 2 * k # 2 * j + 1 BY <3>1
    <3>3. List(d) = (Base(p) + 2 * j) + 1 BY <2>1, <2>4 DEF List
    <3>4. BytesUsed(c) = Base(p) + 2 * k BY <1>1, <1>2 DEF BytesUsed
    <3> QED BY <3>1, <3>2, <3>3, <3>4
  <2>5. CASE PageOf(d) # p BY <1>4, <2>3, <2>5
  <2> QED BY <2>4, <2>5
<1> QED BY <1>2, <1>3, <1>4, <1>5, <1>6

LEMMA MetadataListIs ==
    ASSUME NEW h, NEW hl, NEW g, Sound(h, hl, g), NEW b \in Bucket
    PROVE  /\ g.count[b] \in 0..NumPages /\ DOMAIN MetadataList(h, b) = Page
           /\ \A i \in 1..g.count[b] : g.meta[b][i] \in Page
           /\ \A i \in Page : MetadataList(h, b)[i] = IF i <= g.count[b] THEN Base(g.meta[b][i]) ELSE Null
<1>1. NumPages \in Nat BY ConstantTypes
<1>2. PICK n : n = g.count[b] OBVIOUS
<1>3. g \in Layouts /\ n \in Nat BY <1>2 DEF Sound, Layouts
<1>4. /\ h.list[b] = IF n = 0 THEN Null ELSE Base(g.meta[b][1])
      /\ \A i \in 1..n : /\ g.meta[b][i] + i <= NumPages + 1
                         /\ h.mem[Base(g.meta[b][i])] = IF i = n THEN Null ELSE Base(g.meta[b][i + 1])
    BY <1>2 DEF Sound, MetasLinked
<1>5. \A i \in 1..n : g.meta[b][i] \in Page BY <1>3 DEF Layouts
<1>6. n \in 0..NumPages
  <2>1. n > 0 => g.meta[b][n] >= 1 /\ g.meta[b][n] \in Nat /\ g.meta[b][n] + n <= NumPages + 1
    BY <1>3, <1>4, <1>5 DEF Page
  <2> QED BY <1>1, <1>3, <2>1
<1> DEFINE at == [i \in 1..n |-> Base(g.meta[b][i])]
<1>7. \A i \in 1..n : at[i] \in PageStart BY <1>5, PageStarts
<1>8. n > 0 => h.list[b] = at[1] BY <1>3, <1>4
<1>9. \A i \in 1..n : i < n => h.mem[at[i]] = at[i + 1] BY <1>3, <1>4
<1>10. n < NumPages => (IF n = 0 THEN h.list[b] = Null ELSE h.mem[at[n]] = Null) BY <1>3, <1>4
<1>11. Null \notin PageStart BY PageStarts
<1> HIDE DEF at
<1>14. Links(h.mem, PageStart, h.list[b], NumPages, n, at)
    BY <1>1, <1>6, <1>7, <1>8, <1>9, <1>10, <1>11 DEF Links
<1>15. Goes(Followed(h.mem, PageStart, h.list[b], NumPages), NumPages, n, at) BY <1>14, FollowList
<1>12. /\ DOMAIN Followed(h.mem, PageStart, h.list[b], NumPages) = 1..NumPages
       /\ \A k \in 1..NumPages : Followed(h.mem, PageStart, h.list[b], NumPages)[k]
                                  = IF k <= n THEN at[k] ELSE Null
    BY <1>15 DEF Goes
<1>13. \A k \in 1..NumPages : k <= n => at[k] = Base(g.meta[b][k]) BY <1>1, <1>3 DEF at
<1> QED BY <1>2, <1>5, <1>6, <1>12, <1>13 DEF MetadataList, Page

\* Two Metadata pages of a bucket at different places of its list are different.
LEMMA MetasDiffer ==
    ASSUME NEW h, NEW hl, NEW g, Sound(h, hl, g), NEW b \in Bucket,
           NEW i \in 1..g.count[b], NEW j \in 1..g.count[b], g.meta[b][i] = g.meta[b][j]
    PROVE  i = j
<1>1. \A k, m \in 1..g.count[b] : k < m => g.meta[b][m] < g.meta[b][k] BY DEF Sound, MetasLinked
<1>2. g.meta[b][i] \in Nat /\ g.count[b] \in Nat BY SMTT(30) DEF Sound, Layouts, Page
<1>3. ~(i < j) /\ ~(j < i) BY <1>1, <1>2
<1> QED BY <1>2, <1>3

\* The traversals meet the chunks of the bucket, each once.
Meets(g, b, cs) ==
    /\ DOMAIN cs \in SUBSET (Nat \X Nat)
    /\ \A e \in DOMAIN cs : IsChunk(g, b, cs[e])
    /\ \A e, f \in DOMAIN cs : cs[e] = cs[f] => e = f
    /\ \A c : IsChunk(g, b, c) => \E e \in DOMAIN cs : c = cs[e]

LEMMA ChunksMet ==
    ASSUME NEW h, NEW hl, NEW g, Sound(h, hl, g), NEW b \in Bucket
    PROVE  Meets(g, b, Chunks(h, b))
<1>1. PICK ms : ms = MetadataList(h, b) OBVIOUS
<1>2. PICK n : n = g.count[b] OBVIOUS
<1>3. /\ n \in 0..NumPages
      /\ \A i \in 1..n : g.meta[b][i] \in Page
      /\ \A i \in Page : ms[i] = IF i <= n THEN Base(g.meta[b][i]) ELSE Null
    BY <1>1, <1>2, MetadataListIs
<1>4. NumPages \in Nat /\ ChunkCount \in Int BY ConstantTypes DEF ChunkCount
<1>5. {i \in Page : ms[i] \in PageStart} = 1..n
  <2>1. ASSUME NEW i \in Page PROVE ms[i] \in PageStart <=> i \in 1..n
    <3>1. CASE i <= n
      <4>1. i \in 1..n BY <1>3, <1>4, <3>1 DEF Page
      <4>2. ms[i] = Base(g.meta[b][i]) /\ g.meta[b][i] \in Page BY <1>3, <3>1, <4>1
      <4>3. ms[i] \in PageStart BY <4>2, PageStarts
      <4> QED BY <4>1, <4>3
    <3>2. CASE ~(i <= n) BY <1>3, <1>4, <3>2, PageStarts
    <3> QED BY <3>1, <3>2
  <2>2. 1..n \subseteq Page BY <1>3, <1>4 DEF Page
  <2> QED BY <2>1, <2>2
<1>6. PICK cs : cs = Chunks(h, b) OBVIOUS
<1>7. cs = [e \in (1..n) \X (1..ChunkCount) |-> ms[e[1]] + 2 * e[2]] BY <1>1, <1>5, <1>6 DEF Chunks
<1>8. DOMAIN cs = (1..n) \X (1..ChunkCount) BY <1>7
<1>9. DOMAIN cs \in SUBSET (Nat \X Nat) BY <1>4, <1>8
<1>10. ASSUME NEW e \in DOMAIN cs
       PROVE  /\ e[1] \in 1..n /\ e[2] \in 1..ChunkCount /\ e = <<e[1], e[2]>>
              /\ cs[e] = Base(g.meta[b][e[1]]) + 2 * e[2] /\ IsChunk(g, b, cs[e])
              /\ PageOf(cs[e]) = g.meta[b][e[1]] /\ Base(g.meta[b][e[1]]) \in Nat
  <2>1. e[1] \in 1..n /\ e[2] \in 1..ChunkCount /\ e = <<e[1], e[2]>> BY <1>8
  <2>2. e[1] \in Page /\ e[1] <= n BY <1>3, <1>4, <2>1 DEF Page
  <2>3. cs[e] = Base(g.meta[b][e[1]]) + 2 * e[2] BY <1>3, <1>7, <1>8, <2>2
  <2>4. UsedFor(g, g.meta[b][e[1]], "meta", b) BY <1>2, <2>1 DEF Sound, MetasLinked
  <2>5. IsChunk(g, b, cs[e]) /\ PageOf(cs[e]) = g.meta[b][e[1]] BY <2>1, <2>3, <2>4, ChunkOfPage
  <2>6. Base(g.meta[b][e[1]]) \in Nat BY <1>3, <2>1, BaseOf
  <2> QED BY <2>1, <2>3, <2>5, <2>6
<1>11. ASSUME NEW e \in DOMAIN cs, NEW f \in DOMAIN cs, cs[e] = cs[f]
       PROVE  e = f
  <2>1. g.meta[b][e[1]] = g.meta[b][f[1]] BY <1>10, <1>11
  <2>2. e[1] = f[1] BY <1>2, <1>10, <2>1, MetasDiffer
  <2>3. Base(g.meta[b][e[1]]) + 2 * e[2] = Base(g.meta[b][e[1]]) + 2 * f[2] BY <1>10, <1>11, <2>2
  <2>4. e[2] \in Int /\ f[2] \in Int /\ Base(g.meta[b][e[1]]) \in Nat BY <1>4, <1>10
  <2>5. e[2] = f[2] BY <2>3, <2>4
  <2> QED BY <1>10, <2>2, <2>5
<1>12. ASSUME NEW c, IsChunk(g, b, c)
       PROVE  \E e \in DOMAIN cs : c = cs[e]
  <2>1. PICK k \in 1..ChunkCount : c = Base(PageOf(c)) + 2 * k BY <1>12 DEF IsChunk
  <2>2. UsedFor(g, PageOf(c), "meta", b) /\ PageOf(c) \in Page BY <1>12 DEF IsChunk, UsedFor
  <2>3. PICK i \in 1..n : PageOf(c) = g.meta[b][i] BY <1>2, <2>2 DEF Sound, MetasLinked
  <2>4. <<i, k>> \in DOMAIN cs BY <1>8
  <2>5. cs[<<i, k>>] = Base(g.meta[b][i]) + 2 * k BY <1>10, <2>4
  <2> QED BY <2>1, <2>3, <2>4, <2>5
<1>13. \A e \in DOMAIN cs : IsChunk(g, b, cs[e]) BY <1>10
<1> QED BY <1>6, <1>9, <1>11, <1>12, <1>13 DEF Meets

\* The traversal ends at the lowest Metadata page.
LEMMA LastMet ==
    ASSUME NEW h, NEW hl, NEW g, Sound(h, hl, g), NEW b \in Bucket, g.count[b] # 0
    PROVE  LastMetadata(h, b) = Base(g.meta[b][g.count[b]])
<1>1. PICK ms : ms = MetadataList(h, b) OBVIOUS
<1>2. PICK n : n = g.count[b] OBVIOUS
<1>3. /\ n \in 1..NumPages
      /\ \A i \in 1..n : g.meta[b][i] \in Page
      /\ \A i \in Page : ms[i] = IF i <= n THEN Base(g.meta[b][i]) ELSE Null
    BY <1>1, <1>2, MetadataListIs
<1>4. NumPages \in Nat BY ConstantTypes
<1> DEFINE Ends(i) == ms[i] \in PageStart /\ (i = NumPages \/ ms[i + 1] \notin PageStart)
<1>5. ASSUME NEW i \in Page PROVE ms[i] \in PageStart <=> i <= n
  <2>1. i <= n => i \in 1..n BY <1>3, <1>4 DEF Page
  <2> QED BY <1>3, <2>1, PageStarts
<1>6. n \in Page BY <1>3, <1>4 DEF Page
<1>7. Ends(n)
  <2>1. n = NumPages \/ (n + 1 \in Page /\ ~(n + 1 <= n)) BY <1>3, <1>4 DEF Page
  <2>2. n <= n BY <1>3
  <2>3. ms[n] \in PageStart BY <1>5, <1>6, <2>2
  <2>4. n + 1 \in Page /\ ~(n + 1 <= n) => ms[n + 1] \notin PageStart BY <1>5
  <2> QED BY <2>1, <2>3, <2>4
<1>8. ASSUME NEW i \in Page, Ends(i) PROVE i = n
  <2>1. i <= n BY <1>5, <1>8
  <2>2. i # n => i + 1 \in Page /\ i + 1 <= n /\ i # NumPages BY <1>3, <1>4, <2>1 DEF Page
  <2> QED BY <1>5, <1>8, <2>2
<1>9. (CHOOSE i \in Page : Ends(i)) = n BY <1>6, <1>7, <1>8
<1>10. LastMetadata(h, b) = ms[n] BY <1>1, <1>9 DEF LastMetadata
<1>11. ms[n] = Base(g.meta[b][n]) BY <1>3, <1>4, <1>6
<1> QED BY <1>2, <1>10, <1>11

(***************************************************************************)
(* The steps of memalloc and memdealloc, each from one layout to another.  *)
(***************************************************************************)

SameUse(g, g2, pages) == \A q \in Page \ pages : g2.use[q] = g.use[q] /\ g2.of[q] = g.of[q]

\* The parts of a layout are functions.
LEMMA LayoutParts ==
    ASSUME NEW g \in Layouts
    PROVE  /\ g.use \in [Page -> Use] /\ g.of \in [Page -> Bucket \cup {0}]
           /\ g.meta \in [Bucket -> [Nat -> Page]] /\ g.count \in [Bucket -> Nat]
           /\ g.left \in [Word -> Nat] /\ g.low \in [Word -> Nat] /\ g.node \in [Word -> [Nat -> Word]]
           /\ \A c \in Word : g.left[c] \in Nat /\ g.low[c] \in Nat
           /\ \A c \in Word, r \in Nat : g.node[c][r] \in Word
           /\ \A b \in Bucket : g.count[b] \in Nat
           /\ \A b \in Bucket, i \in Nat : g.meta[b][i] \in Page
<1>1. /\ g.use \in [Page -> Use] /\ g.of \in [Page -> Bucket \cup {0}]
      /\ g.meta \in [Bucket -> [Nat -> Page]] /\ g.count \in [Bucket -> Nat]
      /\ g.left \in [Word -> Nat] /\ g.low \in [Word -> Nat] /\ g.node \in [Word -> [Nat -> Word]]
    BY DEF Layouts
<1>2. \A c \in Word : g.left[c] \in Nat /\ g.low[c] \in Nat BY <1>1
<1>3. \A c \in Word : g.node[c] \in [Nat -> Word] BY <1>1
<1>4. \A c \in Word, r \in Nat : g.node[c][r] \in Word BY <1>3
<1>5. \A b \in Bucket : g.count[b] \in Nat BY <1>1
<1>6. \A b \in Bucket : g.meta[b] \in [Nat -> Page] BY <1>1
<1>7. \A b \in Bucket, i \in Nat : g.meta[b][i] \in Page BY <1>6
<1> QED BY <1>1, <1>2, <1>4, <1>5, <1>7

\* What is linked where, of a node that a layout has.
LEMMA NodeLies ==
    ASSUME NEW h, NEW hl, NEW g, Sound(h, hl, g), NEW b \in Bucket, NEW c, NEW r, NEW x, NodeAt(g, b, c, r, x)
    PROVE  /\ c \in Word /\ x \in Word /\ r \in Nat /\ r >= 1 /\ r - 1 \in Nat
           /\ IsChunk(g, b, c) /\ IsBlock(g, b, x) /\ <<x, b>> \notin hl
           /\ g.low[c] + 1 <= r /\ r <= g.left[c] /\ x = g.node[c][r]
           /\ r > g.low[c] + 1 => h.mem[x] = g.node[c][r - 1]
<1>1. c \in Word /\ IsChunk(g, b, c) /\ r \in (g.low[c] + 1)..g.left[c] /\ x = g.node[c][r]
    BY DEF NodeAt, IsChunk
<1>2. g \in Layouts BY DEF Sound
<1>3. g.low[c] \in Nat /\ g.left[c] \in Nat BY <1>1, <1>2, LayoutParts
<1>4. r \in Nat /\ r >= 1 /\ r - 1 \in Nat /\ g.low[c] + 1 <= r /\ r <= g.left[c] BY <1>1, <1>3
<1>5. x \in Word BY <1>1, <1>2, <1>4, LayoutParts
<1>6. /\ IsBlock(g, b, x) /\ <<x, b>> \notin hl
      /\ r > g.low[c] + 1 => h.mem[x] = g.node[c][r - 1]
    BY <1>1, <1>4, <1>5 DEF Sound, NodesAre
<1> QED BY <1>1, <1>4, <1>5, <1>6

\* Of a page p that was free, nothing is a chunk or a block.
LEMMA FreeIsBare ==
    ASSUME NEW h, NEW hl, NEW g, Sound(h, hl, g), NEW p \in h.free
    PROVE  /\ p \in Page /\ g.use[p] = "free"
           /\ \A b, u : UsedFor(g, p, u, b) => u = "free"
           /\ \A b, c : IsChunk(g, b, c) => PageOf(c) # p
           /\ \A b, x : IsBlock(g, b, x) => PageOf(x) # p
<1>1. p \in Page BY DEF Sound, HeapType
<1>2. g.use[p] = "free" BY <1>1 DEF Sound, FreeBelow
<1> QED BY <1>1, <1>2 DEF UsedFor, IsChunk, IsBlock

\* Pages taken from the top leave the free ones below and untouched.
LEMMA TopTaken ==
    ASSUME NEW h, NEW g, FreeBelow(h, g), NEW p \in 0..NumPages, NEW q \in 0..p, h.free = 1..p,
           NEW h2, NEW g2, h2.free = 1..q,
           \A k \in Page : k \in (q + 1)..p => g2.use[k] # "free",
           \A k \in Page : k \notin (q + 1)..p => g2.use[k] = g.use[k],
           \A a \in Word : PageOf(a) \in h2.free => h2.mem[a] = h.mem[a]
    PROVE  FreeBelow(h2, g2)
<1>1. NumPages \in Nat BY ConstantTypes
<1>2. p \in Nat /\ q \in Nat /\ q <= p /\ q \in 0..NumPages BY <1>1
<1>3. \A k \in Page : k \in h2.free <=> g2.use[k] = "free"
  <2> SUFFICES ASSUME NEW k \in Page PROVE k \in h2.free <=> g2.use[k] = "free" OBVIOUS
  <2>1. k \in Nat /\ k >= 1 BY <1>1 DEF Page
  <2>2. k \in h.free <=> g.use[k] = "free" BY DEF FreeBelow
  <2>3. k \in h2.free <=> k \in h.free /\ k \notin (q + 1)..p BY <1>2, <2>1
  <2>4. CASE k \in (q + 1)..p BY <2>3, <2>4
  <2>5. CASE k \notin (q + 1)..p BY <2>2, <2>3, <2>5
  <2> QED BY <2>4, <2>5
<1>4. h2.free \subseteq h.free BY <1>2
<1>5. \A a \in Word : PageOf(a) \in h2.free => h2.mem[a] = 0 BY <1>4 DEF FreeBelow
<1> QED BY <1>2, <1>3, <1>5 DEF FreeBelow

\* page_alloc gives page p, the highest that is free, and it becomes the last Metadata
\* page of bucket b.
LEMMA AddMetadata ==
    ASSUME NEW h, NEW hl, NEW g, Sound(h, hl, g), NEW b \in Bucket, NEW p \in Page, h.free = 1..p,
           NEW n, n = g.count[b], NEW h2 \in HeapType, ~h2.fault, h2.free = 1..(p - 1),
           h2.list = IF n = 0 THEN [h.list EXCEPT ![b] = Base(p)] ELSE h.list,
           h2.mem = IF n = 0 THEN h.mem ELSE [h.mem EXCEPT ![Base(g.meta[b][n])] = Base(p)]
    PROVE  \E g2 : Sound(h2, hl, g2) /\ UsedFor(g2, p, "meta", b) /\ SameUse(g, g2, {p})
<1>1. /\ h \in HeapType /\ g \in Layouts /\ FreeBelow(h, g) /\ MetasLinked(h, g) /\ ChunksAre(h, g)
      /\ NodesAre(h, hl, g) /\ NodesApart(g) /\ HeldAre(hl, g) /\ hl \subseteq Word \X Bucket
    BY DEF Sound
<1>2. n \in Nat /\ p \in Nat /\ NumPages \in Nat /\ p >= 1 /\ p <= NumPages BY <1>1, LayoutParts, ConstantTypes DEF Page
<1>3. PICK s : s = PageWords \div Buckets[b] OBVIOUS
<1>4. s \in Nat /\ s > 0 /\ Buckets[b] * s = PageWords
  <2>1. PageWords \in Nat /\ PageWords >= 4 /\ Buckets[b] \in 1..PageWords /\ PageWords % Buckets[b] = 0
    BY ConstantTypes
  <2>2. Buckets[b] \in Nat /\ Buckets[b] >= 1 BY <2>1
  <2>3. s \in Int /\ PageWords = Buckets[b] * s BY <1>3, <2>1, <2>2
  <2>4. s > 0 BY <2>1, <2>2, <2>3
  <2> QED BY <2>3, <2>4
<1>5. /\ p \in h.free /\ g.use[p] = "free"
      /\ \A d, u : UsedFor(g, p, u, d) => u = "free"
      /\ \A d, c : IsChunk(g, d, c) => PageOf(c) # p
      /\ \A d, x : IsBlock(g, d, x) => PageOf(x) # p
  <2>1. p \in h.free BY <1>2
  <2> QED BY <2>1, FreeIsBare
<1>6. PICK g2 : g2 = [use   |-> [g.use EXCEPT ![p] = "meta"],
                      of    |-> [g.of EXCEPT ![p] = b],
                      meta  |-> [g.meta EXCEPT ![b] = [i \in Nat |-> IF i = n + 1 THEN p ELSE g.meta[b][i]]],
                      count |-> [g.count EXCEPT ![b] = n + 1],
                      left  |-> [c \in Word |-> IF PageOf(c) = p THEN s ELSE g.left[c]],
                      low   |-> [c \in Word |-> IF PageOf(c) = p THEN s ELSE g.low[c]],
                      node  |-> g.node]
    OBVIOUS
<1>7. g2 \in Layouts
  <2>1. [g.use EXCEPT ![p] = "meta"] \in [Page -> Use] BY <1>1, LayoutParts DEF Use
  <2>2. [g.of EXCEPT ![p] = b] \in [Page -> Bucket \cup {0}] BY <1>1, LayoutParts
  <2>3. [i \in Nat |-> IF i = n + 1 THEN p ELSE g.meta[b][i]] \in [Nat -> Page] BY <1>1, LayoutParts
  <2>4. g2.meta \in [Bucket -> [Nat -> Page]] BY <1>1, <1>6, <2>3, LayoutParts
  <2>5. g2.count \in [Bucket -> Nat] BY <1>1, <1>2, <1>6, LayoutParts
  <2>6. g2.left \in [Word -> Nat] /\ g2.low \in [Word -> Nat] BY <1>1, <1>4, <1>6, LayoutParts
  <2>7. g2.node \in [Word -> [Nat -> Word]] BY <1>1, <1>6, LayoutParts
  <2> QED BY <1>6, <2>1, <2>2, <2>4, <2>5, <2>6, <2>7 DEF Layouts
<1>8. /\ \A q \in Page : g2.use[q] = IF q = p THEN "meta" ELSE g.use[q]
      /\ \A q \in Page : g2.of[q] = IF q = p THEN b ELSE g.of[q]
  <2>1. g.use \in [Page -> Use] /\ g.of \in [Page -> Bucket \cup {0}] BY <1>1, LayoutParts
  <2> QED BY <1>6, <2>1
<1>9. /\ \A d \in Bucket : g2.count[d] = IF d = b THEN n + 1 ELSE g.count[d]
      /\ \A d \in Bucket : d # b => g2.meta[d] = g.meta[d]
      /\ \A i \in Nat : g2.meta[b][i] = IF i = n + 1 THEN p ELSE g.meta[b][i]
  <2>1. g.count \in [Bucket -> Nat] /\ g.meta \in [Bucket -> [Nat -> Page]] BY <1>1, LayoutParts
  <2> QED BY <1>6, <2>1
<1>10. \A c \in Word : /\ g2.left[c] = IF PageOf(c) = p THEN s ELSE g.left[c]
                       /\ g2.low[c] = IF PageOf(c) = p THEN s ELSE g.low[c]
                       /\ g2.node[c] = g.node[c]
  BY <1>6
<1>11. SameUse(g, g2, {p}) /\ UsedFor(g2, p, "meta", b) BY <1>8 DEF SameUse, UsedFor
<1>12. \A q, u, d : UsedFor(g, q, u, d) /\ u # "free" => UsedFor(g2, q, u, d) BY <1>5, <1>8 DEF UsedFor
<1>13. \A q, u, d : UsedFor(g2, q, u, d) /\ q # p => UsedFor(g, q, u, d) BY <1>8 DEF UsedFor
<1>14. ASSUME NEW d, NEW c, IsChunk(g2, d, c), PageOf(c) # p PROVE IsChunk(g, d, c)
  BY <1>13, <1>14 DEF IsChunk
<1>15. ASSUME NEW d, NEW c, NEW r, NEW x, NodeAt(g2, d, c, r, x)
       PROVE  NodeAt(g, d, c, r, x) /\ c \in Word /\ PageOf(c) # p
  <2>1. c \in Word /\ IsChunk(g2, d, c) /\ r \in (g2.low[c] + 1)..g2.left[c] BY <1>15 DEF NodeAt, IsChunk
  <2>2. PageOf(c) # p
    <3> SUFFICES ASSUME PageOf(c) = p PROVE FALSE OBVIOUS
    <3>1. r \in (s + 1)..s BY <1>10, <2>1
    <3> QED BY <1>4, <3>1
  <2>3. IsChunk(g, d, c) BY <1>14, <2>1, <2>2
  <2> QED BY <1>10, <1>15, <2>1, <2>2, <2>3 DEF NodeAt
<1>16. \A d, x : IsBlock(g, d, x) => IsBlock(g2, d, x) BY <1>12 DEF IsBlock
<1>17. ASSUME NEW a \in Word, g.use[PageOf(a)] # "meta" \/ \A q \in Page : a # Base(q)
       PROVE  h2.mem[a] = h.mem[a]
  <2>1. CASE n = 0 BY <2>1
  <2>2. CASE n # 0
    <3>1. n \in 1..g.count[b] BY <1>2, <2>2
    <3>2. UsedFor(g, g.meta[b][n], "meta", b) BY <1>1, <3>1 DEF MetasLinked
    <3>3. g.meta[b][n] \in Page /\ g.use[g.meta[b][n]] = "meta" BY <3>2 DEF UsedFor
    <3>4. a # Base(g.meta[b][n]) BY <1>17, <3>3, BaseOf
    <3>5. h.mem \in [Word -> Int] BY <1>1 DEF HeapType
    <3> QED BY <2>2, <3>4, <3>5
  <2> QED BY <2>1, <2>2
<1>18. FreeBelow(h2, g2)
  <2>0. PICK q : q = p - 1 OBVIOUS
  <2>1. q \in 0..p /\ p \in 0..NumPages /\ \A k \in Page : k \in (q + 1)..p <=> k = p BY <1>2, <2>0 DEF Page
  <2>2. \A k \in Page : k \in (q + 1)..p => g2.use[k] # "free" BY <1>8, <2>1
  <2>5. \A k \in Page : k \notin (q + 1)..p => g2.use[k] = g.use[k] BY <1>8, <2>1
  <2>3. ASSUME NEW a \in Word, PageOf(a) \in h2.free PROVE h2.mem[a] = h.mem[a]
    <3>1. PageOf(a) \in h.free /\ PageOf(a) \in Page BY <1>2, <2>3, WordPage
    <3>2. g.use[PageOf(a)] = "free" BY <1>1, <3>1 DEF FreeBelow
    <3> QED BY <1>17, <3>2
  <2>4. h.free = 1..p /\ h2.free = 1..q BY <2>0
  <2>6. FreeBelow(h, g) BY <1>1
  <2> QED BY ONLY <2>1, <2>2, <2>3, <2>4, <2>5, <2>6, TopTaken
<1>19. MetasLinked(h2, g2)
  <2>1. /\ \A d \in Bucket : \A i \in 1..g.count[d] :
              /\ UsedFor(g, g.meta[d][i], "meta", d) /\ g.meta[d][i] \in Page /\ g.meta[d][i] \in Nat
              /\ g.meta[d][i] > p /\ g.meta[d][i] + i <= NumPages + 1
              /\ h.mem[Base(g.meta[d][i])] = IF i = g.count[d] THEN Null ELSE Base(g.meta[d][i + 1])
    <3> SUFFICES ASSUME NEW d \in Bucket, NEW i \in 1..g.count[d]
                 PROVE  /\ UsedFor(g, g.meta[d][i], "meta", d) /\ g.meta[d][i] \in Page /\ g.meta[d][i] \in Nat
                        /\ g.meta[d][i] > p /\ g.meta[d][i] + i <= NumPages + 1
                        /\ h.mem[Base(g.meta[d][i])]
                             = IF i = g.count[d] THEN Null ELSE Base(g.meta[d][i + 1])
        OBVIOUS
    <3>1. /\ UsedFor(g, g.meta[d][i], "meta", d) /\ g.meta[d][i] + i <= NumPages + 1
          /\ h.mem[Base(g.meta[d][i])] = IF i = g.count[d] THEN Null ELSE Base(g.meta[d][i + 1])
      BY <1>1 DEF MetasLinked
    <3>2. g.meta[d][i] \in Page /\ g.use[g.meta[d][i]] # "free" BY <3>1 DEF UsedFor
    <3>3. g.meta[d][i] \in Nat /\ g.meta[d][i] >= 1 /\ g.meta[d][i] \notin 1..p
      BY <1>1, <3>2 DEF FreeBelow, Page
    <3>4. g.meta[d][i] > p BY <1>2, <3>3
    <3> QED BY <3>1, <3>2, <3>3, <3>4
  <2> SUFFICES ASSUME NEW d \in Bucket
               PROVE  /\ h2.list[d] = IF g2.count[d] = 0 THEN Null ELSE Base(g2.meta[d][1])
                      /\ \A i \in 1..g2.count[d] :
                            /\ UsedFor(g2, g2.meta[d][i], "meta", d)
                            /\ g2.meta[d][i] + i <= NumPages + 1
                            /\ h2.mem[Base(g2.meta[d][i])]
                                  = IF i = g2.count[d] THEN Null ELSE Base(g2.meta[d][i + 1])
                      /\ \A i, j \in 1..g2.count[d] : i < j => g2.meta[d][j] < g2.meta[d][i]
                      /\ \A q \in Page : UsedFor(g2, q, "meta", d) =>
                                          \E i \in 1..g2.count[d] : q = g2.meta[d][i]
      BY DEF MetasLinked
  <2>2. g.count[d] \in Nat BY <1>1, LayoutParts
  <2>3. h.list \in [Bucket -> {Null} \cup PageStart] /\ h.mem \in [Word -> Int] BY <1>1 DEF HeapType
  <2>4. /\ h.list[d] = IF g.count[d] = 0 THEN Null ELSE Base(g.meta[d][1])
        /\ \A i, j \in 1..g.count[d] : i < j => g.meta[d][j] < g.meta[d][i]
        /\ \A q \in Page : UsedFor(g, q, "meta", d) => \E i \in 1..g.count[d] : q = g.meta[d][i]
    BY <1>1 DEF MetasLinked
  <2>5. CASE d # b
    <3>1. g2.count[d] = g.count[d] /\ g2.meta[d] = g.meta[d] BY <1>9, <2>5
    <3>2. h2.list[d] = h.list[d] BY <2>3, <2>5
    <3>3. ASSUME NEW i \in 1..g.count[d]
          PROVE  UsedFor(g2, g.meta[d][i], "meta", d) /\ h2.mem[Base(g.meta[d][i])] = h.mem[Base(g.meta[d][i])]
      <4>1. UsedFor(g, g.meta[d][i], "meta", d) /\ g.meta[d][i] \in Page BY <2>1
      <4>2. CASE n = 0 BY <1>12, <4>1, <4>2
      <4>3. CASE n # 0
        <5>1. n \in 1..g.count[b] BY <1>2, <4>3
        <5>2. UsedFor(g, g.meta[b][n], "meta", b) /\ g.meta[b][n] \in Page BY <2>1, <5>1
        <5>3. g.meta[b][n] # g.meta[d][i] BY <2>5, <4>1, <5>2 DEF UsedFor
        <5>4. Base(g.meta[b][n]) # Base(g.meta[d][i]) /\ Base(g.meta[d][i]) \in Word BY <4>1, <5>2, <5>3, BaseOf
        <5> QED BY <1>12, <2>3, <4>1, <4>3, <5>4
      <4> QED BY <4>2, <4>3
    <3>4. \A q \in Page : UsedFor(g2, q, "meta", d) => UsedFor(g, q, "meta", d)
      BY <1>8, <1>13, <2>5 DEF UsedFor
    <3> QED BY <2>1, <2>4, <3>1, <3>2, <3>3, <3>4
  <2>6. CASE d = b
    <3>1. g2.count[b] = n + 1 /\ \A i \in Nat : g2.meta[b][i] = IF i = n + 1 THEN p ELSE g.meta[b][i] BY <1>9
    <3>2. h2.list[b] = Base(g2.meta[b][1])
      <4>1. CASE n = 0
        <5>1. g2.meta[b][1] = p BY <3>1, <4>1
        <5>2. h2.list = [h.list EXCEPT ![b] = Base(p)] BY <4>1
        <5> QED BY <2>3, <5>1, <5>2
      <4>2. CASE n # 0
        <5>1. g2.meta[b][1] = g.meta[b][1] BY <1>2, <3>1, <4>2
        <5> QED BY <2>4, <2>6, <4>2, <5>1
      <4> QED BY <4>1, <4>2
    <3>3. ASSUME NEW i \in 1..(n + 1)
          PROVE  /\ UsedFor(g2, g2.meta[b][i], "meta", b)
                 /\ g2.meta[b][i] + i <= NumPages + 1
                 /\ h2.mem[Base(g2.meta[b][i])] = IF i = n + 1 THEN Null ELSE Base(g2.meta[b][i + 1])
      <4>1. CASE i = n + 1
        <5>1. g2.meta[b][i] = p BY <1>2, <3>1, <4>1
        <5>2. h2.mem[Base(p)] = Null
          <6>1. Base(p) \in Word /\ PageOf(Base(p)) = p BY BaseOf
          <6>2. h.mem[Base(p)] = 0 BY <1>1, <1>5, <6>1 DEF FreeBelow
          <6> QED BY <1>5, <1>17, <6>1, <6>2 DEF Null
        <5>3. p + i <= NumPages + 1
          <6>1. CASE n = 0 BY <1>2, <4>1, <6>1
          <6>2. CASE n # 0
            <7>1. n \in 1..g.count[b] BY <1>2, <6>2
            <7>2. PICK m : m = g.meta[b][n] OBVIOUS
            <7>3. m > p /\ m + n <= NumPages + 1 /\ m \in Nat BY <2>1, <7>1, <7>2
            <7>4. p + (n + 1) <= NumPages + 1 BY ONLY <1>2, <7>3
            <7> QED BY <4>1, <7>4
          <6> QED BY <6>1, <6>2
        <5> QED BY <1>11, <4>1, <5>1, <5>2, <5>3
      <4>2. CASE i # n + 1
        <5>1. i \in 1..g.count[b] /\ i \in Nat /\ i <= n /\ n # 0 BY <1>2, <4>2
        <5>2. g2.meta[b][i] = g.meta[b][i] BY <3>1, <4>2, <5>1
        <5>3. /\ UsedFor(g, g.meta[b][i], "meta", b) /\ g.meta[b][i] + i <= NumPages + 1
              /\ h.mem[Base(g.meta[b][i])] = IF i = n THEN Null ELSE Base(g.meta[b][i + 1])
              /\ g.meta[b][i] \in Page
          BY <2>1, <5>1
        <5>4. h2.mem = [h.mem EXCEPT ![Base(g.meta[b][n])] = Base(p)] BY <5>1
        <5>5. Base(g.meta[b][i]) \in Word BY <5>3, BaseOf
        <5>6. CASE i = n
          <6>1. g2.meta[b][i + 1] = p BY <1>2, <3>1, <5>6
          <6>2. h2.mem[Base(g.meta[b][i])] = Base(p) BY <2>3, <5>4, <5>5, <5>6
          <6> QED BY <1>12, <4>2, <5>2, <5>3, <6>1, <6>2
        <5>7. CASE i # n
          <6>1. g2.meta[b][i + 1] = g.meta[b][i + 1] BY <1>2, <3>1, <5>1, <5>7
          <6>2. n \in 1..g.count[b] /\ i < n BY <1>2, <5>1, <5>7
          <6>3. g.meta[b][n] \in Page /\ g.meta[b][n] # g.meta[b][i] BY <2>1, <5>1, <6>2, MetasDiffer
          <6>4. Base(g.meta[b][n]) # Base(g.meta[b][i]) BY <5>3, <6>3, BaseOf
          <6>5. h2.mem[Base(g.meta[b][i])] = h.mem[Base(g.meta[b][i])] BY <2>3, <5>4, <5>5, <6>4
          <6> QED BY <1>12, <4>2, <5>2, <5>3, <5>7, <6>1, <6>5
        <5> QED BY <5>6, <5>7
      <4> QED BY <4>1, <4>2
    <3>4. ASSUME NEW i \in 1..(n + 1), NEW j \in 1..(n + 1), i < j
          PROVE  g2.meta[b][j] < g2.meta[b][i]
      <4>1. i \in 1..g.count[b] /\ g2.meta[b][i] = g.meta[b][i] BY <1>2, <3>1, <3>4
      <4>2. CASE j = n + 1
        <5>1. g2.meta[b][j] = p BY <1>2, <3>1, <4>2
        <5> QED BY <1>2, <2>1, <4>1, <5>1
      <4>3. CASE j # n + 1
        <5>1. j \in 1..g.count[b] /\ g2.meta[b][j] = g.meta[b][j] BY <1>2, <3>1, <4>3
        <5> QED BY <2>4, <2>6, <3>4, <4>1, <5>1
      <4> QED BY <4>2, <4>3
    <3>5. ASSUME NEW q \in Page, UsedFor(g2, q, "meta", b)
          PROVE  \E i \in 1..(n + 1) : q = g2.meta[b][i]
      <4>1. CASE q = p
        <5>1. n + 1 \in 1..(n + 1) /\ g2.meta[b][n + 1] = p BY <1>2, <3>1
        <5> QED BY <4>1, <5>1
      <4>2. CASE q # p
        <5>1. UsedFor(g, q, "meta", b) BY <1>13, <3>5, <4>2
        <5>2. PICK i \in 1..g.count[b] : q = g.meta[b][i] BY <2>4, <2>6, <5>1
        <5>3. i \in 1..(n + 1) /\ g2.meta[b][i] = g.meta[b][i] BY <1>2, <3>1, <5>2
        <5> QED BY <5>2, <5>3
      <4> QED BY <4>1, <4>2
    <3>6. g2.count[b] # 0 BY <1>2, <3>1
    <3> QED BY <2>6, <3>1, <3>2, <3>3, <3>4, <3>5, <3>6
  <2> QED BY <2>5, <2>6
<1>20. ChunksAre(h2, g2)
  <2> SUFFICES ASSUME NEW d \in Bucket, NEW c \in Word, IsChunk(g2, d, c)
               PROVE  ChunkIs(h2, g2, d, c)
      BY DEF ChunksAre
  <2>1. BytesUsed(c) \in Word /\ List(c) \in Word /\ PageOf(BytesUsed(c)) = PageOf(c) /\ PageOf(List(c)) = PageOf(c)
        /\ UsedFor(g2, PageOf(c), "meta", d)
        /\ \A q \in Page : BytesUsed(c) # Base(q) /\ List(c) # Base(q)
    BY ChunkLies
  <2>2. h2.mem[BytesUsed(c)] = h.mem[BytesUsed(c)] /\ h2.mem[List(c)] = h.mem[List(c)] BY <1>17, <2>1
  <2>3. CASE PageOf(c) = p
    <3>1. d = b BY <1>8, <2>1, <2>3 DEF UsedFor
    <3>2. h.mem[BytesUsed(c)] = 0 /\ h.mem[List(c)] = 0 BY <1>1, <1>5, <2>1, <2>3 DEF FreeBelow
    <3>3. g2.left[c] = s /\ g2.low[c] = s BY <1>10, <2>3
    <3>4. h2.mem[BytesUsed(c)] + Buckets[d] * g2.left[c] = PageWords
      <4>1. 0 + Buckets[b] * s = PageWords BY <1>4, ConstantTypes
      <4> QED BY <2>2, <3>1, <3>2, <3>3, <4>1
    <3>5. h2.mem[List(c)] = Null BY <2>2, <3>2 DEF Null
    <3> QED BY <1>4, <3>3, <3>4, <3>5 DEF ChunkIs
  <2>4. CASE PageOf(c) # p
    <3>1. IsChunk(g, d, c) /\ g2.left[c] = g.left[c] /\ g2.low[c] = g.low[c] /\ g2.node[c] = g.node[c]
      BY <1>10, <1>14, <2>4
    <3>2. ChunkIs(h, g, d, c) BY <1>1, <3>1 DEF ChunksAre
    <3>3. ASSUME g.low[c] < g.left[c]
          PROVE  h2.mem[g.node[c][g.low[c] + 1]] = h.mem[g.node[c][g.low[c] + 1]]
      <4>1. g.low[c] \in Nat /\ g.left[c] \in Nat BY <1>1, LayoutParts
      <4>2. PICK r, x : r = g.low[c] + 1 /\ x = g.node[c][r] OBVIOUS
      <4>3. NodeAt(g, d, c, r, x) BY <3>1, <3>3, <4>1, <4>2 DEF NodeAt
      <4>4. IsBlock(g, d, x) BY <4>3, NodeLies
      <4> QED BY <1>17, <4>2, <4>4 DEF IsBlock, UsedFor
    <3>4. g.low[c] # g.left[c] => g.low[c] < g.left[c]
      <4>1. g.low[c] \in Nat /\ g.left[c] \in Nat BY <1>1, LayoutParts
      <4> QED BY <3>2, <4>1 DEF ChunkIs
    <3> QED BY <2>2, <3>1, <3>2, <3>3, <3>4 DEF ChunkIs
  <2> QED BY <2>3, <2>4
<1>21. NodesAre(h2, hl, g2)
  <2> SUFFICES ASSUME NEW d \in Bucket, NEW c \in Word, NEW x \in Word, NEW r \in Nat, NodeAt(g2, d, c, r, x)
               PROVE  /\ IsBlock(g2, d, x) /\ <<x, d>> \notin hl
                      /\ r > g2.low[c] + 1 => h2.mem[x] = g2.node[c][r - 1]
      BY DEF NodesAre
  <2>1. NodeAt(g, d, c, r, x) /\ PageOf(c) # p BY <1>15
  <2>2. /\ IsBlock(g, d, x) /\ <<x, d>> \notin hl
        /\ r > g.low[c] + 1 => h.mem[x] = g.node[c][r - 1]
    BY <2>1, NodeLies
  <2>3. h2.mem[x] = h.mem[x] BY <1>17, <2>2 DEF IsBlock, UsedFor
  <2>4. g2.low[c] = g.low[c] /\ g2.node[c] = g.node[c] BY <1>10, <2>1
  <2> QED BY <1>16, <2>2, <2>3, <2>4
<1>22. NodesApart(g2) BY <1>1, <1>15 DEF NodesApart
<1>23. HeldAre(hl, g2) BY <1>1, <1>16 DEF HeldAre
<1> QED BY <1>1, <1>7, <1>11, <1>18, <1>19, <1>20, <1>21, <1>22, <1>23 DEF Sound

\* Steps that leave the pages as they are: what is to be shown of them.
LEMMA PagesStay ==
    ASSUME NEW h, NEW hl, NEW g, Sound(h, hl, g), NEW h2 \in HeapType, NEW hl2, NEW g2 \in Layouts,
           g2.use = g.use, g2.of = g.of, g2.meta = g.meta, g2.count = g.count,
           ~h2.fault, h2.free = h.free, h2.list = h.list,
           \A a \in Word : PageOf(a) \in h.free => h2.mem[a] = h.mem[a],
           \A q \in Page : g.use[q] = "meta" => h2.mem[Base(q)] = h.mem[Base(q)],
           hl2 \subseteq Word \X Bucket, HeldAre(hl2, g),
           ChunksAre(h2, g2), NodesAre(h2, hl2, g2), NodesApart(g2)
    PROVE  Sound(h2, hl2, g2)
<1>1. FreeBelow(h, g) /\ MetasLinked(h, g) BY DEF Sound
<1>2. \A q, u, d : UsedFor(g2, q, u, d) <=> UsedFor(g, q, u, d) BY DEF UsedFor
<1>3. HeldAre(hl2, g2) BY <1>2 DEF HeldAre, IsBlock
<1>4. FreeBelow(h2, g2) BY <1>1 DEF FreeBelow
<1>5. \A b \in Bucket : \A i \in 1..g.count[b] : h2.mem[Base(g.meta[b][i])] = h.mem[Base(g.meta[b][i])]
  BY <1>1 DEF MetasLinked, UsedFor
<1>6. MetasLinked(h2, g2) BY <1>1, <1>2, <1>5 DEF MetasLinked
<1> QED BY <1>3, <1>4, <1>6 DEF Sound

LEMMA SameKinds ==
    ASSUME NEW g, NEW g2, g2.use = g.use, g2.of = g.of
    PROVE  /\ \A b, c : IsChunk(g2, b, c) <=> IsChunk(g, b, c)
           /\ \A b, x : IsBlock(g2, b, x) <=> IsBlock(g, b, x)
<1>1. \A q, u, d : UsedFor(g2, q, u, d) <=> UsedFor(g, q, u, d) BY DEF UsedFor
<1> QED BY <1>1 DEF IsChunk, IsBlock

\* No word of a chunk is in another, or in a block, or the first of a page.
LEMMA ChunkWordsDiffer ==
    ASSUME NEW h, NEW hl, NEW g, Sound(h, hl, g), NEW b \in Bucket, NEW c, IsChunk(g, b, c)
    PROVE  /\ \A d, e : IsChunk(g, d, e) /\ e # c =>
                 /\ BytesUsed(e) # BytesUsed(c) /\ BytesUsed(e) # List(c)
                 /\ List(e) # BytesUsed(c) /\ List(e) # List(c)
           /\ \A d, x : IsBlock(g, d, x) => x # BytesUsed(c) /\ x # List(c)
           /\ \A a \in Word : PageOf(a) \in h.free => a # BytesUsed(c) /\ a # List(c)
<1>1. /\ c \in Word /\ BytesUsed(c) \in Word /\ List(c) \in Word
      /\ PageOf(BytesUsed(c)) = PageOf(c) /\ PageOf(List(c)) = PageOf(c)
      /\ UsedFor(g, PageOf(c), "meta", b) /\ PageOf(c) \in Page
      /\ \A d, e : IsChunk(g, e, d) => BytesUsed(c) # List(d)
    BY ChunkLies
<1>2. ASSUME NEW d, NEW e, IsChunk(g, d, e), e # c
      PROVE  /\ BytesUsed(e) # BytesUsed(c) /\ BytesUsed(e) # List(c)
             /\ List(e) # BytesUsed(c) /\ List(e) # List(c)
  <2>1. e \in Word /\ UsedFor(g, PageOf(e), "meta", d) BY <1>2 DEF IsChunk
  <2>2. g \in Layouts BY DEF Sound
  <2>3. g.of[PageOf(e)] \in Bucket \cup {0} BY <2>1, <2>2, LayoutParts DEF UsedFor
  <2>4. e \in Nat /\ c \in Nat BY <1>1, <2>1, WordPage
  <2>5. PICK k \in 1..ChunkCount : e = Base(PageOf(e)) + 2 * k BY <1>2 DEF IsChunk
  <2>6. PICK j \in 1..ChunkCount : c = Base(PageOf(c)) + 2 * j BY DEF IsChunk
  <2>7. PageOf(e) \in Page BY <2>1, WordPage
  <2>8. PageOf(BytesUsed(e)) = PageOf(e) /\ PageOf(List(e)) = PageOf(e) BY <2>5, <2>7, ChunkWords
  <2>9. CASE PageOf(e) = PageOf(c)
    <3>1. Base(PageOf(c)) \in Nat /\ ChunkCount \in Int BY <1>1, BaseOf, ConstantTypes DEF ChunkCount
    <3>2. PICK q : q = Base(PageOf(c)) OBVIOUS
    <3>3. e = q + 2 * k /\ c = q + 2 * j /\ q \in Nat /\ k \in Int /\ j \in Int BY <2>5, <2>6, <2>9, <3>1, <3>2
    <3>4. q + 2 * k # (q + 2 * j) + 1 /\ q + 2 * j # (q + 2 * k) + 1 BY <3>3
    <3>5. e # c + 1 /\ c # e + 1 /\ e + 1 # c + 1 BY <1>2, <2>4, <3>3, <3>4
    <3> QED BY <1>2, <3>5 DEF BytesUsed, List
  <2>10. CASE PageOf(e) # PageOf(c) BY <1>1, <2>8, <2>10
  <2> QED BY <2>9, <2>10
<1>3. \A d, x : IsBlock(g, d, x) => x # BytesUsed(c) /\ x # List(c) BY <1>1 DEF IsBlock, UsedFor
<1>4. ASSUME NEW a \in Word, PageOf(a) \in h.free
      PROVE  a # BytesUsed(c) /\ a # List(c)
  <2>1. g.use[PageOf(c)] # "free" BY <1>1 DEF UsedFor
  <2>2. PageOf(c) \notin h.free BY <1>1, <2>1 DEF Sound, FreeBelow
  <2> QED BY <1>1, <1>4, <2>2
<1> QED BY <1>2, <1>3, <1>4

\* Taking the first block of a chunk's list.
LEMMA PopBlock ==
    ASSUME NEW h, NEW hl, NEW g, Sound(h, hl, g), NEW b \in Bucket, NEW c, IsChunk(g, b, c),
           g.low[c] < g.left[c], NEW x, x = h.mem[List(c)], NEW h2 \in HeapType,
           ~h2.fault, h2.free = h.free, h2.list = h.list,
           h2.mem = [h.mem EXCEPT ![List(c)] = h.mem[x], ![BytesUsed(c)] = h.mem[BytesUsed(c)] + Buckets[b]]
    PROVE  \E g2 : Sound(h2, hl, g2) /\ Loose(hl, g2, b, x) /\ g2.use = g.use /\ g2.of = g.of
<1>1. /\ h \in HeapType /\ g \in Layouts /\ FreeBelow(h, g) /\ MetasLinked(h, g) /\ ChunksAre(h, g)
      /\ NodesAre(h, hl, g) /\ NodesApart(g) /\ HeldAre(hl, g) /\ hl \subseteq Word \X Bucket
    BY DEF Sound
<1>2. PICK L, l : L = g.left[c] /\ l = g.low[c] OBVIOUS
<1>3. /\ c \in Word /\ BytesUsed(c) \in Word /\ List(c) \in Word /\ BytesUsed(c) # List(c)
      /\ \A p \in Page : BytesUsed(c) # Base(p) /\ List(c) # Base(p)
    BY ChunkLies
<1>4. L \in Nat /\ l \in Nat /\ l < L /\ L - 1 \in Nat /\ L # 0 /\ l <= L - 1
  <2>1. L \in Nat /\ l \in Nat /\ l < L BY <1>1, <1>2, <1>3, LayoutParts
  <2> QED BY <2>1
<1>5. ChunkIs(h, g, b, c) BY <1>1, <1>3 DEF ChunksAre
<1>6. NodeAt(g, b, c, L, x) BY <1>2, <1>4, <1>5 DEF ChunkIs, NodeAt
<1>7. /\ x \in Word /\ IsBlock(g, b, x) /\ <<x, b>> \notin hl
      /\ L > l + 1 => h.mem[x] = g.node[c][L - 1]
    BY <1>2, <1>6, NodeLies
<1>8. PICK g2 : g2 = [use |-> g.use, of |-> g.of, meta |-> g.meta, count |-> g.count,
                      left |-> [g.left EXCEPT ![c] = L - 1], low |-> g.low, node |-> g.node]
    OBVIOUS
<1>9. g2 \in Layouts
  <2>1. [g.left EXCEPT ![c] = L - 1] \in [Word -> Nat] BY <1>1, <1>4, LayoutParts
  <2> QED BY <1>1, <1>8, <2>1, LayoutParts DEF Layouts
<1>10. /\ g2.use = g.use /\ g2.of = g.of /\ g2.meta = g.meta /\ g2.count = g.count
       /\ g2.low = g.low /\ g2.node = g.node
       /\ \A d \in Word : g2.left[d] = IF d = c THEN L - 1 ELSE g.left[d]
  <2>1. g.left \in [Word -> Nat] BY <1>1, LayoutParts
  <2> QED BY <1>8, <2>1
<1>11. /\ \A d, e : IsChunk(g2, d, e) <=> IsChunk(g, d, e)
       /\ \A d, y : IsBlock(g2, d, y) <=> IsBlock(g, d, y)
    BY <1>10, SameKinds
<1>12. ASSUME NEW d, NEW e, NEW r, NEW y, NodeAt(g2, d, e, r, y)
       PROVE  NodeAt(g, d, e, r, y) /\ (e = c => r # L)
  <2>1. e \in Word /\ IsChunk(g, d, e) BY <1>11, <1>12 DEF NodeAt, IsChunk
  <2>2. g.low[e] \in Nat /\ g.left[e] \in Nat BY <1>1, <2>1, LayoutParts
  <2>3. r \in (g.low[e] + 1)..g2.left[e] /\ y = g.node[e][r] BY <1>10, <1>12 DEF NodeAt
  <2>4. CASE e = c
    <3>1. r \in (g.low[e] + 1)..(L - 1) BY <1>10, <2>1, <2>3, <2>4
    <3>2. r \in (g.low[e] + 1)..g.left[e] /\ r # L BY <1>2, <1>4, <2>2, <2>4, <3>1
    <3> QED BY <2>1, <2>3, <3>2 DEF NodeAt
  <2>5. CASE e # c
    <3>1. r \in (g.low[e] + 1)..g.left[e] BY <1>10, <2>1, <2>3, <2>5
    <3> QED BY <2>1, <2>3, <2>5, <3>1 DEF NodeAt
  <2> QED BY <2>4, <2>5
<1>13. \A a \in Word : a # List(c) /\ a # BytesUsed(c) => h2.mem[a] = h.mem[a]
  <2>1. h.mem \in [Word -> Int] BY <1>1 DEF HeapType
  <2> QED BY <2>1
<1>14. h2.mem[List(c)] = h.mem[x] /\ h2.mem[BytesUsed(c)] = h.mem[BytesUsed(c)] + Buckets[b]
  <2>1. h.mem \in [Word -> Int] BY <1>1 DEF HeapType
  <2> QED BY <1>3, <2>1
<1>15. /\ \A d, e : IsChunk(g, d, e) /\ e # c =>
             /\ BytesUsed(e) # BytesUsed(c) /\ BytesUsed(e) # List(c)
             /\ List(e) # BytesUsed(c) /\ List(e) # List(c)
       /\ \A d, y : IsBlock(g, d, y) => y # BytesUsed(c) /\ y # List(c)
       /\ \A a \in Word : PageOf(a) \in h.free => a # BytesUsed(c) /\ a # List(c)
    BY ChunkWordsDiffer
<1>16. \A d, y : IsBlock(g, d, y) => h2.mem[y] = h.mem[y] BY <1>13, <1>15 DEF IsBlock
<1>17. ChunksAre(h2, g2)
  <2> SUFFICES ASSUME NEW d \in Bucket, NEW e \in Word, IsChunk(g2, d, e)
               PROVE  ChunkIs(h2, g2, d, e)
      BY DEF ChunksAre
  <2>1. IsChunk(g, d, e) BY <1>11
  <2>2. ChunkIs(h, g, d, e) BY <1>1, <2>1 DEF ChunksAre
  <2>3. g.low[e] \in Nat /\ g.left[e] \in Nat BY <1>1, LayoutParts
  <2>4. g.low[e] < g.left[e] => h2.mem[g.node[e][g.low[e] + 1]] = h.mem[g.node[e][g.low[e] + 1]]
    <3> SUFFICES ASSUME g.low[e] < g.left[e]
                 PROVE  h2.mem[g.node[e][g.low[e] + 1]] = h.mem[g.node[e][g.low[e] + 1]]
        OBVIOUS
    <3>1. PICK r, y : r = g.low[e] + 1 /\ y = g.node[e][r] OBVIOUS
    <3>2. NodeAt(g, d, e, r, y) BY <2>1, <2>3, <3>1 DEF NodeAt
    <3>3. IsBlock(g, d, y) BY <3>2, NodeLies
    <3> QED BY <1>16, <3>1, <3>3
  <2>5. CASE e # c
    <3>1. BytesUsed(e) \in Word /\ List(e) \in Word BY <2>1, ChunkLies
    <3>2. h2.mem[BytesUsed(e)] = h.mem[BytesUsed(e)] /\ h2.mem[List(e)] = h.mem[List(e)]
      BY <1>13, <1>15, <2>1, <2>5, <3>1
    <3>3. g.low[e] # g.left[e] => g.low[e] < g.left[e] BY <2>2, <2>3 DEF ChunkIs
    <3> QED BY <1>10, <2>2, <2>4, <2>5, <3>2, <3>3 DEF ChunkIs
  <2>6. CASE e = c
    <3>1. d = b BY <2>1, <2>6 DEF IsChunk, UsedFor
    <3>2. g2.low[c] = l /\ g2.left[c] = L - 1 /\ g2.node = g.node BY <1>2, <1>3, <1>10
    <3>3. h2.mem[BytesUsed(c)] + Buckets[b] * (L - 1) = PageWords
      <4>1. PICK u, s : u = h.mem[BytesUsed(c)] /\ s = Buckets[b] OBVIOUS
      <4>2. u + s * L = PageWords BY <1>2, <1>5, <4>1 DEF ChunkIs
      <4>3. u \in Int /\ s \in Int
        <5>1. h.mem \in [Word -> Int] BY <1>1 DEF HeapType
        <5> QED BY <1>3, <4>1, <5>1, ConstantTypes
      <4>4. (u + s) + s * (L - 1) = u + s * L BY <1>4, <4>3
      <4> QED BY <1>14, <4>1, <4>2, <4>4
    <3>4. l < L - 1 => h2.mem[List(c)] = g.node[c][L - 1] BY <1>4, <1>7, <1>14
    <3>5. l > 0 /\ l = L - 1 => h2.mem[List(c)] = Null
      <4>1. l > 0 /\ l # L => h.mem[g.node[c][l + 1]] = Null BY <1>2, <1>5 DEF ChunkIs
      <4>2. l = L - 1 => g.node[c][l + 1] = x BY <1>4, <1>6 DEF NodeAt
      <4> QED BY <1>4, <1>14, <4>1, <4>2
    <3>6. l > 0 /\ l # L - 1 => h2.mem[g.node[c][l + 1]] = Null
      <4>1. l > 0 /\ l # L => h.mem[g.node[c][l + 1]] = Null BY <1>2, <1>5 DEF ChunkIs
      <4> QED BY <1>2, <1>4, <2>4, <2>6, <4>1
    <3> QED BY <1>4, <2>6, <3>1, <3>2, <3>3, <3>4, <3>5, <3>6 DEF ChunkIs
  <2> QED BY <2>5, <2>6
<1>18. NodesAre(h2, hl, g2)
  <2> SUFFICES ASSUME NEW d \in Bucket, NEW e \in Word, NEW y \in Word, NEW r \in Nat, NodeAt(g2, d, e, r, y)
               PROVE  /\ IsBlock(g2, d, y) /\ <<y, d>> \notin hl
                      /\ r > g2.low[e] + 1 => h2.mem[y] = g2.node[e][r - 1]
      BY DEF NodesAre
  <2>1. NodeAt(g, d, e, r, y) BY <1>12
  <2>2. /\ IsBlock(g, d, y) /\ <<y, d>> \notin hl
        /\ r > g.low[e] + 1 => h.mem[y] = g.node[e][r - 1]
    BY <2>1, NodeLies
  <2> QED BY <1>10, <1>11, <1>16, <2>2
<1>19. NodesApart(g2) BY <1>1, <1>12 DEF NodesApart
<1>20. Loose(hl, g2, b, x)
  <2>1. ASSUME NEW d \in Bucket, NEW e \in Word, NEW r \in Nat, NodeAt(g2, d, e, r, x) PROVE FALSE
    <3>1. NodeAt(g, d, e, r, x) /\ (e = c => r # L) BY <1>12, <2>1
    <3>2. c = e /\ L = r BY <1>1, <1>3, <1>4, <1>6, <1>7, <3>1 DEF NodesApart
    <3> QED BY <3>1, <3>2
  <2> QED BY <1>7, <1>11, <2>1 DEF Loose
<1>21. Sound(h2, hl, g2)
  <2>1. \A a \in Word : PageOf(a) \in h.free => h2.mem[a] = h.mem[a] BY <1>13, <1>15
  <2>2. \A q \in Page : h2.mem[Base(q)] = h.mem[Base(q)] BY <1>3, <1>13, BaseOf
  <2> QED BY <1>1, <1>9, <1>10, <1>17, <1>18, <1>19, <2>1, <2>2, PagesStay, ZenonT(60)
<1> QED BY <1>10, <1>20, <1>21

\* A caller takes a block and writes into it.
LEMMA FillBlock ==
    ASSUME NEW h, NEW hl, NEW g, Sound(h, hl, g), NEW b \in Bucket, NEW x, Loose(hl, g, b, x),
           NEW h2 \in HeapType, ~h2.fault, h2.free = h.free, h2.list = h.list,
           \A a \in Word \ Block(x, b) : h2.mem[a] = h.mem[a]
    PROVE  Sound(h2, hl \cup {<<x, b>>}, g)
<1>1. /\ h \in HeapType /\ g \in Layouts /\ FreeBelow(h, g) /\ MetasLinked(h, g) /\ ChunksAre(h, g)
      /\ NodesAre(h, hl, g) /\ NodesApart(g) /\ HeldAre(hl, g) /\ hl \subseteq Word \X Bucket
    BY DEF Sound
<1>2. PICK hl2 : hl2 = hl \cup {<<x, b>>} OBVIOUS
<1>3. x \in Word /\ UsedFor(g, PageOf(x), "chunk", b) /\ x % Buckets[b] = 0 BY DEF Loose, IsBlock
<1>4. \A a \in Block(x, b) : a \in Word /\ PageOf(a) = PageOf(x) BY <1>3, BlockInPage
<1>5. ASSUME NEW a \in Word, ~UsedFor(g, PageOf(a), "chunk", b)
      PROVE  h2.mem[a] = h.mem[a]
  BY <1>3, <1>4, <1>5
<1>6. ASSUME NEW d \in Bucket, NEW e, NEW r, NEW y, NodeAt(g, d, e, r, y)
      PROVE  /\ IsBlock(g, d, y) /\ <<y, d>> \notin hl2 /\ h2.mem[y] = h.mem[y]
             /\ r > g.low[e] + 1 => h.mem[y] = g.node[e][r - 1]
  <2>1. /\ e \in Word /\ y \in Word /\ r \in Nat /\ IsBlock(g, d, y) /\ <<y, d>> \notin hl
        /\ r > g.low[e] + 1 => h.mem[y] = g.node[e][r - 1]
    BY <1>6, NodeLies
  <2>2. x # y BY <1>6, <2>1 DEF Loose
  <2>3. h2.mem[y] = h.mem[y]
    <3>1. CASE d # b BY <1>5, <2>1, <3>1 DEF IsBlock, UsedFor
    <3>2. CASE d = b
      <4>1. y % Buckets[b] = 0 BY <2>1, <3>2 DEF IsBlock
      <4>2. Block(x, b) \cap Block(y, b) = {} BY <1>3, <2>1, <2>2, <4>1, BlocksDiffer
      <4>3. y \in Block(y, b)
        <5>1. Buckets[b] \in 1..PageWords /\ PageWords \in Nat /\ y \in Nat BY <2>1, ConstantTypes, WordPage
        <5> QED BY <5>1 DEF Block
      <4> QED BY <2>1, <4>2, <4>3
    <3> QED BY <3>1, <3>2
  <2> QED BY <1>2, <2>1, <2>2, <2>3
<1>7. ChunksAre(h2, g)
  <2> SUFFICES ASSUME NEW d \in Bucket, NEW e \in Word, IsChunk(g, d, e)
               PROVE  ChunkIs(h2, g, d, e)
      BY DEF ChunksAre
  <2>1. ChunkIs(h, g, d, e) BY <1>1 DEF ChunksAre
  <2>2. /\ BytesUsed(e) \in Word /\ List(e) \in Word
        /\ PageOf(BytesUsed(e)) = PageOf(e) /\ PageOf(List(e)) = PageOf(e)
        /\ UsedFor(g, PageOf(e), "meta", d)
    BY ChunkLies
  <2>3. ~UsedFor(g, PageOf(e), "chunk", b) BY <2>2 DEF UsedFor
  <2>4. h2.mem[BytesUsed(e)] = h.mem[BytesUsed(e)] /\ h2.mem[List(e)] = h.mem[List(e)] BY <1>5, <2>2, <2>3
  <2>5. g.low[e] \in Nat /\ g.left[e] \in Nat BY <1>1, LayoutParts
  <2>6. g.low[e] # g.left[e] => h2.mem[g.node[e][g.low[e] + 1]] = h.mem[g.node[e][g.low[e] + 1]]
    <3> SUFFICES ASSUME g.low[e] # g.left[e]
                 PROVE  h2.mem[g.node[e][g.low[e] + 1]] = h.mem[g.node[e][g.low[e] + 1]]
        OBVIOUS
    <3>1. PICK r, y : r = g.low[e] + 1 /\ y = g.node[e][r] OBVIOUS
    <3>2. g.low[e] < g.left[e] BY <2>1, <2>5 DEF ChunkIs
    <3>3. NodeAt(g, d, e, r, y) BY <2>5, <3>1, <3>2 DEF NodeAt
    <3>4. h2.mem[y] = h.mem[y] BY <1>6, <3>3, ZenonT(60)
    <3> QED BY <3>1, <3>4
  <2> QED BY <2>1, <2>4, <2>6 DEF ChunkIs
<1>8. NodesAre(h2, hl2, g) BY <1>6 DEF NodesAre
<1>9. HeldAre(hl2, g)
  <2> SUFFICES ASSUME NEW r \in hl2 PROVE r[2] \in Bucket /\ IsBlock(g, r[2], r[1]) BY DEF HeldAre
  <2>1. CASE r \in hl BY <1>1, <2>1 DEF HeldAre
  <2>2. CASE r = <<x, b>> BY <2>2 DEF Loose
  <2> QED BY <1>2, <2>1, <2>2
<1>10. hl2 \subseteq Word \X Bucket BY <1>1, <1>2, <1>3
<1>11. \A a \in Word : PageOf(a) \in h.free => h2.mem[a] = h.mem[a]
  <2> SUFFICES ASSUME NEW a \in Word, PageOf(a) \in h.free PROVE h2.mem[a] = h.mem[a] OBVIOUS
  <2>1. g.use[PageOf(a)] = "free" BY <1>1, WordPage DEF FreeBelow
  <2> QED BY <1>5, <2>1 DEF UsedFor
<1>12. ASSUME NEW q \in Page, g.use[q] = "meta" PROVE h2.mem[Base(q)] = h.mem[Base(q)]
  <2>1. Base(q) \in Word /\ PageOf(Base(q)) = q BY BaseOf
  <2> QED BY <1>5, <1>12, <2>1 DEF UsedFor
<1>13. Sound(h2, hl2, g) BY <1>1, <1>7, <1>8, <1>9, <1>10, <1>11, <1>12, PagesStay
<1> QED BY <1>2, <1>13

\* Putting a block of a caller first on the list of a chunk, of whichever page.
LEMMA PushBlock ==
    ASSUME NEW h, NEW hl, NEW g, Sound(h, hl, g), NEW b \in Bucket, NEW c, IsChunk(g, b, c),
           NEW x, <<x, b>> \in hl, NEW h2 \in HeapType, ~h2.fault, h2.free = h.free, h2.list = h.list,
           h2.mem = [h.mem EXCEPT ![BytesUsed(c)] = h.mem[BytesUsed(c)] - Buckets[b],
                                  ![x] = h.mem[List(c)], ![List(c)] = x]
    PROVE  \E g2 : Sound(h2, hl \ {<<x, b>>}, g2) /\ g2.use = g.use /\ g2.of = g.of
<1>1. /\ h \in HeapType /\ g \in Layouts /\ FreeBelow(h, g) /\ MetasLinked(h, g) /\ ChunksAre(h, g)
      /\ NodesAre(h, hl, g) /\ NodesApart(g) /\ HeldAre(hl, g) /\ hl \subseteq Word \X Bucket
    BY DEF Sound
<1>2. PICK hl2 : hl2 = hl \ {<<x, b>>} OBVIOUS
<1>3. PICK L, l : L = g.left[c] /\ l = g.low[c] OBVIOUS
<1>4. /\ c \in Word /\ BytesUsed(c) \in Word /\ List(c) \in Word /\ BytesUsed(c) # List(c)
      /\ \A p \in Page : BytesUsed(c) # Base(p) /\ List(c) # Base(p)
    BY ChunkLies
<1>5. L \in Nat /\ l \in Nat /\ l <= L /\ ChunkIs(h, g, b, c)
  <2>1. L \in Nat /\ l \in Nat BY <1>1, <1>3, <1>4, LayoutParts
  <2>2. ChunkIs(h, g, b, c) BY <1>1, <1>4 DEF ChunksAre
  <2> QED BY <1>3, <2>1, <2>2 DEF ChunkIs
<1>6. IsBlock(g, b, x) /\ x \in Word /\ g.use[PageOf(x)] = "chunk" BY <1>1 DEF HeldAre, IsBlock, UsedFor
<1>7. x # BytesUsed(c) /\ x # List(c) BY <1>6, ChunkWordsDiffer
<1>8. PICK g2 : g2 = [use |-> g.use, of |-> g.of, meta |-> g.meta, count |-> g.count,
                      left |-> [g.left EXCEPT ![c] = L + 1], low |-> g.low,
                      node |-> [g.node EXCEPT ![c] = [r \in Nat |-> IF r = L + 1 THEN x ELSE g.node[c][r]]]]
    OBVIOUS
<1>9. /\ g2.use = g.use /\ g2.of = g.of /\ g2.meta = g.meta /\ g2.count = g.count /\ g2.low = g.low
      /\ \A d \in Word : g2.left[d] = IF d = c THEN L + 1 ELSE g.left[d]
      /\ \A d \in Word : d # c => g2.node[d] = g.node[d]
      /\ \A r \in Nat : g2.node[c][r] = IF r = L + 1 THEN x ELSE g.node[c][r]
  <2>1. g.left \in [Word -> Nat] /\ g.node \in [Word -> [Nat -> Word]] BY <1>1, LayoutParts
  <2> QED BY <1>4, <1>8, <2>1
<1>10. g2 \in Layouts
  <2>0. L + 1 \in Nat BY <1>5
  <2>1. [g.left EXCEPT ![c] = L + 1] \in [Word -> Nat] BY <1>1, <2>0, LayoutParts
  <2>2. [r \in Nat |-> IF r = L + 1 THEN x ELSE g.node[c][r]] \in [Nat -> Word] BY <1>1, <1>4, <1>6, LayoutParts
  <2>3. g2.node \in [Word -> [Nat -> Word]] BY <1>1, <1>8, <2>2, LayoutParts
  <2> QED BY <1>1, <1>8, <2>1, <2>3, LayoutParts DEF Layouts
<1>11. /\ \A d, e : IsChunk(g2, d, e) <=> IsChunk(g, d, e)
       /\ \A d, y : IsBlock(g2, d, y) <=> IsBlock(g, d, y)
    BY <1>9, SameKinds
<1>12. ASSUME NEW d, NEW e, NEW r, NEW y, NodeAt(g2, d, e, r, y)
       PROVE  NodeAt(g, d, e, r, y) \/ (d = b /\ e = c /\ r = L + 1 /\ y = x)
  <2>1. e \in Word /\ IsChunk(g, d, e) BY <1>11, <1>12 DEF NodeAt, IsChunk
  <2>2. g.low[e] \in Nat /\ g.left[e] \in Nat BY <1>1, <2>1, LayoutParts
  <2>3. r \in (g.low[e] + 1)..g2.left[e] /\ y = g2.node[e][r] BY <1>9, <1>12 DEF NodeAt
  <2>4. CASE e = c
    <3>1. r \in (l + 1)..(L + 1) /\ r \in Nat BY <1>3, <1>5, <1>9, <2>1, <2>3, <2>4
    <3>2. d = b BY <2>1, <2>4 DEF IsChunk, UsedFor
    <3>3. CASE r = L + 1 BY <1>9, <2>3, <2>4, <3>1, <3>2, <3>3
    <3>4. CASE r # L + 1
      <4>1. r \in (g.low[e] + 1)..g.left[e] BY <1>3, <1>5, <2>4, <3>1, <3>4
      <4>2. y = g.node[e][r] BY <1>9, <2>3, <2>4, <3>1, <3>4
      <4> QED BY <2>1, <4>1, <4>2 DEF NodeAt
    <3> QED BY <3>3, <3>4
  <2>5. CASE e # c
    <3>1. r \in (g.low[e] + 1)..g.left[e] /\ y = g.node[e][r] BY <1>9, <2>1, <2>3, <2>5
    <3> QED BY <2>1, <3>1 DEF NodeAt
  <2> QED BY <2>4, <2>5
<1>13. ASSUME NEW d \in Bucket, NEW e, NEW r, NEW y, NodeAt(g, d, e, r, y)
       PROVE  /\ y # x /\ IsBlock(g, d, y) /\ <<y, d>> \notin hl /\ r \in Nat /\ e \in Word /\ y \in Word
              /\ r > g.low[e] + 1 => h.mem[y] = g.node[e][r - 1]
  <2>1. /\ IsBlock(g, d, y) /\ <<y, d>> \notin hl /\ r \in Nat /\ e \in Word /\ y \in Word
        /\ r > g.low[e] + 1 => h.mem[y] = g.node[e][r - 1]
    BY <1>13, NodeLies
  <2>2. y = x => d = b BY <1>6, <2>1 DEF IsBlock, UsedFor
  <2> QED BY <2>1, <2>2
<1>14. h.mem \in [Word -> Int] BY <1>1 DEF HeapType
<1>15. \A a \in Word : a # List(c) /\ a # BytesUsed(c) /\ a # x => h2.mem[a] = h.mem[a] BY <1>14
<1>16. /\ h2.mem[List(c)] = x /\ h2.mem[x] = h.mem[List(c)]
       /\ h2.mem[BytesUsed(c)] = h.mem[BytesUsed(c)] - Buckets[b]
    BY <1>4, <1>6, <1>7, <1>14
<1>17. /\ \A d, e : IsChunk(g, d, e) /\ e # c =>
             /\ BytesUsed(e) # BytesUsed(c) /\ BytesUsed(e) # List(c)
             /\ List(e) # BytesUsed(c) /\ List(e) # List(c)
       /\ \A d, y : IsBlock(g, d, y) => y # BytesUsed(c) /\ y # List(c)
       /\ \A a \in Word : PageOf(a) \in h.free => a # BytesUsed(c) /\ a # List(c)
    BY ChunkWordsDiffer
<1>18. \A d, y : IsBlock(g, d, y) /\ y # x => h2.mem[y] = h.mem[y] BY <1>15, <1>17 DEF IsBlock
<1>19. ChunksAre(h2, g2)
  <2> SUFFICES ASSUME NEW d \in Bucket, NEW e \in Word, IsChunk(g2, d, e)
               PROVE  ChunkIs(h2, g2, d, e)
      BY DEF ChunksAre
  <2>1. IsChunk(g, d, e) BY <1>11
  <2>2. ChunkIs(h, g, d, e) BY <1>1, <2>1 DEF ChunksAre
  <2>3. g.low[e] \in Nat /\ g.left[e] \in Nat BY <1>1, LayoutParts
  <2>4. g.low[e] # g.left[e] => h2.mem[g.node[e][g.low[e] + 1]] = h.mem[g.node[e][g.low[e] + 1]]
    <3> SUFFICES ASSUME g.low[e] # g.left[e]
                 PROVE  h2.mem[g.node[e][g.low[e] + 1]] = h.mem[g.node[e][g.low[e] + 1]]
        OBVIOUS
    <3>1. PICK r, y : r = g.low[e] + 1 /\ y = g.node[e][r] OBVIOUS
    <3>2. g.low[e] < g.left[e] BY <2>2, <2>3 DEF ChunkIs
    <3>3. NodeAt(g, d, e, r, y) BY <2>1, <2>3, <3>1, <3>2 DEF NodeAt
    <3> QED BY <1>13, <1>18, <3>1, <3>3
  <2>5. CASE e # c
    <3>1. /\ BytesUsed(e) \in Word /\ List(e) \in Word
          /\ PageOf(BytesUsed(e)) = PageOf(e) /\ PageOf(List(e)) = PageOf(e) /\ UsedFor(g, PageOf(e), "meta", d)
      BY <2>1, ChunkLies
    <3>2. BytesUsed(e) # x /\ List(e) # x BY <1>6, <3>1 DEF UsedFor
    <3>3. h2.mem[BytesUsed(e)] = h.mem[BytesUsed(e)] /\ h2.mem[List(e)] = h.mem[List(e)]
      BY <1>15, <1>17, <2>1, <2>5, <3>1, <3>2
    <3> QED BY <1>9, <2>2, <2>4, <2>5, <3>3 DEF ChunkIs
  <2>6. CASE e = c
    <3>1. d = b BY <2>1, <2>6 DEF IsChunk, UsedFor
    <3>2. /\ g2.low[c] = l /\ g2.left[c] = L + 1 /\ g2.node[c][L + 1] = x
          /\ l + 1 # L + 1 => g2.node[c][l + 1] = g.node[c][l + 1]
      BY <1>3, <1>4, <1>5, <1>9
    <3>3. h2.mem[BytesUsed(c)] + Buckets[b] * (L + 1) = PageWords
      <4>1. PICK u, s : u = h.mem[BytesUsed(c)] /\ s = Buckets[b] OBVIOUS
      <4>2. u + s * L = PageWords BY <1>3, <1>5, <4>1 DEF ChunkIs
      <4>3. u \in Int /\ s \in Int BY <1>4, <1>14, <4>1, ConstantTypes
      <4>4. (u - s) + s * (L + 1) = u + s * L BY <1>5, <4>3
      <4> QED BY <1>16, <4>1, <4>2, <4>4
    <3>4. h2.mem[List(c)] = g2.node[c][L + 1] BY <1>16, <3>2
    <3>5. l > 0 => h2.mem[g2.node[c][l + 1]] = Null
      <4>1. CASE l = L
        <5>1. l > 0 => h.mem[List(c)] = Null BY <1>3, <1>5, <4>1 DEF ChunkIs
        <5> QED BY <1>16, <3>2, <4>1, <5>1
      <4>2. CASE l # L
        <5>1. l > 0 => h.mem[g.node[c][l + 1]] = Null BY <1>3, <1>5, <4>2 DEF ChunkIs
        <5>2. l + 1 # L + 1 BY <1>5, <4>2
        <5> QED BY <1>3, <2>4, <2>6, <3>2, <4>2, <5>1, <5>2
      <4> QED BY <4>1, <4>2
    <3> QED BY <1>5, <2>6, <3>1, <3>2, <3>3, <3>4, <3>5 DEF ChunkIs
  <2> QED BY <2>5, <2>6
<1>20. NodesAre(h2, hl2, g2)
  <2> SUFFICES ASSUME NEW d \in Bucket, NEW e \in Word, NEW y \in Word, NEW r \in Nat, NodeAt(g2, d, e, r, y)
               PROVE  /\ IsBlock(g2, d, y) /\ <<y, d>> \notin hl2
                      /\ r > g2.low[e] + 1 => h2.mem[y] = g2.node[e][r - 1]
      BY DEF NodesAre
  <2>1. CASE NodeAt(g, d, e, r, y)
    <3>1. /\ y # x /\ IsBlock(g, d, y) /\ <<y, d>> \notin hl
          /\ r > g.low[e] + 1 => h.mem[y] = g.node[e][r - 1]
      BY <1>13, <2>1
    <3>2. h2.mem[y] = h.mem[y] BY <1>18, <3>1
    <3>3. g.low[e] \in Nat /\ g.left[e] \in Nat BY <1>1, LayoutParts
    <3>4. r > g.low[e] + 1 => g2.node[e][r - 1] = g.node[e][r - 1]
      <4>1. CASE e # c BY <1>9, <4>1
      <4>2. CASE e = c
        <5>1. r <= L BY <1>3, <1>5, <2>1, <4>2 DEF NodeAt
        <5>2. r > g.low[e] + 1 => r - 1 \in Nat /\ r - 1 # L + 1 BY <1>5, <3>3, <5>1
        <5> QED BY <1>9, <4>2, <5>2
      <4> QED BY <4>1, <4>2
    <3> QED BY <1>2, <1>9, <1>11, <3>1, <3>2, <3>4
  <2>2. CASE d = b /\ e = c /\ r = L + 1 /\ y = x
    <3>1. IsBlock(g2, d, y) /\ <<y, d>> \notin hl2 BY <1>2, <1>6, <1>11, <2>2
    <3>2. r > g2.low[e] + 1 => h2.mem[y] = g2.node[e][r - 1]
      <4> SUFFICES ASSUME r > g2.low[e] + 1 PROVE h2.mem[y] = g2.node[e][r - 1] OBVIOUS
      <4>1. l < L /\ r - 1 = L /\ L # L + 1 BY <1>3, <1>5, <1>9, <2>2
      <4>2. h.mem[List(c)] = g.node[c][L] BY <1>3, <1>5, <4>1 DEF ChunkIs
      <4>3. g2.node[c][L] = g.node[c][L] BY <1>5, <1>9, <4>1
      <4> QED BY <1>16, <2>2, <4>1, <4>2, <4>3
    <3> QED BY <3>1, <3>2
  <2> QED BY <1>12, <2>1, <2>2
<1>21. NodesApart(g2)
  <2> SUFFICES ASSUME NEW d \in Bucket, NEW d2 \in Bucket, NEW e \in Word, NEW e2 \in Word, NEW y \in Word,
                      NEW r \in Nat, NEW q \in Nat, NodeAt(g2, d, e, r, y), NodeAt(g2, d2, e2, q, y)
               PROVE  e = e2 /\ r = q
      BY DEF NodesApart
  <2>1. CASE y = x
    <3>1. ~NodeAt(g, d, e, r, y) /\ ~NodeAt(g, d2, e2, q, y) BY <1>13, <2>1
    <3> QED BY <1>12, <3>1
  <2>2. CASE y # x
    <3>1. NodeAt(g, d, e, r, y) /\ NodeAt(g, d2, e2, q, y) BY <1>12, <2>2
    <3> QED BY <1>1, <3>1 DEF NodesApart
  <2> QED BY <2>1, <2>2
<1>22. HeldAre(hl2, g) /\ hl2 \subseteq Word \X Bucket BY <1>1, <1>2 DEF HeldAre
<1>23. Sound(h2, hl2, g2)
  <2>1. ASSUME NEW a \in Word, PageOf(a) \in h.free PROVE h2.mem[a] = h.mem[a]
    <3>1. g.use[PageOf(a)] = "free" BY <1>1, <2>1, WordPage DEF FreeBelow
    <3>2. a # x BY <1>6, <3>1
    <3> QED BY <1>15, <1>17, <2>1, <3>2
  <2>2. ASSUME NEW q \in Page, g.use[q] = "meta" PROVE h2.mem[Base(q)] = h.mem[Base(q)]
    <3>1. Base(q) \in Word /\ PageOf(Base(q)) = q BY BaseOf
    <3>2. Base(q) # x BY <1>6, <2>2, <3>1
    <3> QED BY <1>4, <1>15, <3>1, <3>2
  <2> QED BY <1>1, <1>9, <1>10, <1>19, <1>20, <1>21, <1>22, <2>1, <2>2, PagesStay
<1> QED BY <1>2, <1>9, <1>23

\* Another user of the PMM takes the pages above q, and may write into them.
LEMMA TakeOther ==
    ASSUME NEW h, NEW hl, NEW g, Sound(h, hl, g), NEW p \in 0..NumPages, NEW q \in 0..p, h.free = 1..p,
           NEW h2 \in HeapType, ~h2.fault, h2.free = 1..q, h2.list = h.list,
           \A a \in Word : PageOf(a) \notin (q + 1)..p => h2.mem[a] = h.mem[a]
    PROVE  \E g2 : Sound(h2, hl, g2)
<1>1. /\ h \in HeapType /\ g \in Layouts /\ FreeBelow(h, g) /\ MetasLinked(h, g) /\ ChunksAre(h, g)
      /\ NodesAre(h, hl, g) /\ NodesApart(g) /\ HeldAre(hl, g) /\ hl \subseteq Word \X Bucket
    BY DEF Sound
<1>2. NumPages \in Nat /\ p \in Nat /\ q \in Nat /\ q <= p BY ConstantTypes
<1>3. PICK T : T = (q + 1)..p OBVIOUS
<1>4. T \subseteq h.free BY <1>2, <1>3
<1>5. PICK g2 : g2 = [use |-> [k \in Page |-> IF k \in T THEN "other" ELSE g.use[k]], of |-> g.of,
                      meta |-> g.meta, count |-> g.count, left |-> g.left, low |-> g.low, node |-> g.node]
    OBVIOUS
<1>6. g2 \in Layouts
  <2>1. [k \in Page |-> IF k \in T THEN "other" ELSE g.use[k]] \in [Page -> Use] BY <1>1, LayoutParts DEF Use
  <2> QED BY <1>1, <1>5, <2>1, LayoutParts DEF Layouts
<1>7. /\ \A k \in Page : g2.use[k] = IF k \in T THEN "other" ELSE g.use[k]
      /\ g2.of = g.of /\ g2.meta = g.meta /\ g2.count = g.count
      /\ g2.low = g.low /\ g2.left = g.left /\ g2.node = g.node
    BY <1>5
<1>8. \A k \in T : g.use[k] = "free" BY <1>1, <1>4 DEF FreeBelow, HeapType
<1>9. ASSUME NEW k, NEW u, NEW d, u \in {"meta", "chunk"} PROVE UsedFor(g2, k, u, d) <=> UsedFor(g, k, u, d)
  <2>1. CASE k \in T BY <1>7, <1>8, <1>9, <2>1 DEF UsedFor
  <2>2. CASE k \notin T BY <1>7, <2>2 DEF UsedFor
  <2> QED BY <2>1, <2>2
<1>10. /\ \A d, e : IsChunk(g2, d, e) <=> IsChunk(g, d, e)
       /\ \A d, y : IsBlock(g2, d, y) <=> IsBlock(g, d, y)
    BY <1>9 DEF IsChunk, IsBlock
<1>11. \A d, e, r, y : NodeAt(g2, d, e, r, y) <=> NodeAt(g, d, e, r, y) BY <1>7, <1>10 DEF NodeAt
<1>12. ASSUME NEW a \in Word, g.use[PageOf(a)] # "free" PROVE h2.mem[a] = h.mem[a]
  <2>1. PageOf(a) \notin T BY <1>8, <1>12
  <2> QED BY <1>3, <2>1
<1>13. FreeBelow(h2, g2)
  <2>1. \A k \in Page : k \in (q + 1)..p => g2.use[k] # "free" BY <1>3, <1>7
  <2>2. \A k \in Page : k \notin (q + 1)..p => g2.use[k] = g.use[k] BY <1>3, <1>7
  <2>3. \A a \in Word : PageOf(a) \in h2.free => h2.mem[a] = h.mem[a] BY <1>2
  <2>4. FreeBelow(h, g) BY <1>1
  <2> QED BY <2>1, <2>2, <2>3, <2>4, TopTaken
<1>14. MetasLinked(h2, g2)
  <2>1. ASSUME NEW d \in Bucket, NEW i \in 1..g.count[d]
        PROVE  h2.mem[Base(g.meta[d][i])] = h.mem[Base(g.meta[d][i])] /\ UsedFor(g2, g.meta[d][i], "meta", d)
    <3>1. UsedFor(g, g.meta[d][i], "meta", d) BY <1>1 DEF MetasLinked
    <3>2. PICK k : k = g.meta[d][i] OBVIOUS
    <3>3. k \in Page /\ g.use[k] = "meta" BY <3>1, <3>2 DEF UsedFor
    <3>4. Base(k) \in Word /\ PageOf(Base(k)) = k BY <3>3, BaseOf
    <3>5. h2.mem[Base(k)] = h.mem[Base(k)] BY <1>12, <3>3, <3>4
    <3> QED BY <1>9, <3>1, <3>2, <3>5
  <2>2. \A k, d : UsedFor(g2, k, "meta", d) => UsedFor(g, k, "meta", d) BY <1>9
  <2> QED BY <1>1, <1>7, <2>1, <2>2 DEF MetasLinked
<1>15. ASSUME NEW d \in Bucket, NEW e, NEW r, NEW y, NodeAt(g, d, e, r, y)
       PROVE  /\ IsBlock(g, d, y) /\ <<y, d>> \notin hl /\ h2.mem[y] = h.mem[y]
              /\ r > g.low[e] + 1 => h.mem[y] = g.node[e][r - 1]
  <2>1. /\ IsBlock(g, d, y) /\ <<y, d>> \notin hl /\ y \in Word
        /\ r > g.low[e] + 1 => h.mem[y] = g.node[e][r - 1]
    BY <1>15, NodeLies
  <2>2. g.use[PageOf(y)] = "chunk" BY <2>1 DEF IsBlock, UsedFor
  <2> QED BY <1>12, <2>1, <2>2
<1>16. ChunksAre(h2, g2)
  <2> SUFFICES ASSUME NEW d \in Bucket, NEW e \in Word, IsChunk(g2, d, e)
               PROVE  ChunkIs(h2, g2, d, e)
      BY DEF ChunksAre
  <2>1. IsChunk(g, d, e) BY <1>10
  <2>2. ChunkIs(h, g, d, e) BY <1>1, <2>1 DEF ChunksAre
  <2>3. /\ BytesUsed(e) \in Word /\ List(e) \in Word
        /\ PageOf(BytesUsed(e)) = PageOf(e) /\ PageOf(List(e)) = PageOf(e)
        /\ UsedFor(g, PageOf(e), "meta", d)
    BY <2>1, ChunkLies
  <2>4. h2.mem[BytesUsed(e)] = h.mem[BytesUsed(e)] /\ h2.mem[List(e)] = h.mem[List(e)]
    BY <1>12, <2>3 DEF UsedFor
  <2>5. g.low[e] \in Nat /\ g.left[e] \in Nat BY <1>1, LayoutParts
  <2>6. g.low[e] # g.left[e] => h2.mem[g.node[e][g.low[e] + 1]] = h.mem[g.node[e][g.low[e] + 1]]
    <3> SUFFICES ASSUME g.low[e] # g.left[e]
                 PROVE  h2.mem[g.node[e][g.low[e] + 1]] = h.mem[g.node[e][g.low[e] + 1]]
        OBVIOUS
    <3>1. PICK r, y : r = g.low[e] + 1 /\ y = g.node[e][r] OBVIOUS
    <3>2. g.low[e] < g.left[e] BY <2>2, <2>5 DEF ChunkIs
    <3>3. NodeAt(g, d, e, r, y) BY <2>1, <2>5, <3>1, <3>2 DEF NodeAt
    <3>4. h2.mem[y] = h.mem[y] BY <1>15, <3>3, ZenonT(60)
    <3> QED BY <3>1, <3>4
  <2> QED BY <1>7, <2>2, <2>4, <2>6 DEF ChunkIs
<1>17. NodesAre(h2, hl, g2) BY <1>7, <1>10, <1>11, <1>15 DEF NodesAre
<1>18. NodesApart(g2) BY <1>1, <1>11 DEF NodesApart
<1>19. HeldAre(hl, g2) BY <1>1, <1>10 DEF HeldAre
<1> QED BY <1>1, <1>6, <1>13, <1>14, <1>16, <1>17, <1>18, <1>19 DEF Sound

\* The blocks of a page, from its end.
LEMMA FreshBlocks ==
    ASSUME NEW b \in Bucket, NEW p \in Page
    PROVE  \E n \in Nat : n > 0 /\ Buckets[b] * n = PageWords /\
             \A r \in 1..n : LET x == Base(p) + Buckets[b] * (n - r) IN
                /\ x \in Word /\ PageOf(x) = p /\ x % Buckets[b] = 0
                /\ \A q \in 1..n : Base(p) + Buckets[b] * (n - q) = x => q = r
                /\ r > 1 => x + Buckets[b] = Base(p) + Buckets[b] * (n - (r - 1))
<1>1. PICK s : s = Buckets[b] OBVIOUS
<1>2. PageWords \in Nat /\ PageWords >= 4 /\ s \in Nat /\ s >= 1 /\ PageWords % s = 0
  <2>1. PageWords \in Nat /\ PageWords >= 4 /\ s \in 1..PageWords /\ PageWords % s = 0 BY <1>1, ConstantTypes
  <2> QED BY <2>1
<1>3. PICK n \in Int : PageWords = s * n BY <1>2, Multiple
<1>4. n > 0 BY <1>2, <1>3
<1>5. p \in Nat /\ Base(p) \in Nat /\ Base(p) = p * PageWords BY BaseOf DEF Page, Base
<1>6. Base(p) = s * (p * n) BY <1>2, <1>3, <1>5
<1>7. ASSUME NEW r \in 1..n
      PROVE  /\ Base(p) + s * (n - r) \in Word /\ PageOf(Base(p) + s * (n - r)) = p
             /\ (Base(p) + s * (n - r)) % s = 0
             /\ \A q \in 1..n : Base(p) + s * (n - q) = Base(p) + s * (n - r) => q = r
             /\ r > 1 => (Base(p) + s * (n - r)) + s = Base(p) + s * (n - (r - 1))
  <2>1. r \in Nat /\ r >= 1 /\ r <= n BY <1>3
  <2>2. s * (n - r) \in Nat /\ s * (n - r) <= PageWords - s
    <3>1. s * (n - r) + s * r = PageWords BY <1>2, <1>3, <2>1
    <3>2. s * r >= s BY <1>2, <2>1
    <3>3. s * (n - r) >= 0 /\ s * (n - r) \in Int /\ s * r \in Int BY <1>2, <1>3, <2>1
    <3> QED BY <1>2, <3>1, <3>2, <3>3
  <2>3. s * (n - r) \in 0..(PageWords - 1) BY <1>2, <2>2
  <2>4. Base(p) + s * (n - r) \in Word /\ PageOf(Base(p) + s * (n - r)) = p BY <2>3, InPage
  <2>5. (Base(p) + s * (n - r)) % s = 0
    <3>1. PICK k : k = p * n + (n - r) OBVIOUS
    <3>2. k \in Int BY <1>3, <1>5, <2>1, <3>1
    <3>3. Base(p) + s * (n - r) = s * k BY <1>2, <1>3, <1>5, <1>6, <2>1, <3>1
    <3>4. (s * k) % s = 0 BY <1>2, <3>2
    <3> QED BY <3>3, <3>4
  <2>6. ASSUME NEW q \in 1..n, Base(p) + s * (n - q) = Base(p) + s * (n - r) PROVE q = r
    <3>1. q \in Nat /\ s * (n - q) \in Int BY <1>2, <1>3
    <3>2. s * (n - q) = s * (n - r) BY <1>5, <2>2, <2>6, <3>1
    <3> QED BY <1>2, <1>3, <2>1, <3>1, <3>2
  <2>7. s * (n - r) + s = s * (n - (r - 1)) BY <1>2, <1>3, <2>1
  <2>8. (Base(p) + s * (n - r)) + s = Base(p) + s * (n - (r - 1)) BY <1>2, <1>5, <2>2, <2>7
  <2> QED BY <2>4, <2>5, <2>6, <2>8
<1>8. n \in Nat BY <1>3, <1>4
<1> QED BY <1>1, <1>3, <1>4, <1>7, <1>8

\* init_chunk threads page p, the highest that is free, for a chunk whose list is null.  If
\* the first word of the page above is a listed block, that list ends there from now on.
LEMMA InitFresh ==
    ASSUME NEW h, NEW hl, NEW g, Sound(h, hl, g), NEW b \in Bucket, NEW c, IsChunk(g, b, c),
           NEW p \in Page, h.free = 1..p, NEW h2 \in HeapType, ~h2.fault, h2.free = 1..(p - 1), h2.list = h.list,
           \A a \in Word : h2.mem[a] = IF a = BytesUsed(c) THEN 0
                                       ELSE IF a = List(c) THEN Base(p)
                                       ELSE IF a = Base(p + 1) THEN Null
                                       ELSE IF PageOf(a) = p /\ a % Buckets[b] = 0 THEN a + Buckets[b]
                                       ELSE h.mem[a]
    PROVE  \E g2 : Sound(h2, hl, g2) /\ IsChunk(g2, b, c) /\ g2.low[c] < g2.left[c] /\ SameUse(g, g2, {p})
<1>1. /\ h \in HeapType /\ g \in Layouts /\ FreeBelow(h, g) /\ MetasLinked(h, g) /\ ChunksAre(h, g)
      /\ NodesAre(h, hl, g) /\ NodesApart(g) /\ HeldAre(hl, g) /\ hl \subseteq Word \X Bucket
    BY DEF Sound
<1>2. PICK s, y : s = Buckets[b] /\ y = Base(p + 1) OBVIOUS
<1>3. PICK n \in Nat : n > 0 /\ s * n = PageWords /\
          \A r \in 1..n : LET x == Base(p) + s * (n - r) IN
                /\ x \in Word /\ PageOf(x) = p /\ x % s = 0
                /\ \A q \in 1..n : Base(p) + s * (n - q) = x => q = r
                /\ r > 1 => x + s = Base(p) + s * (n - (r - 1))
  <2>1. \E n \in Nat : n > 0 /\ Buckets[b] * n = PageWords /\
          \A r \in 1..n : LET x == Base(p) + Buckets[b] * (n - r) IN
                /\ x \in Word /\ PageOf(x) = p /\ x % Buckets[b] = 0
                /\ \A q \in 1..n : Base(p) + Buckets[b] * (n - q) = x => q = r
                /\ r > 1 => x + Buckets[b] = Base(p) + Buckets[b] * (n - (r - 1))
    BY FreshBlocks
  <2> QED BY <1>2, <2>1, Zenon
<1>4. PICK at : at = [r \in Nat |-> IF r \in 1..n THEN Base(p) + s * (n - r) ELSE Base(p)] OBVIOUS
<1>5. /\ \A r \in 1..n : /\ at[r] \in Word /\ PageOf(at[r]) = p /\ at[r] % s = 0
                         /\ \A q \in 1..n : at[q] = at[r] => q = r
                         /\ r > 1 => at[r] + s = at[r - 1]
      /\ at \in [Nat -> Word] /\ at[n] = Base(p)
  <2>1. \A r \in 1..n : r \in Nat /\ at[r] = Base(p) + s * (n - r) BY <1>4
  <2>2. \A r \in 1..n : r > 1 => r - 1 \in 1..n OBVIOUS
  <2>3. \A r \in 1..n : /\ at[r] \in Word /\ PageOf(at[r]) = p /\ at[r] % s = 0
                        /\ \A q \in 1..n : at[q] = at[r] => q = r
                        /\ r > 1 => at[r] + s = at[r - 1]
    BY <1>3, <2>1, <2>2
  <2>4. \A r \in Nat : at[r] \in Word BY <1>4, <2>3, BaseOf
  <2>5. at \in [Nat -> Word] BY <1>4, <2>4
  <2>6. at[n] = Base(p) + s * 0 BY <1>3, <1>4
  <2>7. s * 0 = 0 /\ Base(p) \in Nat BY <1>2, ConstantTypes, BaseOf
  <2> QED BY <2>3, <2>5, <2>6, <2>7
<1>6. /\ p \in h.free /\ g.use[p] = "free"
      /\ \A d, u : UsedFor(g, p, u, d) => u = "free"
      /\ \A d, e : IsChunk(g, d, e) => PageOf(e) # p
      /\ \A d, x : IsBlock(g, d, x) => PageOf(x) # p
  <2>1. p \in h.free BY DEF Page
  <2> QED BY <2>1, FreeIsBare
<1>7. /\ c \in Word /\ BytesUsed(c) \in Word /\ List(c) \in Word /\ BytesUsed(c) # List(c)
      /\ PageOf(BytesUsed(c)) = PageOf(c) /\ PageOf(List(c)) = PageOf(c)
      /\ UsedFor(g, PageOf(c), "meta", b) /\ PageOf(c) \in Page
      /\ \A q \in Page : BytesUsed(c) # Base(q) /\ List(c) # Base(q)
    BY ChunkLies
\* y is the first word of the page above p, or no word.
<1>8. /\ y \in Word => p + 1 \in Page /\ PageOf(y) = p + 1
      /\ p + 1 # p /\ p \in Nat /\ p >= 1 /\ p <= NumPages /\ NumPages \in Nat
  <2>1. p \in Nat /\ p >= 1 /\ p <= NumPages /\ NumPages \in Nat BY ConstantTypes DEF Page
  <2>2. PageWords \in Nat /\ PageWords >= 4 BY ConstantTypes
  <2>3. PageOf(y) = p + 1 BY <1>2, <2>1, <2>2 DEF Base, PageOf
  <2>4. y \in Word => PageOf(y) \in Page BY WordPage
  <2> QED BY <2>1, <2>3, <2>4
<1>9. y \notin {BytesUsed(c), List(c)} BY <1>2, <1>7, <1>8
<1>10. /\ h2.mem[BytesUsed(c)] = 0 /\ h2.mem[List(c)] = Base(p)
       /\ y \in Word => h2.mem[y] = Null
       /\ \A r \in 1..n : h2.mem[at[r]] = at[r] + s
       /\ \A a \in Word : a # BytesUsed(c) /\ a # List(c) /\ a # y /\ PageOf(a) # p => h2.mem[a] = h.mem[a]
  <2>1. h2.mem[BytesUsed(c)] = 0 /\ h2.mem[List(c)] = Base(p) BY <1>7
  <2>2. y \in Word => h2.mem[y] = Null BY <1>2, <1>9
  <2>3. ASSUME NEW r \in 1..n PROVE h2.mem[at[r]] = at[r] + s
    <3>1. at[r] \in Word /\ PageOf(at[r]) = p /\ at[r] % s = 0 BY <1>5
    <3>2. PageOf(c) # p BY <1>6
    <3>3. at[r] # BytesUsed(c) /\ at[r] # List(c) BY <1>7, <3>1, <3>2
    <3>4. at[r] # y BY <1>8, <3>1
    <3> QED BY <1>2, <3>1, <3>3, <3>4
  <2>4. \A a \in Word : a # BytesUsed(c) /\ a # List(c) /\ a # y /\ PageOf(a) # p => h2.mem[a] = h.mem[a]
    BY <1>2
  <2> QED BY <2>1, <2>2, <2>3, <2>4
<1>11. PICK low : low = [d \in Word |-> IF d = c THEN 0
                           ELSE IF \E r \in Nat : \E e \in Bucket : NodeAt(g, e, d, r, y)
                                THEN (CHOOSE r \in Nat : \E e \in Bucket : NodeAt(g, e, d, r, y)) - 1
                                ELSE g.low[d]]
    OBVIOUS
<1>12. ASSUME NEW d \in Word, d # c
       PROVE  \/ low[d] = g.low[d] /\ ~ \E r \in Nat : \E e \in Bucket : NodeAt(g, e, d, r, y)
              \/ \E e \in Bucket : /\ NodeAt(g, e, d, low[d] + 1, y) /\ low[d] \in Nat
                                   /\ g.low[d] <= low[d] /\ low[d] < g.left[d]
                                   /\ y \in Word /\ y = g.node[d][low[d] + 1]
  <2>1. CASE \E r \in Nat : \E e \in Bucket : NodeAt(g, e, d, r, y)
    <3>1. PICK r : r = CHOOSE k \in Nat : \E e \in Bucket : NodeAt(g, e, d, k, y) OBVIOUS
    <3>2. r \in Nat /\ \E e \in Bucket : NodeAt(g, e, d, r, y) BY <2>1, <3>1
    <3>3. PICK e \in Bucket : NodeAt(g, e, d, r, y) BY <3>2
    <3>4. r >= 1 /\ g.low[d] + 1 <= r /\ r <= g.left[d] BY <3>3, NodeLies, ZenonT(60)
    <3>8. y = g.node[d][r] BY <3>3 DEF NodeAt
    <3>9. y \in Word BY <1>1, <3>2, <3>8, LayoutParts
    <3>5. low[d] = r - 1 BY <1>11, <1>12, <2>1, <3>1
    <3>6. g.low[d] \in Nat /\ g.left[d] \in Nat BY <1>1, LayoutParts
    <3>7. low[d] + 1 = r /\ low[d] \in Nat /\ g.low[d] <= low[d] /\ low[d] < g.left[d]
      BY <3>2, <3>4, <3>5, <3>6
    <3> QED BY <3>3, <3>5, <3>7, <3>8, <3>9
  <2>2. CASE ~ \E r \in Nat : \E e \in Bucket : NodeAt(g, e, d, r, y) BY <1>11, <1>12, <2>2
  <2> QED BY <2>1, <2>2
<1>13. low \in [Word -> Nat] /\ low[c] = 0
  <2>1. \A d \in Word : d # c => low[d] \in Nat BY <1>1, <1>12, LayoutParts
  <2>2. low[c] = 0 BY <1>7, <1>11
  <2>3. \A d \in Word : low[d] \in Nat BY <2>1, <2>2
  <2> QED BY <1>11, <2>2, <2>3
<1>14. PICK g2 : g2 = [use   |-> [g.use EXCEPT ![p] = "chunk"], of |-> [g.of EXCEPT ![p] = b],
                       meta  |-> g.meta, count |-> g.count, left |-> [g.left EXCEPT ![c] = n],
                       low   |-> low, node |-> [g.node EXCEPT ![c] = at]]
    OBVIOUS
<1>15. g2 \in Layouts
  <2>1. [g.use EXCEPT ![p] = "chunk"] \in [Page -> Use] BY <1>1, LayoutParts DEF Use
  <2>2. [g.of EXCEPT ![p] = b] \in [Page -> Bucket \cup {0}] BY <1>1, LayoutParts
  <2>3. [g.left EXCEPT ![c] = n] \in [Word -> Nat] BY <1>1, <1>3, LayoutParts
  <2>4. [g.node EXCEPT ![c] = at] \in [Word -> [Nat -> Word]] BY <1>1, <1>5, LayoutParts
  <2> QED BY <1>1, <1>13, <1>14, <2>1, <2>2, <2>3, <2>4, LayoutParts DEF Layouts
<1>16. /\ \A q \in Page : g2.use[q] = IF q = p THEN "chunk" ELSE g.use[q]
       /\ \A q \in Page : g2.of[q] = IF q = p THEN b ELSE g.of[q]
       /\ g2.meta = g.meta /\ g2.count = g.count /\ g2.low = low
       /\ g2.left[c] = n /\ g2.node[c] = at
       /\ \A d \in Word : d # c => g2.left[d] = g.left[d] /\ g2.node[d] = g.node[d]
  <2>1. /\ g.use \in [Page -> Use] /\ g.of \in [Page -> Bucket \cup {0}]
        /\ g.left \in [Word -> Nat] /\ g.node \in [Word -> [Nat -> Word]]
    BY <1>1, LayoutParts
  <2> QED BY <1>7, <1>14, <2>1
<1>17. /\ \A q, d : UsedFor(g2, q, "meta", d) <=> UsedFor(g, q, "meta", d)
       /\ \A q, d : UsedFor(g, q, "chunk", d) => UsedFor(g2, q, "chunk", d)
       /\ UsedFor(g2, p, "chunk", b) /\ SameUse(g, g2, {p})
  BY <1>6, <1>16 DEF UsedFor, SameUse
<1>18. /\ \A d, e : IsChunk(g2, d, e) <=> IsChunk(g, d, e)
       /\ \A d, x : IsBlock(g, d, x) => IsBlock(g2, d, x)
    BY <1>17 DEF IsChunk, IsBlock
<1>19. ASSUME NEW d \in Bucket, NEW e, NEW r, NEW x, NodeAt(g2, d, e, r, x)
       PROVE  \/ NodeAt(g, d, e, r, x) /\ e # c /\ (x = y => r = low[e] + 1) /\ PageOf(x) # p
              \/ d = b /\ e = c /\ r \in 1..n /\ x = at[r] /\ PageOf(x) = p
  <2>1. e \in Word /\ IsChunk(g, d, e) /\ r \in (low[e] + 1)..g2.left[e] /\ x = g2.node[e][r]
    BY <1>16, <1>18, <1>19 DEF NodeAt, IsChunk
  <2>2. CASE e = c
    <3>1. r \in 1..n /\ x = at[r] BY <1>13, <1>16, <2>1, <2>2
    <3>2. d = b BY <2>1, <2>2 DEF IsChunk, UsedFor
    <3> QED BY <1>5, <2>2, <3>1, <3>2
  <2>3. CASE e # c
    <3>1. r \in (low[e] + 1)..g.left[e] /\ x = g.node[e][r] BY <1>16, <2>1, <2>3
    <3>2. g.low[e] \in Nat /\ g.left[e] \in Nat /\ low[e] \in Nat BY <1>1, <1>13, <2>1, LayoutParts
    <3>3. g.low[e] <= low[e] BY <1>12, <2>1, <2>3, <3>2
    <3>4. r \in (g.low[e] + 1)..g.left[e] /\ r \in Nat BY <3>1, <3>2, <3>3
    <3>5. NodeAt(g, d, e, r, x) BY <2>1, <3>1, <3>4 DEF NodeAt
    <3>6. IsBlock(g, d, x) /\ x \in Word BY <3>5, NodeLies
    <3>7. ASSUME x = y PROVE r = low[e] + 1
      <4>1. PICK k \in Bucket : NodeAt(g, k, e, low[e] + 1, y) BY <1>12, <2>1, <2>3, <3>4, <3>5, <3>7
      <4>2. low[e] + 1 \in Nat BY <3>2
      <4> QED BY <1>1, <2>1, <3>4, <3>5, <3>6, <3>7, <4>1, <4>2 DEF NodesApart
    <3> QED BY <1>6, <2>3, <3>5, <3>6, <3>7
  <2> QED BY <2>2, <2>3
\* Words of chunks and of blocks that are not written.
<1>20. /\ \A d, e : IsChunk(g, d, e) /\ e # c =>
             /\ BytesUsed(e) # BytesUsed(c) /\ BytesUsed(e) # List(c)
             /\ List(e) # BytesUsed(c) /\ List(e) # List(c)
       /\ \A d, x : IsBlock(g, d, x) => x # BytesUsed(c) /\ x # List(c)
       /\ \A a \in Word : PageOf(a) \in h.free => a # BytesUsed(c) /\ a # List(c)
    BY ChunkWordsDiffer
<1>21. \A d, x : IsBlock(g, d, x) /\ x # y => h2.mem[x] = h.mem[x] BY <1>6, <1>10, <1>20 DEF IsBlock
<1>22. FreeBelow(h2, g2)
  <2>1. PICK q : q = p - 1 OBVIOUS
  <2>2. q \in 0..p /\ p \in 0..NumPages /\ \A k \in Page : k \in (q + 1)..p <=> k = p BY <1>8, <2>1 DEF Page
  <2>3. \A k \in Page : k \in (q + 1)..p => g2.use[k] # "free" BY <1>16, <2>2
  <2>4. \A k \in Page : k \notin (q + 1)..p => g2.use[k] = g.use[k] BY <1>16, <2>2
  <2>5. ASSUME NEW a \in Word, PageOf(a) \in h2.free PROVE h2.mem[a] = h.mem[a]
    <3>1. PageOf(a) \in h.free /\ PageOf(a) # p /\ PageOf(a) # p + 1 BY <1>8, <2>5
    <3>2. a # y BY <1>8, <3>1
    <3> QED BY <1>10, <1>20, <2>5, <3>1, <3>2
  <2>6. h.free = 1..p /\ h2.free = 1..q /\ FreeBelow(h, g) BY <1>1, <2>1
  <2> QED BY <2>2, <2>3, <2>4, <2>5, <2>6, TopTaken
<1>23. MetasLinked(h2, g2)
  <2>1. ASSUME NEW d \in Bucket, NEW i \in 1..g.count[d]
        PROVE  h2.mem[Base(g.meta[d][i])] = h.mem[Base(g.meta[d][i])]
    <3>1. PICK k : k = g.meta[d][i] OBVIOUS
    <3>2. /\ UsedFor(g, k, "meta", d)
          /\ h.mem[Base(k)] = IF i = g.count[d] THEN Null ELSE Base(g.meta[d][i + 1])
      BY <1>1, <3>1 DEF MetasLinked
    <3>3. k \in Page /\ k # p /\ Base(k) \in Word /\ PageOf(Base(k)) = k BY <1>6, <3>2, BaseOf DEF UsedFor
    <3>4. CASE k # p + 1
      <4>1. Base(k) # y BY <1>8, <3>3, <3>4
      <4>2. Base(k) # BytesUsed(c) /\ Base(k) # List(c) BY <1>7, <3>3
      <4>3. h2.mem[Base(k)] = h.mem[Base(k)] BY <1>10, <3>3, <4>1, <4>2
      <4> QED BY <3>1, <4>3
    <3>5. CASE k = p + 1
      <4>1. h2.mem[Base(k)] = Null BY <1>2, <1>10, <3>3, <3>5
      <4>2. i = g.count[d]
        <5> SUFFICES ASSUME i # g.count[d] PROVE FALSE OBVIOUS
        <5>1. g.count[d] \in Nat BY <1>1, LayoutParts
        <5>2. i + 1 \in 1..g.count[d] /\ i < i + 1 BY <5>1
        <5>3. PICK m : m = g.meta[d][i + 1] OBVIOUS
        <5>4. m < k /\ UsedFor(g, m, "meta", d) BY <1>1, <3>1, <5>2, <5>3 DEF MetasLinked
        <5>5. m \in Page /\ g.use[m] # "free" BY <5>4 DEF UsedFor
        <5>6. m \notin 1..p BY <1>1, <5>5 DEF FreeBelow
        <5> QED BY <1>8, <3>5, <5>4, <5>5, <5>6 DEF Page
      <4> QED BY <3>1, <3>2, <4>1, <4>2
    <3> QED BY <3>4, <3>5
  <2>2. \A d \in Bucket : \A i \in 1..g.count[d] : UsedFor(g2, g.meta[d][i], "meta", d)
    BY <1>1, <1>17 DEF MetasLinked
  <2> QED BY <1>1, <1>16, <1>17, <2>1, <2>2 DEF MetasLinked
<1>24. ChunksAre(h2, g2)
  <2> SUFFICES ASSUME NEW d \in Bucket, NEW e \in Word, IsChunk(g2, d, e)
               PROVE  ChunkIs(h2, g2, d, e)
      BY DEF ChunksAre
  <2>1. IsChunk(g, d, e) BY <1>18
  <2>2. CASE e = c
    <3>1. d = b BY <2>1, <2>2 DEF IsChunk, UsedFor
    <3>2. g2.low[e] = 0 /\ g2.left[e] = n /\ g2.node[e] = at BY <1>13, <1>16, <2>2
    <3>3. 0 + s * n = PageWords BY <1>3, ConstantTypes
    <3> QED BY <1>2, <1>3, <1>5, <1>10, <2>2, <3>1, <3>2, <3>3 DEF ChunkIs
  <2>3. CASE e # c
    <3>1. ChunkIs(h, g, d, e) BY <1>1, <2>1 DEF ChunksAre
    <3>2. g2.low[e] = low[e] /\ g2.left[e] = g.left[e] /\ g2.node[e] = g.node[e] BY <1>16, <2>3
    <3>3. g.low[e] \in Nat /\ g.left[e] \in Nat /\ low[e] \in Nat BY <1>1, <1>13, LayoutParts
    <3>4. h2.mem[BytesUsed(e)] = h.mem[BytesUsed(e)] /\ h2.mem[List(e)] = h.mem[List(e)]
      <4>1. /\ BytesUsed(e) \in Word /\ List(e) \in Word
            /\ PageOf(BytesUsed(e)) = PageOf(e) /\ PageOf(List(e)) = PageOf(e)
            /\ \A q \in Page : BytesUsed(e) # Base(q) /\ List(e) # Base(q)
        BY <2>1, ChunkLies
      <4>2. PageOf(e) # p BY <1>6, <2>1
      <4>3. BytesUsed(e) # y /\ List(e) # y BY <1>2, <1>8, <4>1
      <4> QED BY <1>10, <1>20, <2>1, <2>3, <4>1, <4>2, <4>3
    <3>5. low[e] <= g.left[e] BY <1>12, <2>3, <3>1, <3>3 DEF ChunkIs
    <3>6. low[e] < g.left[e] => h2.mem[List(e)] = g.node[e][g.left[e]]
      <4>1. low[e] < g.left[e] => g.low[e] < g.left[e] BY <1>12, <2>3, <3>3
      <4> QED BY <3>1, <3>4, <4>1 DEF ChunkIs
    <3>7. low[e] > 0 => Null = IF low[e] = g.left[e] THEN h2.mem[List(e)] ELSE h2.mem[g.node[e][low[e] + 1]]
      <4>1. CASE low[e] = g.low[e] /\ ~ \E r \in Nat : \E k \in Bucket : NodeAt(g, k, e, r, y)
        <5>1. CASE low[e] = g.left[e] BY <3>1, <3>4, <4>1, <5>1 DEF ChunkIs
        <5>2. CASE low[e] # g.left[e]
          <6>1. PICK r, x : r = low[e] + 1 /\ x = g.node[e][r] OBVIOUS
          <6>2. r \in Nat /\ r \in (g.low[e] + 1)..g.left[e] BY <3>3, <3>5, <4>1, <5>2, <6>1
          <6>3. NodeAt(g, d, e, r, x) BY <2>1, <6>1, <6>2 DEF NodeAt
          <6>4. IsBlock(g, d, x) BY <6>3, NodeLies
          <6>7. x # y BY <4>1, <6>2, <6>3
          <6>5. h2.mem[x] = h.mem[x] BY <1>21, <6>4, <6>7
          <6>6. low[e] > 0 => h.mem[x] = Null BY <3>1, <4>1, <5>2, <6>1 DEF ChunkIs
          <6> QED BY <5>2, <6>1, <6>5, <6>6
        <5> QED BY <5>1, <5>2
      <4>2. CASE y \in Word /\ y = g.node[e][low[e] + 1] /\ low[e] < g.left[e]
        <5>1. low[e] # g.left[e] BY <3>3, <4>2
        <5> QED BY <1>10, <4>2, <5>1
      <4> QED BY <1>12, <2>3, <4>1, <4>2
    <3>8. h2.mem[BytesUsed(e)] + Buckets[d] * g.left[e] = PageWords BY <3>1, <3>4 DEF ChunkIs
    <3> QED BY <3>2, <3>5, <3>6, <3>7, <3>8 DEF ChunkIs
  <2> QED BY <2>2, <2>3
<1>25. NodesAre(h2, hl, g2)
  <2> SUFFICES ASSUME NEW d \in Bucket, NEW e \in Word, NEW x \in Word, NEW r \in Nat, NodeAt(g2, d, e, r, x)
               PROVE  /\ IsBlock(g2, d, x) /\ <<x, d>> \notin hl
                      /\ r > g2.low[e] + 1 => h2.mem[x] = g2.node[e][r - 1]
      BY DEF NodesAre
  <2>1. CASE NodeAt(g, d, e, r, x) /\ e # c /\ (x = y => r = low[e] + 1)
    <3>1. /\ IsBlock(g, d, x) /\ <<x, d>> \notin hl
          /\ r > g.low[e] + 1 => h.mem[x] = g.node[e][r - 1]
      BY <2>1, NodeLies
    <3>2. g.low[e] \in Nat /\ low[e] \in Nat /\ g.low[e] <= low[e] BY <1>1, <1>12, <1>13, <2>1, LayoutParts
    <3>3. r > low[e] + 1 => x # y /\ r > g.low[e] + 1 BY <2>1, <3>2
    <3>4. r > low[e] + 1 => h2.mem[x] = g.node[e][r - 1] BY <1>21, <3>1, <3>3
    <3> QED BY <1>16, <1>18, <2>1, <3>1, <3>4
  <2>2. CASE d = b /\ e = c /\ r \in 1..n /\ x = at[r] /\ PageOf(x) = p
    <3>1. x % s = 0 /\ (r > 1 => at[r] + s = at[r - 1]) BY <1>5, <2>2
    <3>2. IsBlock(g2, d, x) BY <1>2, <1>17, <2>2, <3>1 DEF IsBlock
    <3>3. <<x, d>> \notin hl
      <4>1. ~IsBlock(g, d, x) BY <1>6, <2>2
      <4> QED BY <1>1, <4>1 DEF HeldAre
    <3>4. r > g2.low[e] + 1 => h2.mem[x] = g2.node[e][r - 1] BY <1>10, <1>13, <1>16, <2>2, <3>1
    <3> QED BY <3>2, <3>3, <3>4
  <2> QED BY <1>19, <2>1, <2>2
<1>26. NodesApart(g2)
  <2> SUFFICES ASSUME NEW d \in Bucket, NEW d2 \in Bucket, NEW e \in Word, NEW e2 \in Word, NEW x \in Word,
                      NEW r \in Nat, NEW q \in Nat, NodeAt(g2, d, e, r, x), NodeAt(g2, d2, e2, q, x)
               PROVE  e = e2 /\ r = q
      BY DEF NodesApart
  <2>1. CASE PageOf(x) = p
    <3>1. e = c /\ e2 = c /\ r \in 1..n /\ q \in 1..n /\ x = at[r] /\ x = at[q] BY <1>19, <2>1
    <3> QED BY <1>5, <3>1, ZenonT(60)
  <2>2. CASE PageOf(x) # p
    <3>1. NodeAt(g, d, e, r, x) /\ NodeAt(g, d2, e2, q, x) BY <1>19, <2>2
    <3> QED BY <1>1, <3>1 DEF NodesApart
  <2> QED BY <2>1, <2>2
<1>27. HeldAre(hl, g2) BY <1>1, <1>18 DEF HeldAre
<1>28. g2.low[c] < g2.left[c] BY <1>3, <1>13, <1>16
<1> QED BY <1>1, <1>15, <1>17, <1>18, <1>22, <1>23, <1>24, <1>25, <1>26, <1>27, <1>28 DEF Sound

(***************************************************************************)
(* Types, in whatever state the heap is.                                   *)
(***************************************************************************)

LEMMA HeapParts ==
    ASSUME NEW h \in HeapType
    PROVE  /\ h.mem \in [Word -> Int] /\ h.list \in [Bucket -> {Null} \cup PageStart]
           /\ h.free \subseteq Page /\ h.fault \in BOOLEAN
           /\ h = [mem |-> h.mem, list |-> h.list, free |-> h.free, fault |-> h.fault]
  BY DEF HeapType

\* page_alloc takes free pages.
LEMMA FitIsFree ==
    ASSUME NEW s \in SUBSET Page, NEW n \in Nat, NEW p \in Pmm!FirstFit(s, n)
    PROVE  p \in s /\ p \in Page /\ Run(p, n) \subseteq s
  BY DEF Pmm!FirstFit, Run

LEMMA WithoutIs ==
    ASSUME NEW h \in HeapType, NEW p, NEW n
    PROVE  /\ Without(h, p, n) \in HeapType
           /\ Without(h, p, n).mem = h.mem /\ Without(h, p, n).list = h.list
           /\ Without(h, p, n).free = h.free \ Run(p, n) /\ Without(h, p, n).fault = h.fault
  BY DEF HeapType, Without

LEMMA FilledIs ==
    ASSUME NEW h \in HeapType, NEW words
    PROVE  /\ Filled(h, words) \in HeapType
           /\ Filled(h, words).list = h.list /\ Filled(h, words).free = h.free
           /\ Filled(h, words).fault = h.fault
           /\ \A a \in Word : Filled(h, words).mem[a] = IF a \in words THEN Data ELSE h.mem[a]
<1>1. PICK m : m = [a \in Word |-> IF a \in words THEN Data ELSE h.mem[a]] OBVIOUS
<1>2. Filled(h, words) = [h EXCEPT !.mem = m] BY <1>1 DEF Filled
<1>3. h.mem \in [Word -> Int] /\ Data \in Int BY HeapParts DEF Data
<1>4. m \in [Word -> Int] BY <1>1, <1>3
<1>5. Filled(h, words).mem = m BY <1>2 DEF HeapType
<1>6. Filled(h, words) \in HeapType BY <1>2, <1>4 DEF HeapType
<1>7. Filled(h, words).list = h.list /\ Filled(h, words).free = h.free /\ Filled(h, words).fault = h.fault
  BY <1>2 DEF HeapType
<1> QED BY <1>1, <1>5, <1>6, <1>7

LEMMA InitChunkIs ==
    ASSUME NEW h \in HeapType, NEW c \in Word, NEW b \in Bucket, NEW p \in Page,
           NEW h2, h2 = InitChunk(h, c, Buckets[b], p)
    PROVE  /\ h2 \in HeapType /\ h2.list = h.list /\ h2.fault = h.fault /\ h2.free = h.free \ Run(p, 1)
           /\ \A a \in Word : h2.mem[a] = IF a = BytesUsed(c) THEN 0
                                          ELSE IF a = List(c) THEN Base(p)
                                          ELSE IF a = Base(p + 1) THEN Null
                                          ELSE IF PageOf(a) = p /\ a % Buckets[b] = 0 THEN a + Buckets[b]
                                          ELSE h.mem[a]
<1>1. PICK m : m = [a \in Word |-> IF a = BytesUsed(c) THEN 0
                                   ELSE IF a = List(c) THEN Base(p)
                                   ELSE IF a = Base(p + 1) THEN Null
                                   ELSE IF PageOf(a) = p /\ a % Buckets[b] = 0 THEN a + Buckets[b]
                                   ELSE h.mem[a]]
    OBVIOUS
<1>3. h2 = [Without(h, p, 1) EXCEPT !.mem = m] BY <1>1 DEF InitChunk, PastEnd
<1>4. m \in [Word -> Int]
  <2>1. h.mem \in [Word -> Int] /\ Base(p) \in Nat /\ Buckets[b] \in 1..PageWords /\ PageWords \in Nat
    BY HeapParts, BaseOf, ConstantTypes
  <2>2. \A a \in Word : a \in Nat BY WordPage
  <2>3. \A a \in Word : h.mem[a] \in Int BY <2>1
  <2>4. \A a \in Word : a + Buckets[b] \in Int BY <2>1, <2>2
  <2>5. Base(p) \in Int /\ Null \in Int BY <2>1 DEF Null
  <2>6. \A a \in Word : m[a] \in Int BY <1>1, <2>3, <2>4, <2>5
  <2> QED BY <1>1, <2>6
<1>5. PICK w : w = Without(h, p, 1) OBVIOUS
<1>6. w \in HeapType /\ w.list = h.list /\ w.free = h.free \ Run(p, 1) /\ w.fault = h.fault BY <1>5, WithoutIs
<1>7. h2 = [w EXCEPT !.mem = m] BY <1>3, <1>5
<1>8. h2.mem = m /\ h2.list = w.list /\ h2.free = w.free /\ h2.fault = w.fault BY <1>6, <1>7 DEF HeapType
<1>9. h2 \in HeapType BY <1>4, <1>6, <1>7 DEF HeapType
<1> QED BY <1>1, <1>6, <1>8, <1>9

\* Pop, when the list leads somewhere and when it does not.
LEMMA PopIs ==
    ASSUME NEW h \in HeapType, NEW c \in Word, List(c) \in Word, NEW b \in Bucket
    PROVE  LET r == Pop(h, c, Buckets[b])
               x == h.mem[List(c)]
           IN  /\ r.heap \in HeapType /\ r.ptr \in {Null} \cup Word /\ r.done
               /\ r.heap.free = h.free /\ r.heap.list = h.list
               /\ x \in Word => /\ r.ptr = x /\ r.heap.fault = h.fault
                                /\ r.heap.mem = [h.mem EXCEPT ![List(c)] = h.mem[x],
                                                     ![BytesUsed(c)] = h.mem[BytesUsed(c)] + Buckets[b]]
               /\ x \notin Word => r.heap.fault
<1>1. PICK r, x : r = Pop(h, c, Buckets[b]) /\ x = h.mem[List(c)] OBVIOUS
<1>2. h.mem \in [Word -> Int] /\ Buckets[b] \in Int BY HeapParts, ConstantTypes
<1>3. CASE x \notin Word
  <2>1. r = [heap |-> [h EXCEPT !.fault = TRUE], ptr |-> Null, done |-> TRUE] BY <1>1, <1>3 DEF Pop, Wild
  <2>2. PICK w : w = [h EXCEPT !.fault = TRUE] OBVIOUS
  <2>3. w \in HeapType /\ w.fault /\ w.free = h.free /\ w.list = h.list BY <2>2 DEF HeapType
  <2>4. r.heap = w /\ r.ptr = Null /\ r.done BY <2>1, <2>2
  <2> QED BY <1>1, <1>3, <2>3, <2>4
<1>4. CASE x \in Word
  <2>1. PICK m : m = [h.mem EXCEPT ![List(c)] = h.mem[x],
                                   ![BytesUsed(c)] = h.mem[BytesUsed(c)] + Buckets[b]]
    OBVIOUS
  <2>2. PICK w : w = [h EXCEPT !.mem = m] OBVIOUS
  <2>3. h.mem[x] \in Int /\ h.mem[BytesUsed(c)] + Buckets[b] \in Int BY <1>2, <1>4 DEF BytesUsed
  <2>4. m \in [Word -> Int] BY <1>2, <2>1, <2>3
  <2>5. w \in HeapType /\ w.mem = m /\ w.fault = h.fault /\ w.free = h.free /\ w.list = h.list
    BY <2>2, <2>4 DEF HeapType
  <2>6. [h EXCEPT !.mem[List(c)] = h.mem[x], !.mem[BytesUsed(c)] = h.mem[BytesUsed(c)] + Buckets[b]] = w
    BY <2>1, <2>2 DEF HeapType
  <2>7. r = [heap |-> w, ptr |-> x, done |-> TRUE]
    BY <1>1, <1>4, <2>6 DEF Pop, BytesAfterPop
  <2>8. r.heap = w /\ r.ptr = x /\ r.done BY <2>7
  <2> QED BY <1>1, <1>4, <2>1, <2>5, <2>8
<1> QED BY <1>3, <1>4

\* Places that are in traversal order, with a ChunkPtr at each.
ArePlaces(chunks) ==
    /\ DOMAIN chunks \in SUBSET (Nat \X Nat)
    /\ \A e \in DOMAIN chunks : chunks[e] \in Word /\ List(chunks[e]) \in Word

LEMMA HeadersTyped ==
    ASSUME NEW m \in PageStart
    PROVE  ArePlaces(ChunkHeaders(m))
<1>1. PICK p \in Page : m = Base(p) BY DEF PageStart
<1>2. ChunkHeaders(m) = [e \in {1} \X (1..ChunkCount) |-> m + 2 * e[2]] BY DEF ChunkHeaders
<1>3. DOMAIN ChunkHeaders(m) \in SUBSET (Nat \X Nat) BY <1>2
<1>4. ASSUME NEW e \in DOMAIN ChunkHeaders(m)
      PROVE  ChunkHeaders(m)[e] \in Word /\ List(ChunkHeaders(m)[e]) \in Word
  <2>1. e[2] \in 1..ChunkCount /\ ChunkHeaders(m)[e] = Base(p) + 2 * e[2] BY <1>1, <1>2
  <2> QED BY <2>1, ChunkWords DEF BytesUsed
<1> QED BY <1>3, <1>4 DEF ArePlaces

LEMMA ChunksTyped ==
    ASSUME NEW h \in HeapType, NEW b \in Bucket
    PROVE  ArePlaces(Chunks(h, b))
<1>1. PICK ms, I : ms = MetadataList(h, b) /\ I = {i \in Page : ms[i] \in PageStart} OBVIOUS
<1>2. PICK cs : cs = Chunks(h, b) OBVIOUS
<1>3. cs = [e \in I \X (1..ChunkCount) |-> ms[e[1]] + 2 * e[2]] BY <1>1, <1>2 DEF Chunks
<1>4. DOMAIN cs \in SUBSET (Nat \X Nat) BY <1>1, <1>3 DEF Page
<1>5. ASSUME NEW e \in DOMAIN cs PROVE cs[e] \in Word /\ List(cs[e]) \in Word
  <2>1. e[1] \in I /\ e[2] \in 1..ChunkCount /\ cs[e] = ms[e[1]] + 2 * e[2] BY <1>3
  <2>2. PICK p \in Page : ms[e[1]] = Base(p) BY <1>1, <2>1 DEF PageStart
  <2>3. cs[e] = Base(p) + 2 * e[2] BY <2>1, <2>2
  <2> QED BY <2>1, <2>3, ChunkWords DEF BytesUsed
<1> QED BY <1>2, <1>4, <1>5 DEF ArePlaces

LEMMA LastTyped ==
    ASSUME NEW h \in HeapType, NEW b \in Bucket, h.list[b] \in PageStart
    PROVE  LastMetadata(h, b) \in PageStart
<1>1. PICK ms : ms = MetadataList(h, b) OBVIOUS
<1>2. NumPages \in Nat /\ NumPages >= 1 BY ConstantTypes
<1>3. Trail(ms, h.mem, PageStart, h.list[b], NumPages) BY <1>1, <1>2, FollowedIs DEF MetadataList
<1>4. ms[1] \in PageStart BY <1>2, <1>3 DEF Trail
<1> DEFINE Stops == {i \in Page : i = NumPages \/ ms[i + 1] \notin PageStart}
<1>5. Stops \in SUBSET Nat /\ NumPages \in Stops BY <1>2 DEF Page
<1>6. PICK k \in Stops : \A j \in Stops : k <= j BY <1>5, LeastNumber
<1>7. ms[k] \in PageStart
  <2>1. CASE k = 1 BY <1>4, <2>1
  <2>2. CASE k # 1
    <3>1. k \in Page /\ k \in Nat BY <1>5, <1>6
    <3>2. k - 1 \in Page /\ k - 1 < k /\ k - 1 # NumPages /\ (k - 1) + 1 = k BY <1>2, <2>2, <3>1 DEF Page
    <3>3. k - 1 \notin Stops BY <1>6, <3>1, <3>2
    <3> QED BY <3>2, <3>3
  <2> QED BY <2>1, <2>2
<1>8. \E i \in Page : ms[i] \in PageStart /\ (i = NumPages \/ ms[i + 1] \notin PageStart) BY <1>6, <1>7
<1> QED BY <1>1, <1>8 DEF LastMetadata

\* What alloc_from_chunk finds: nothing, a chunk with a list, or one without.
FindsNone(h, chunks, r) ==
    /\ r = [heap |-> h, ptr |-> Null, done |-> FALSE]
    /\ \A e \in DOMAIN chunks : h.mem[List(chunks[e])] # Null /\ h.mem[BytesUsed(chunks[e])] = PageWords
FindsList(h, b, c, r) ==
    h.mem[List(c)] # Null /\ h.mem[BytesUsed(c)] # PageWords /\ r = Pop(h, c, Buckets[b])
FindsUnused(h, b, c, r) ==
    /\ h.mem[List(c)] = Null
    /\ \/ Pmm!FirstFit(h.free, 1) = {} /\ r = [heap |-> h, ptr |-> Null, done |-> TRUE]
       \/ \E p \in Pmm!FirstFit(h.free, 1) : r = Pop(InitChunk(h, c, Buckets[b], p), c, Buckets[b])

LEMMA AllocFromChunkIs ==
    ASSUME NEW h \in HeapType, NEW b \in Bucket, NEW chunks, ArePlaces(chunks),
           NEW r, r = AllocFromChunk(h, chunks, Buckets[b])
    PROVE  \/ FindsNone(h, chunks, r)
           \/ \E e \in DOMAIN chunks : FindsList(h, b, chunks[e], r) \/ FindsUnused(h, b, chunks[e], r)
<1>1. PICK fit : fit = {e \in DOMAIN chunks : h.mem[List(chunks[e])] = Null \/ ~IsFull(h, chunks[e])}
    OBVIOUS
<1>2. PICK pages : pages = Pmm!FirstFit(h.free, 1) OBVIOUS
<1>3. PICK f, c : f = FirstOf(fit) /\ c = chunks[f] OBVIOUS
<1>4. r = IF fit = {} THEN [heap |-> h, ptr |-> Null, done |-> FALSE]
          ELSE IF h.mem[List(c)] # Null THEN Pop(h, c, Buckets[b])
          ELSE IF pages = {} THEN [heap |-> h, ptr |-> Null, done |-> TRUE]
          ELSE Pop(InitChunk(h, c, Buckets[b], CHOOSE p \in pages : TRUE), c, Buckets[b])
    BY <1>1, <1>2, <1>3 DEF AllocFromChunk
<1>5. CASE fit = {} BY <1>1, <1>4, <1>5 DEF IsFull, FindsNone
<1>6. CASE fit # {}
  <2>1. fit \in SUBSET (Nat \X Nat) BY <1>1 DEF ArePlaces
  <2>2. f \in fit BY <1>3, <1>6, <2>1, FirstOfIn
  <2>3. f \in DOMAIN chunks /\ (h.mem[List(c)] = Null \/ h.mem[BytesUsed(c)] # PageWords)
    BY <1>1, <1>3, <2>2 DEF IsFull
  <2>4. CASE h.mem[List(c)] # Null BY <1>3, <1>4, <1>6, <2>3, <2>4 DEF FindsList
  <2>5. CASE h.mem[List(c)] = Null /\ pages = {} BY <1>2, <1>3, <1>4, <1>6, <2>3, <2>5 DEF FindsUnused
  <2>6. CASE h.mem[List(c)] = Null /\ pages # {}
    <3>1. PICK p : p = CHOOSE q \in pages : TRUE OBVIOUS
    <3>2. p \in pages BY <2>6, <3>1
    <3>3. r = Pop(InitChunk(h, c, Buckets[b], p), c, Buckets[b]) BY <1>4, <1>6, <2>6, <3>1
    <3> QED BY <1>2, <1>3, <2>3, <2>6, <3>2, <3>3 DEF FindsUnused
  <2> QED BY <2>4, <2>5, <2>6
<1> QED BY <1>5, <1>6

LEMMA AllocFromChunkTyped ==
    ASSUME NEW h \in HeapType, NEW b \in Bucket, NEW chunks, ArePlaces(chunks),
           NEW r, r = AllocFromChunk(h, chunks, Buckets[b])
    PROVE  r.heap \in HeapType /\ r.ptr \in {Null} \cup Word /\ r.done \in BOOLEAN /\ r.heap.list = h.list
<1>1. ASSUME NEW k \in HeapType, k.list = h.list, NEW e \in DOMAIN chunks, r = Pop(k, chunks[e], Buckets[b])
      PROVE  r.heap \in HeapType /\ r.ptr \in {Null} \cup Word /\ r.done \in BOOLEAN /\ r.heap.list = h.list
  <2>1. PICK c : c = chunks[e] OBVIOUS
  <2>2. c \in Word /\ List(c) \in Word BY <2>1 DEF ArePlaces
  <2>3. PICK v : v = Pop(k, c, Buckets[b]) OBVIOUS
  <2>4. v.heap \in HeapType /\ v.ptr \in {Null} \cup Word /\ v.done /\ v.heap.list = k.list
    BY <1>1, <2>2, <2>3, PopIs
  <2> QED BY <1>1, <2>1, <2>3, <2>4
<1>2. CASE r = [heap |-> h, ptr |-> Null, done |-> FALSE] BY <1>2
<1>3. CASE \E e \in DOMAIN chunks : r = Pop(h, chunks[e], Buckets[b]) BY <1>1, <1>3
<1>4. CASE r = [heap |-> h, ptr |-> Null, done |-> TRUE] BY <1>4
<1>5. CASE \E e \in DOMAIN chunks : \E p \in Pmm!FirstFit(h.free, 1) :
              r = Pop(InitChunk(h, chunks[e], Buckets[b], p), chunks[e], Buckets[b])
  <2>1. PICK e \in DOMAIN chunks : \E p \in Pmm!FirstFit(h.free, 1) :
              r = Pop(InitChunk(h, chunks[e], Buckets[b], p), chunks[e], Buckets[b])
      BY <1>5
  <2>2. PICK p \in Pmm!FirstFit(h.free, 1) : r = Pop(InitChunk(h, chunks[e], Buckets[b], p), chunks[e], Buckets[b])
      BY <2>1
  <2>3. p \in Page BY FitIsFree, HeapParts
  <2>4. chunks[e] \in Word BY DEF ArePlaces
  <2>5. PICK k : k = InitChunk(h, chunks[e], Buckets[b], p) OBVIOUS
  <2>6. k \in HeapType /\ k.list = h.list BY <2>3, <2>4, <2>5, InitChunkIs
  <2> QED BY <1>1, <2>2, <2>5, <2>6
<1>6. \/ FindsNone(h, chunks, r)
      \/ \E e \in DOMAIN chunks : FindsList(h, b, chunks[e], r) \/ FindsUnused(h, b, chunks[e], r)
    BY AllocFromChunkIs
<1> QED BY <1>2, <1>3, <1>4, <1>5, <1>6 DEF FindsNone, FindsList, FindsUnused

(***************************************************************************)
(* alloc, until a page goes back.                                          *)
(***************************************************************************)

\* The PMM gives the highest free pages.
LEMMA FirstFitIs ==
    ASSUME NEW top \in Nat, NEW n \in Nat, n >= 1, NEW p \in Pmm!FirstFit(1..top, n)
    PROVE  p \in 1..top /\ p + n = top + 1 /\ Run(p, n) = p..top /\ (1..top) \ Run(p, n) = 1..(p - 1)
<1>1. p \in 1..top /\ p..(p + n - 1) \subseteq 1..top /\ p + n \notin 1..top BY DEF Pmm!FirstFit, Pmm!Run
<1>2. p + n - 1 \in p..(p + n - 1) BY <1>1
<1>3. p + n = top + 1 BY <1>1, <1>2
<1> QED BY <1>1, <1>3 DEF Run, Pmm!Run

LEMMA OnePage ==
    ASSUME NEW h, NEW hl, NEW g, Sound(h, hl, g)
    PROVE  /\ Pmm!FirstFit(h.free, 1) = {} => h.free = {}
           /\ \A p \in Pmm!FirstFit(h.free, 1) : /\ p \in Page /\ h.free = 1..p
                                                 /\ h.free \ Run(p, 1) = 1..(p - 1)
                                                 /\ p \notin h.free \ Run(p, 1)
<1>1. PICK top \in 0..NumPages : h.free = 1..top BY DEF Sound, FreeBelow
<1>2. NumPages \in Nat /\ top \in Nat BY ConstantTypes
<1>3. ASSUME top # 0 PROVE top \in Pmm!FirstFit(1..top, 1)
  <2>1. top \in 1..top /\ top..(top + 1 - 1) \subseteq 1..top /\ top + 1 \notin 1..top BY <1>2, <1>3
  <2>2. \A q \in 1..top : q..top \subseteq 1..top BY <1>2
  <2> QED BY <2>1, <2>2 DEF Pmm!FirstFit, Pmm!Run
<1>4. Pmm!FirstFit(h.free, 1) = {} => h.free = {} BY <1>1, <1>2, <1>3
<1>5. ASSUME NEW p \in Pmm!FirstFit(h.free, 1)
      PROVE  p \in Page /\ h.free = 1..p /\ h.free \ Run(p, 1) = 1..(p - 1) /\ p \notin h.free \ Run(p, 1)
  <2>1. p \in 1..top /\ p + 1 = top + 1 /\ (1..top) \ Run(p, 1) = 1..(p - 1) BY <1>1, <1>2, <1>5, FirstFitIs
  <2>2. p = top /\ p \in Page BY <1>1, <1>2, <2>1 DEF Page
  <2> QED BY <1>1, <2>1, <2>2
<1> QED BY <1>4, <1>5

\* From h to h2 only words of metadata and of free pages change, and the first word of
\* the page above one that was taken.
Spares(h, g, h2) ==
    /\ h2.free \subseteq h.free
    /\ \A a \in Word : \/ h2.mem[a] = h.mem[a]
                       \/ g.use[PageOf(a)] = "meta"
                       \/ PageOf(a) \in h.free
                       \/ a % PageWords = 0 /\ PageOf(a) - 1 \in h.free \ h2.free

LEMMA PopKeeps ==
    ASSUME NEW h, NEW hl, NEW g, Sound(h, hl, g), NEW b \in Bucket, NEW c, IsChunk(g, b, c),
           g.low[c] < g.left[c], NEW r, r = Pop(h, c, Buckets[b])
    PROVE  /\ r.done /\ r.ptr # Null /\ Spares(h, g, r.heap) /\ r.heap.free = h.free
           /\ \E g2 : Sound(r.heap, hl, g2) /\ Loose(hl, g2, b, r.ptr)
<1>1. /\ c \in Word /\ BytesUsed(c) \in Word /\ List(c) \in Word
      /\ PageOf(BytesUsed(c)) = PageOf(c) /\ PageOf(List(c)) = PageOf(c)
      /\ UsedFor(g, PageOf(c), "meta", b)
  BY ChunkLies
<1>2. g.use[PageOf(c)] = "meta" BY <1>1 DEF UsedFor
<1>3. PICK x : x = h.mem[List(c)] OBVIOUS
<1>4. ChunkIs(h, g, b, c) BY <1>1 DEF Sound, ChunksAre
<1>5. x = g.node[c][g.left[c]] BY <1>3, <1>4 DEF ChunkIs
<1>6. g \in Layouts /\ h \in HeapType /\ ~h.fault BY DEF Sound
<1>7. x \in Word BY <1>1, <1>5, <1>6, LayoutParts
<1>8. /\ r.heap \in HeapType /\ r.done /\ r.ptr = x /\ r.heap.free = h.free /\ r.heap.list = h.list
      /\ r.heap.fault = h.fault
      /\ r.heap.mem = [h.mem EXCEPT ![List(c)] = h.mem[x],
                                    ![BytesUsed(c)] = h.mem[BytesUsed(c)] + Buckets[b]]
  BY <1>1, <1>3, <1>6, <1>7, PopIs
<1>9. PICK k : k = r.heap OBVIOUS
<1>10. \E g2 : Sound(k, hl, g2) /\ Loose(hl, g2, b, x) /\ g2.use = g.use /\ g2.of = g.of
  BY <1>3, <1>6, <1>8, <1>9, PopBlock
<1>11. x # Null BY <1>7, PageStarts
<1>12. h.mem \in [Word -> Int] BY <1>6, HeapParts
<1>13. ASSUME NEW a \in Word PROVE k.mem[a] = h.mem[a] \/ g.use[PageOf(a)] = "meta"
  <2>1. CASE a = List(c) \/ a = BytesUsed(c) BY <1>1, <1>2, <2>1
  <2>2. CASE a # List(c) /\ a # BytesUsed(c) BY <1>8, <1>9, <1>12, <2>2
  <2> QED BY <2>1, <2>2
<1>14. Spares(h, g, k) BY <1>8, <1>9, <1>13 DEF Spares
<1> QED BY <1>8, <1>9, <1>10, <1>11, <1>14

\* One change after another.
LEMMA SparesTwice ==
    ASSUME NEW h, NEW g, NEW h2, NEW g2, NEW h3, NEW pages, Spares(h, g, h2), Spares(h2, g2, h3),
           SameUse(g, g2, pages), pages \subseteq h.free
    PROVE  Spares(h, g, h3)
<1>1. h2.free \subseteq h.free /\ h3.free \subseteq h2.free BY DEF Spares
<1>2. ASSUME NEW a \in Word
      PROVE  \/ h3.mem[a] = h.mem[a]
             \/ g.use[PageOf(a)] = "meta"
             \/ PageOf(a) \in h.free
             \/ a % PageWords = 0 /\ PageOf(a) - 1 \in h.free \ h3.free
  <2>1. PageOf(a) \in Page BY WordPage
  <2>2. g2.use[PageOf(a)] = "meta" => g.use[PageOf(a)] = "meta" \/ PageOf(a) \in h.free
    BY <2>1 DEF SameUse
  <2>3. \/ h2.mem[a] = h.mem[a] \/ g.use[PageOf(a)] = "meta" \/ PageOf(a) \in h.free
        \/ a % PageWords = 0 /\ PageOf(a) - 1 \in h.free \ h2.free
    BY DEF Spares
  <2>4. \/ h3.mem[a] = h2.mem[a] \/ g2.use[PageOf(a)] = "meta" \/ PageOf(a) \in h2.free
        \/ a % PageWords = 0 /\ PageOf(a) - 1 \in h2.free \ h3.free
    BY DEF Spares
  <2> QED BY <1>1, <2>2, <2>3, <2>4
<1> QED BY <1>1, <1>2 DEF Spares

\* A chunk with a list that is not full has a block that was not cut off.
LEMMA HasBlock ==
    ASSUME NEW h, NEW hl, NEW g, Sound(h, hl, g), NEW b \in Bucket, NEW c, IsChunk(g, b, c),
           h.mem[List(c)] # Null, h.mem[BytesUsed(c)] # PageWords
    PROVE  g.low[c] < g.left[c]
<1>1. c \in Word BY DEF IsChunk
<1>2. ChunkIs(h, g, b, c) BY <1>1 DEF Sound, ChunksAre
<1>3. g.low[c] \in Nat /\ g.left[c] \in Nat BY <1>1, LayoutParts DEF Sound
<1>4. Buckets[b] \in Nat /\ h.mem[BytesUsed(c)] \in Int BY <1>1, ConstantTypes, HeapParts DEF Sound, BytesUsed
<1>5. CASE g.low[c] = g.left[c] /\ g.low[c] > 0 BY <1>2, <1>5 DEF ChunkIs
<1>6. CASE g.left[c] = 0
  <2>1. h.mem[BytesUsed(c)] + Buckets[b] * 0 = PageWords BY <1>2, <1>6 DEF ChunkIs
  <2> QED BY <1>4, <2>1
<1>7. g.low[c] <= g.left[c] BY <1>2 DEF ChunkIs
<1> QED BY <1>3, <1>5, <1>6, <1>7

LEMMA InitKeeps ==
    ASSUME NEW h, NEW hl, NEW g, Sound(h, hl, g), NEW b \in Bucket, NEW c, IsChunk(g, b, c),
           NEW p \in Pmm!FirstFit(h.free, 1), NEW r, r = Pop(InitChunk(h, c, Buckets[b], p), c, Buckets[b])
    PROVE  /\ r.done /\ r.ptr # Null /\ Spares(h, g, r.heap)
           /\ \E g2 : Sound(r.heap, hl, g2) /\ Loose(hl, g2, b, r.ptr)
<1>1. p \in Page /\ h.free = 1..p /\ h.free \ Run(p, 1) = 1..(p - 1) /\ p \notin h.free \ Run(p, 1)
  BY OnePage
<1>2. PICK h1 : h1 = InitChunk(h, c, Buckets[b], p) OBVIOUS
<1>0. c \in Word /\ p \in Page /\ h \in HeapType BY <1>1 DEF IsChunk, Sound
<1>3. /\ c \in Word /\ BytesUsed(c) \in Word /\ List(c) \in Word
      /\ PageOf(BytesUsed(c)) = PageOf(c) /\ PageOf(List(c)) = PageOf(c)
      /\ UsedFor(g, PageOf(c), "meta", b)
  BY ChunkLies
<1>4. h \in HeapType /\ ~h.fault BY DEF Sound
<1>5. h1 \in HeapType /\ h1.list = h.list /\ h1.fault = h.fault /\ h1.free = h.free \ Run(p, 1)
  BY <1>0, <1>2, InitChunkIs
<1>14. \A a \in Word : h1.mem[a] = IF a = BytesUsed(c) THEN 0
                                     ELSE IF a = List(c) THEN Base(p)
                                     ELSE IF a = Base(p + 1) THEN Null
                                     ELSE IF PageOf(a) = p /\ a % Buckets[b] = 0 THEN a + Buckets[b]
                                     ELSE h.mem[a]
  BY <1>0, <1>2, InitChunkIs
<1>6. PICK g1 : Sound(h1, hl, g1) /\ IsChunk(g1, b, c) /\ g1.low[c] < g1.left[c] /\ SameUse(g, g1, {p})
  BY <1>1, <1>4, <1>5, <1>14, InitFresh
<1>7. r = Pop(h1, c, Buckets[b]) BY <1>2
<1>8. /\ r.done /\ r.ptr # Null /\ Spares(h1, g1, r.heap)
      /\ \E g2 : Sound(r.heap, hl, g2) /\ Loose(hl, g2, b, r.ptr)
  BY <1>6, <1>7, PopKeeps
<1>9. p \in h.free /\ h1.free \subseteq h.free /\ p \notin h1.free
  <2>1. p \in Nat /\ p >= 1 BY <1>1, ConstantTypes DEF Page
  <2>2. p \in h.free BY <1>1, <2>1
  <2> QED BY <1>1, <1>5, <2>2
<1>10. g.use[PageOf(c)] = "meta" BY <1>3 DEF UsedFor
<1>11. ASSUME NEW a \in Word
       PROVE  \/ h1.mem[a] = h.mem[a] \/ g.use[PageOf(a)] = "meta" \/ PageOf(a) \in h.free
              \/ a % PageWords = 0 /\ PageOf(a) - 1 \in h.free \ h1.free
  <2>1. CASE a = BytesUsed(c) \/ a = List(c) BY <1>3, <1>10, <2>1
  <2>2. CASE a = Base(p + 1)
    <3>1. p \in Nat /\ PageWords \in Nat /\ PageWords >= 4 BY <1>1, ConstantTypes DEF Page
    <3>2. a = (p + 1) * PageWords BY <2>2 DEF Base
    <3>3. a % PageWords = 0 /\ a \div PageWords = p + 1 BY <3>1, <3>2
    <3>4. PageOf(a) - 1 = p BY <3>1, <3>3 DEF PageOf
    <3> QED BY <1>9, <3>3, <3>4
  <2>3. CASE PageOf(a) = p BY <1>9, <2>3
  <2>4. CASE a # BytesUsed(c) /\ a # List(c) /\ a # Base(p + 1) /\ PageOf(a) # p BY <1>14, <2>4
  <2> QED BY <2>1, <2>2, <2>3, <2>4
<1>12. Spares(h, g, h1) BY <1>9, <1>11 DEF Spares
<1>13. Spares(h, g, r.heap)
  <2>1. {p} \subseteq h.free BY <1>9
  <2> QED BY <1>6, <1>8, <1>12, <2>1, SparesTwice
<1> QED BY <1>8, <1>13

\* alloc_from_chunk, offered chunks of the bucket.
LEMMA AllocFromChunkKeeps ==
    ASSUME NEW h, NEW hl, NEW g, Sound(h, hl, g), NEW b \in Bucket, NEW chunks, ArePlaces(chunks),
           \A e \in DOMAIN chunks : IsChunk(g, b, chunks[e]), NEW r, r = AllocFromChunk(h, chunks, Buckets[b])
    PROVE  \/ FindsNone(h, chunks, r)
           \/ r.done /\ r.ptr = Null /\ r.heap = h /\ h.free = {}
           \/ /\ r.done /\ r.ptr # Null /\ Spares(h, g, r.heap)
              /\ \E g2 : Sound(r.heap, hl, g2) /\ Loose(hl, g2, b, r.ptr)
<1>1. h \in HeapType BY DEF Sound
<1>2. CASE FindsNone(h, chunks, r) BY <1>2
<1>3. ASSUME NEW c, IsChunk(g, b, c), FindsList(h, b, c, r)
      PROVE  /\ r.done /\ r.ptr # Null /\ Spares(h, g, r.heap)
             /\ \E g2 : Sound(r.heap, hl, g2) /\ Loose(hl, g2, b, r.ptr)
  <2>1. h.mem[List(c)] # Null /\ h.mem[BytesUsed(c)] # PageWords /\ r = Pop(h, c, Buckets[b])
    BY <1>3 DEF FindsList
  <2>2. g.low[c] < g.left[c] BY <1>3, <2>1, HasBlock
  <2> QED BY <1>3, <2>1, <2>2, PopKeeps
<1>4. ASSUME NEW c, IsChunk(g, b, c), FindsUnused(h, b, c, r)
      PROVE  \/ r.done /\ r.ptr = Null /\ r.heap = h /\ h.free = {}
             \/ /\ r.done /\ r.ptr # Null /\ Spares(h, g, r.heap)
                /\ \E g2 : Sound(r.heap, hl, g2) /\ Loose(hl, g2, b, r.ptr)
  <2>1. CASE Pmm!FirstFit(h.free, 1) = {} /\ r = [heap |-> h, ptr |-> Null, done |-> TRUE]
    <3>1. h.free = {} BY <2>1, OnePage
    <3> QED BY <2>1, <3>1
  <2>2. CASE \E p \in Pmm!FirstFit(h.free, 1) : r = Pop(InitChunk(h, c, Buckets[b], p), c, Buckets[b])
    BY <1>4, <2>2, InitKeeps
  <2> QED BY <1>4, <2>1, <2>2 DEF FindsUnused
<1>5. \/ FindsNone(h, chunks, r)
      \/ \E e \in DOMAIN chunks : FindsList(h, b, chunks[e], r) \/ FindsUnused(h, b, chunks[e], r)
  BY <1>1, AllocFromChunkIs
<1>6. CASE \E e \in DOMAIN chunks : FindsList(h, b, chunks[e], r) \/ FindsUnused(h, b, chunks[e], r)
  <2>1. PICK c : IsChunk(g, b, c) /\ (FindsList(h, b, c, r) \/ FindsUnused(h, b, c, r)) BY <1>6
  <2> QED BY <1>3, <1>4, <2>1
<1> QED BY <1>2, <1>5, <1>6

\* The heap in which alloc_mem looks for a chunk ...
Started(h, b, p) == [Without(h, p, 1) EXCEPT !.list[b] = Base(p)]
Starts(h, b, first) ==
    \/ h.list[b] # Null /\ first = h
    \/ /\ h.list[b] = Null
       /\ \E p \in Pmm!FirstFit(h.free, 1) : first = Started(h, b, p)

\* ... and what it answers, s being what it finds there.
Answers(h, b, first, s, r) ==
    \/ s.done /\ r = s
    \/ ~s.done /\ h.mem[LastMetadata(first, b)] # Null /\ r = [heap |-> Wild(h), ptr |-> Null, done |-> TRUE]
    \/ /\ ~s.done /\ h.mem[LastMetadata(first, b)] = Null
       /\ \E p \in Pmm!FirstFit(h.free, 1) :
             r = AllocFromChunk(Linked(h, LastMetadata(first, b), p), ChunkHeaders(LastMetadata(first, b)), Buckets[b])

LEMMA AllocMemIs ==
    ASSUME NEW h \in HeapType, NEW b \in Bucket, NEW r, r = AllocMem(h, b)
    PROVE  \/ Pmm!FirstFit(h.free, 1) = {} /\ r = [heap |-> h, ptr |-> Null, done |-> TRUE]
           \/ \E first, s : /\ Starts(h, b, first) /\ s = AllocFromChunk(first, Chunks(first, b), Buckets[b])
                            /\ Answers(h, b, first, s, r)
<1>1. PICK pages : pages = Pmm!FirstFit(h.free, 1) OBVIOUS
<1>2. PICK p : p = CHOOSE q \in pages : TRUE OBVIOUS
<1>3. pages # {} => p \in pages BY <1>2
<1>4. PICK first : first = IF h.list[b] # Null THEN h ELSE [Without(h, p, 1) EXCEPT !.list[b] = Base(p)]
  OBVIOUS
<1>5. PICK s, m : s = AllocFromChunk(first, Chunks(first, b), Buckets[b]) /\ m = LastMetadata(first, b)
  OBVIOUS
<1>6. r = IF h.list[b] = Null /\ pages = {} THEN [heap |-> h, ptr |-> Null, done |-> TRUE]
          ELSE IF s.done THEN s
          ELSE IF h.mem[m] # Null THEN [heap |-> Wild(h), ptr |-> Null, done |-> TRUE]
          ELSE IF pages = {} THEN [heap |-> h, ptr |-> Null, done |-> TRUE]
          ELSE AllocFromChunk(Linked(h, m, p), ChunkHeaders(m), Buckets[b])
  BY <1>1, <1>2, <1>4, <1>5 DEF AllocMem
<1>7. CASE h.list[b] = Null /\ pages = {} BY <1>1, <1>6, <1>7
<1>8. CASE ~(h.list[b] = Null /\ pages = {})
  <2>1. Starts(h, b, first) BY <1>1, <1>3, <1>4, <1>8 DEF Starts, Started
  <2>2. CASE s.done
    <3>1. r = s BY <1>6, <1>8, <2>2
    <3>2. Answers(h, b, first, s, r) BY <2>2, <3>1 DEF Answers
    <3> QED BY <1>5, <2>1, <3>2
  <2>3. CASE ~s.done /\ h.mem[m] # Null
    <3>1. r = [heap |-> Wild(h), ptr |-> Null, done |-> TRUE] BY <1>6, <1>8, <2>3
    <3>2. Answers(h, b, first, s, r) BY <1>5, <2>3, <3>1 DEF Answers
    <3> QED BY <1>5, <2>1, <3>2
  <2>4. CASE ~s.done /\ h.mem[m] = Null /\ pages = {} BY <1>1, <1>6, <1>8, <2>4
  <2>5. CASE ~s.done /\ h.mem[m] = Null /\ pages # {}
    <3>1. r = AllocFromChunk(Linked(h, m, p), ChunkHeaders(m), Buckets[b]) BY <1>6, <1>8, <2>5
    <3>2. Answers(h, b, first, s, r) BY <1>1, <1>3, <1>5, <2>5, <3>1 DEF Answers
    <3> QED BY <1>5, <2>1, <3>2
  <2> QED BY <2>2, <2>3, <2>4, <2>5
<1> QED BY <1>7, <1>8

Put(f, x, v) == [f EXCEPT ![x] = v]

LEMMA LinkedIs ==
    ASSUME NEW h \in HeapType, NEW m \in PageStart, NEW p \in Page, NEW h2, h2 = Linked(h, m, p),
           NEW mem, mem = Put(h.mem, m, Base(p))
    PROVE  /\ h2 \in HeapType /\ h2.list = h.list /\ h2.fault = h.fault /\ h2.free = h.free \ Run(p, 1)
           /\ h2.mem = mem
<1>1. PICK w : w = Without(h, p, 1) OBVIOUS
<1>2. w \in HeapType /\ w.mem = h.mem /\ w.list = h.list /\ w.free = h.free \ Run(p, 1) /\ w.fault = h.fault
  BY <1>1, WithoutIs
<1>3. mem = [w.mem EXCEPT ![m] = Base(p)] BY <1>2 DEF Put
<1>4. h2 = [w EXCEPT !.mem = mem] BY <1>1, <1>3 DEF Linked
<1>5. w.mem \in [Word -> Int] /\ Base(p) \in Int BY <1>2, HeapParts, BaseOf
<1>6. mem \in [Word -> Int] BY <1>3, <1>5
<1>7. h2 \in HeapType /\ h2.mem = mem /\ h2.list = w.list /\ h2.free = w.free /\ h2.fault = w.fault
  BY <1>2, <1>4, <1>6 DEF HeapType
<1> QED BY <1>2, <1>3, <1>7

LEMMA StartIs ==
    ASSUME NEW h \in HeapType, NEW b \in Bucket, NEW p \in Page,
           NEW h2, h2 = Started(h, b, p), NEW list, list = Put(h.list, b, Base(p))
    PROVE  /\ h2 \in HeapType /\ h2.mem = h.mem /\ h2.fault = h.fault /\ h2.free = h.free \ Run(p, 1)
           /\ h2.list = list /\ h2.list[b] = Base(p)
<1>1. PICK w : w = Without(h, p, 1) OBVIOUS
<1>2. w \in HeapType /\ w.mem = h.mem /\ w.list = h.list /\ w.free = h.free \ Run(p, 1) /\ w.fault = h.fault
  BY <1>1, WithoutIs
<1>3. list = [w.list EXCEPT ![b] = Base(p)] BY <1>2 DEF Put
<1>4. h2 = [w EXCEPT !.list = list] BY <1>1, <1>3 DEF Started
<1>5. w.list \in [Bucket -> {Null} \cup PageStart] /\ Base(p) \in PageStart BY <1>2, HeapParts, PageStarts
<1>6. list \in [Bucket -> {Null} \cup PageStart] /\ list[b] = Base(p) BY <1>3, <1>5
<1>7. h2 \in HeapType /\ h2.list = list /\ h2.mem = w.mem /\ h2.free = w.free /\ h2.fault = w.fault
  BY <1>2, <1>4, <1>6 DEF HeapType
<1> QED BY <1>2, <1>3, <1>6, <1>7

LEMMA AllocMemTyped ==
    ASSUME NEW h \in HeapType, NEW b \in Bucket, NEW r, r = AllocMem(h, b)
    PROVE  r.heap \in HeapType /\ r.ptr \in {Null} \cup Word
<1>1. CASE r = [heap |-> h, ptr |-> Null, done |-> TRUE] BY <1>1
<1>2. ASSUME NEW first, NEW s, Starts(h, b, first), s = AllocFromChunk(first, Chunks(first, b), Buckets[b]),
             Answers(h, b, first, s, r)
      PROVE  r.heap \in HeapType /\ r.ptr \in {Null} \cup Word
  <2>1. h.free \subseteq Page /\ 1 \in Nat BY HeapParts
  <2>2. \A p \in Pmm!FirstFit(h.free, 1) : p \in Page BY <2>1, FitIsFree
  <2>3. first \in HeapType /\ first.list[b] \in PageStart
    <3>1. CASE h.list[b] # Null /\ first = h
      <4>1. h.list[b] \in {Null} \cup PageStart BY HeapParts
      <4> QED BY <3>1, <4>1
    <3>2. CASE \E p \in Pmm!FirstFit(h.free, 1) : first = Started(h, b, p)
      <4>1. PICK p \in Page : first = Started(h, b, p) BY <2>2, <3>2
      <4>2. PICK list : list = Put(h.list, b, Base(p)) OBVIOUS
      <4>3. first \in HeapType /\ first.list[b] = Base(p) BY <4>1, <4>2, StartIs
      <4> QED BY <4>3, PageStarts
    <3> QED BY <1>2, <3>1, <3>2 DEF Starts
  <2>4. PICK m : m = LastMetadata(first, b) OBVIOUS
  <2>5. m \in PageStart BY <2>3, <2>4, LastTyped
  <2>6. CASE r = s
    <3>1. ArePlaces(Chunks(first, b)) BY <2>3, ChunksTyped
    <3>2. s.heap \in HeapType /\ s.ptr \in {Null} \cup Word BY <1>2, <2>3, <3>1, AllocFromChunkTyped
    <3> QED BY <2>6, <3>2
  <2>7. CASE r = [heap |-> Wild(h), ptr |-> Null, done |-> TRUE]
    <3>1. Wild(h) \in HeapType BY DEF Wild, HeapType
    <3> QED BY <2>7, <3>1
  <2>8. CASE \E p \in Pmm!FirstFit(h.free, 1) : r = AllocFromChunk(Linked(h, m, p), ChunkHeaders(m), Buckets[b])
    <3>1. PICK p \in Page : r = AllocFromChunk(Linked(h, m, p), ChunkHeaders(m), Buckets[b]) BY <2>2, <2>8
    <3>2. PICK k : k = Linked(h, m, p) OBVIOUS
    <3>5. PICK mem : mem = Put(h.mem, m, Base(p)) OBVIOUS
    <3>3. k \in HeapType BY <2>5, <3>2, <3>5, LinkedIs
    <3>4. ArePlaces(ChunkHeaders(m)) BY <2>5, HeadersTyped
    <3> QED BY <3>1, <3>2, <3>3, <3>4, AllocFromChunkTyped
  <2> QED BY <1>2, <2>4, <2>6, <2>7, <2>8 DEF Answers
<1> QED BY <1>1, <1>2, AllocMemIs

\* The first chunk of a page that was free has no list.
LEMMA FreshChunk ==
    ASSUME NEW h, NEW hl, NEW g, Sound(h, hl, g), NEW b \in Bucket, NEW p, p \in h.free,
           NEW g2, UsedFor(g2, p, "meta", b)
    PROVE  \E c : IsChunk(g2, b, c) /\ List(c) \in Word /\ h.mem[List(c)] = Null /\ \A q \in Page : List(c) # Base(q)
<1>1. 1 \in 1..ChunkCount BY ConstantTypes DEF ChunkCount
<1>2. PICK c : c = Base(p) + 2 * 1 OBVIOUS
<1>3. IsChunk(g2, b, c) /\ PageOf(c) = p BY <1>1, <1>2, ChunkOfPage
<1>4. List(c) \in Word /\ PageOf(List(c)) = p /\ \A q \in Page : List(c) # Base(q) BY <1>3, ChunkLies
<1>5. h.mem[List(c)] = 0 BY <1>4 DEF Sound, FreeBelow
<1> QED BY <1>3, <1>4, <1>5 DEF Null

LEMMA StartKeeps ==
    ASSUME NEW h, NEW hl, NEW g, Sound(h, hl, g), NEW b \in Bucket, NEW first, Starts(h, b, first)
    PROVE  \/ first = h /\ h.list[b] # Null
           \/ \E g1, p : /\ Sound(first, hl, g1) /\ Spares(h, g, first) /\ SameUse(g, g1, {p}) /\ p \in h.free
                         /\ \E c : IsChunk(g1, b, c) /\ first.mem[List(c)] = Null
<1>1. CASE h.list[b] # Null /\ first = h BY <1>1
<1>2. CASE h.list[b] = Null /\ \E p \in Pmm!FirstFit(h.free, 1) : first = Started(h, b, p)
  <2>1. PICK p \in Pmm!FirstFit(h.free, 1) : first = Started(h, b, p) BY <1>2
  <2>2. p \in Page /\ h.free = 1..p /\ h.free \ Run(p, 1) = 1..(p - 1) BY <2>1, OnePage
  <2>3. h \in HeapType /\ ~h.fault BY DEF Sound
  <2>4. PICK list : list = Put(h.list, b, Base(p)) OBVIOUS
  <2>5. /\ first \in HeapType /\ first.mem = h.mem /\ first.fault = h.fault /\ first.free = h.free \ Run(p, 1)
        /\ first.list = list
    <3>1. h \in HeapType /\ p \in Page BY <2>2, <2>3
    <3> QED BY <2>1, <2>4, <3>1, StartIs
  <2>6. PICK n : n = g.count[b] OBVIOUS
  <2>7. n = 0
    <3>1. h.list[b] = IF n = 0 THEN Null ELSE Base(g.meta[b][1]) BY <2>6 DEF Sound, MetasLinked
    <3>2. g.meta[b][1] \in Page BY LayoutParts DEF Sound
    <3>3. Base(g.meta[b][1]) # Null BY <3>2, BaseOf
    <3> QED BY <1>2, <3>1, <3>3
  <2>8. PICK g1 : Sound(first, hl, g1) /\ UsedFor(g1, p, "meta", b) /\ SameUse(g, g1, {p})
    BY <2>2, <2>3, <2>4, <2>5, <2>6, <2>7, AddMetadata DEF Put
  <2>9. p \in h.free
    <3>1. p \in Nat /\ p >= 1 BY <2>2, ConstantTypes DEF Page
    <3> QED BY <2>2, <3>1
  <2>10. \E c : IsChunk(g1, b, c) /\ h.mem[List(c)] = Null BY <2>8, <2>9, FreshChunk
  <2>11. Spares(h, g, first) BY <2>5 DEF Spares
  <2> QED BY <2>5, <2>8, <2>9, <2>10, <2>11
<1> QED BY <1>1, <1>2 DEF Starts

\* The next memalloc of bucket b will not return null.
MayRetry(h, g, b) == h.free = {} \/ \E c : IsChunk(g, b, c) /\ h.mem[List(c)] = Null

\* All chunks are full: a Metadata page is added, the last old one is looked at again,
\* and the answer is null.
LEMMA LinkKeeps ==
    ASSUME NEW h, NEW hl, NEW g, Sound(h, hl, g), NEW b \in Bucket, h.list[b] # Null,
           NEW s, FindsNone(h, Chunks(h, b), s), NEW p \in Pmm!FirstFit(h.free, 1),
           NEW m, m = LastMetadata(h, b),
           NEW r, r = AllocFromChunk(Linked(h, m, p), ChunkHeaders(m), Buckets[b])
    PROVE  /\ r.ptr = Null /\ Spares(h, g, r.heap)
           /\ \E g2 : Sound(r.heap, hl, g2) /\ MayRetry(r.heap, g2, b)
<1>1. p \in Page /\ h.free = 1..p /\ h.free \ Run(p, 1) = 1..(p - 1) BY OnePage
<1>2. PICK n : n = g.count[b] OBVIOUS
<1>3. n # 0 BY <1>2 DEF Sound, MetasLinked
<1>4. n \in 0..NumPages /\ NumPages \in Nat BY <1>2, ConstantTypes, MetadataListIs
<1>5. n \in 1..n BY <1>3, <1>4
<1>6. g.meta[b][n] \in Page BY <1>2, <1>5, MetadataListIs
<1>7. m = Base(g.meta[b][n]) /\ m \in PageStart /\ m \in Word BY <1>2, <1>3, <1>6, LastMet, BaseOf, PageStarts
<1>8. h \in HeapType /\ ~h.fault BY DEF Sound
<1>9. PICK h2 : h2 = Linked(h, m, p) OBVIOUS
<1>23. PICK mem : mem = Put(h.mem, m, Base(p)) OBVIOUS
<1>10. /\ h2 \in HeapType /\ h2.list = h.list /\ h2.fault = h.fault /\ h2.free = h.free \ Run(p, 1)
       /\ h2.mem = mem
  <2>1. h \in HeapType /\ p \in Page /\ m \in PageStart BY <1>1, <1>7, <1>8
  <2> QED BY <1>9, <1>23, <2>1, LinkedIs
<1>11. PICK g2 : Sound(h2, hl, g2) /\ UsedFor(g2, p, "meta", b) /\ SameUse(g, g2, {p})
  BY <1>1, <1>2, <1>3, <1>7, <1>8, <1>10, <1>23, AddMetadata DEF Put
<1>12. PICK heads : heads = ChunkHeaders(m) OBVIOUS
<1>24. PICK cs : cs = Chunks(h, b) OBVIOUS
<1>25. Meets(g, b, cs) BY <1>24, ChunksMet
<1>13. h.mem \in [Word -> Int] BY <1>8, HeapParts
<1>14. ASSUME NEW e \in DOMAIN heads
       PROVE  h2.mem[List(heads[e])] # Null /\ h2.mem[BytesUsed(heads[e])] = PageWords
  <2>1. PICK k \in 1..ChunkCount : heads[e] = m + 2 * k BY <1>12 DEF ChunkHeaders
  <2>2. PICK c : c = m + 2 * k OBVIOUS
  <2>3. UsedFor(g, g.meta[b][n], "meta", b) BY <1>2, <1>5 DEF Sound, MetasLinked
  <2>5. IsChunk(g, b, c) BY <1>7, <2>2, <2>3, ChunkOfPage
  <2>4. PICK e2 \in DOMAIN cs : c = cs[e2] BY <1>25, <2>5 DEF Meets
  <2>6. h.mem[List(c)] # Null /\ h.mem[BytesUsed(c)] = PageWords BY <1>24, <2>4 DEF FindsNone
  <2>7. List(c) # m /\ BytesUsed(c) # m /\ List(c) \in Word /\ BytesUsed(c) \in Word
    BY <1>6, <1>7, <2>5, ChunkLies
  <2>8. h2.mem[List(c)] = h.mem[List(c)] /\ h2.mem[BytesUsed(c)] = h.mem[BytesUsed(c)]
    BY <1>7, <1>10, <1>13, <1>23, <2>7 DEF Put
  <2> QED BY <2>1, <2>2, <2>6, <2>8
<1>15. r = AllocFromChunk(h2, heads, Buckets[b]) /\ ArePlaces(heads) BY <1>7, <1>9, <1>12, HeadersTyped
<1>16. FindsNone(h2, heads, r)
  <2>1. \/ FindsNone(h2, heads, r)
        \/ \E e \in DOMAIN heads : FindsList(h2, b, heads[e], r) \/ FindsUnused(h2, b, heads[e], r)
    BY <1>10, <1>15, AllocFromChunkIs
  <2> QED BY <1>14, <2>1 DEF FindsList, FindsUnused
<1>17. r.heap = h2 /\ r.ptr = Null BY <1>16 DEF FindsNone
<1>18. p \in h.free
  <2>1. p \in Nat /\ p >= 1 BY <1>1, ConstantTypes DEF Page
  <2> QED BY <1>1, <2>1
<1>19. PICK c : IsChunk(g2, b, c) /\ List(c) \in Word /\ h.mem[List(c)] = Null /\ \A q \in Page : List(c) # Base(q)
  BY <1>11, <1>18, FreshChunk
<1>20. h2.mem[List(c)] = Null BY <1>6, <1>7, <1>10, <1>13, <1>19, <1>23 DEF Put
<1>21. MayRetry(h2, g2, b) BY <1>19, <1>20 DEF MayRetry
<1>22. Spares(h, g, h2)
  <2>1. PageOf(m) = g.meta[b][n] BY <1>6, <1>7, BaseOf
  <2>2. g.use[PageOf(m)] = "meta" BY <1>2, <1>5, <2>1 DEF Sound, MetasLinked, UsedFor
  <2>3. \A a \in Word : a = m \/ h2.mem[a] = h.mem[a] BY <1>7, <1>10, <1>13, <1>23 DEF Put
  <2> QED BY <1>10, <2>2, <2>3 DEF Spares
<1> QED BY <1>11, <1>17, <1>21, <1>22

\* What alloc_mem does: the heap stays sound, and its answer is a block that is nobody's
\* or a null that the next call does not repeat while there are pages.
Served(h, hl, g, b, r) ==
    /\ Spares(h, g, r.heap)
    /\ \E g2 : /\ Sound(r.heap, hl, g2)
               /\ r.ptr = Null => MayRetry(r.heap, g2, b)
               /\ r.ptr # Null => Loose(hl, g2, b, r.ptr)

LEMMA AllocMemKeeps ==
    ASSUME NEW h, NEW hl, NEW g, Sound(h, hl, g), NEW b \in Bucket, NEW r, r = AllocMem(h, b)
    PROVE  Served(h, hl, g, b, r)
<1>1. h \in HeapType /\ Spares(h, g, h) BY DEF Sound, Spares
<1>2. CASE Pmm!FirstFit(h.free, 1) = {} /\ r = [heap |-> h, ptr |-> Null, done |-> TRUE]
  <2>1. h.free = {} BY <1>2, OnePage
  <2>2. MayRetry(h, g, b) BY <2>1 DEF MayRetry
  <2>3. r.heap = h /\ r.ptr = Null BY <1>2
  <2> QED BY <1>1, <2>2, <2>3 DEF Served
<1>3. ASSUME NEW first, NEW s, Starts(h, b, first), s = AllocFromChunk(first, Chunks(first, b), Buckets[b]),
             Answers(h, b, first, s, r)
      PROVE  Served(h, hl, g, b, r)
  <2>1. PICK g1 : /\ Sound(first, hl, g1) /\ Spares(h, g, first)
                  /\ \E pages : SameUse(g, g1, pages) /\ pages \subseteq h.free
                  /\ \/ first = h /\ g1 = g /\ h.list[b] # Null
                     \/ \E c : IsChunk(g1, b, c) /\ first.mem[List(c)] = Null
    <3>1. CASE first = h /\ h.list[b] # Null
      <4>1. SameUse(g, g, {}) /\ {} \subseteq h.free BY DEF SameUse
      <4> QED BY <1>1, <3>1, <4>1
    <3>2. CASE ~(first = h /\ h.list[b] # Null)
      <4>0. \/ first = h /\ h.list[b] # Null
            \/ \E g1, p : /\ Sound(first, hl, g1) /\ Spares(h, g, first) /\ SameUse(g, g1, {p}) /\ p \in h.free
                          /\ \E c : IsChunk(g1, b, c) /\ first.mem[List(c)] = Null
        BY <1>3, StartKeeps
      <4>1. PICK g1, p : /\ Sound(first, hl, g1) /\ Spares(h, g, first) /\ SameUse(g, g1, {p}) /\ p \in h.free
                         /\ \E c : IsChunk(g1, b, c) /\ first.mem[List(c)] = Null
        BY <3>2, <4>0
      <4>2. {p} \subseteq h.free BY <4>1
      <4> QED BY <4>1, <4>2
    <3> QED BY <3>1, <3>2
  <2>2. PICK cs : cs = Chunks(first, b) OBVIOUS
  <2>3. Meets(g1, b, cs) BY <2>1, <2>2, ChunksMet
  <2>4. first \in HeapType BY <2>1 DEF Sound
  <2>5. ArePlaces(cs) BY <2>2, <2>4, ChunksTyped
  <2>6. s = AllocFromChunk(first, cs, Buckets[b]) BY <1>3, <2>2
  <2>7. \A e \in DOMAIN cs : IsChunk(g1, b, cs[e]) BY <2>3 DEF Meets
  <2>8. \/ FindsNone(first, cs, s)
        \/ s.done /\ s.ptr = Null /\ s.heap = first /\ first.free = {}
        \/ /\ s.done /\ s.ptr # Null /\ Spares(first, g1, s.heap)
           /\ \E g2 : Sound(s.heap, hl, g2) /\ Loose(hl, g2, b, s.ptr)
    BY <2>1, <2>5, <2>6, <2>7, AllocFromChunkKeeps
  <2>9. CASE FindsNone(first, cs, s)
    <3>1. ~s.done BY <2>9 DEF FindsNone
    <3>2. ASSUME NEW c, IsChunk(g1, b, c) PROVE first.mem[List(c)] # Null
      <4>1. PICK e \in DOMAIN cs : c = cs[e] BY <2>3, <3>2 DEF Meets
      <4> QED BY <2>9, <4>1 DEF FindsNone
    <3>3. first = h /\ g1 = g /\ h.list[b] # Null BY <2>1, <3>2
    <3>4. PICK m : m = LastMetadata(h, b) OBVIOUS
    <3>5. h.mem[m] = Null
      <4>1. PICK n : n = g.count[b] OBVIOUS
      <4>2. n # 0 BY <3>3, <4>1 DEF Sound, MetasLinked
      <4>3. n \in Nat BY <4>1, LayoutParts DEF Sound
      <4>4. n \in 1..n BY <4>2, <4>3
      <4>5. m = Base(g.meta[b][n]) BY <3>4, <4>1, <4>2, LastMet
      <4> QED BY <4>1, <4>4, <4>5 DEF Sound, MetasLinked
    <3>6. PICK p \in Pmm!FirstFit(h.free, 1) : r = AllocFromChunk(Linked(h, m, p), ChunkHeaders(m), Buckets[b])
      BY <1>3, <3>1, <3>3, <3>4, <3>5 DEF Answers
    <3>7. FindsNone(h, Chunks(h, b), s) BY <2>2, <2>9, <3>3
    <3>8. /\ r.ptr = Null /\ Spares(h, g, r.heap)
          /\ \E g2 : Sound(r.heap, hl, g2) /\ MayRetry(r.heap, g2, b)
      BY <3>3, <3>4, <3>6, <3>7, LinkKeeps
    <3> QED BY <3>8 DEF Served
  <2>10. CASE s.done /\ s.ptr = Null /\ s.heap = first /\ first.free = {}
    <3>1. r = s BY <1>3, <2>10 DEF Answers
    <3>2. MayRetry(first, g1, b) BY <2>10 DEF MayRetry
    <3> QED BY <2>1, <2>10, <3>1, <3>2 DEF Served
  <2>11. CASE /\ s.done /\ s.ptr # Null /\ Spares(first, g1, s.heap)
              /\ \E g2 : Sound(s.heap, hl, g2) /\ Loose(hl, g2, b, s.ptr)
    <3>1. r = s BY <1>3, <2>11 DEF Answers
    <3>2. PICK pages : SameUse(g, g1, pages) /\ pages \subseteq h.free BY <2>1
    <3>3. Spares(h, g, s.heap) BY <2>1, <2>11, <3>2, SparesTwice
    <3> QED BY <2>11, <3>1, <3>3 DEF Served
  <2> QED BY <2>8, <2>9, <2>10, <2>11
<1>4. \/ Pmm!FirstFit(h.free, 1) = {} /\ r = [heap |-> h, ptr |-> Null, done |-> TRUE]
      \/ \E first, s : /\ Starts(h, b, first) /\ s = AllocFromChunk(first, Chunks(first, b), Buckets[b])
                       /\ Answers(h, b, first, s, r)
  BY <1>1, AllocMemIs
<1> QED BY <1>2, <1>3, <1>4

\* With a chunk that has no list, or no pages, the answer is no null or there are no pages.
LEMMA RetryServes ==
    ASSUME NEW h, NEW hl, NEW g, Sound(h, hl, g), NEW b \in Bucket, MayRetry(h, g, b), h.free # {}
    PROVE  AllocMem(h, b).ptr # Null
<1>1. PICK c : IsChunk(g, b, c) /\ h.mem[List(c)] = Null BY DEF MayRetry
<1>2. PICK r : r = AllocMem(h, b) OBVIOUS
<1>3. h \in HeapType BY DEF Sound
<1>4. Pmm!FirstFit(h.free, 1) # {} BY OnePage
<1>5. PICK first, s : /\ Starts(h, b, first) /\ s = AllocFromChunk(first, Chunks(first, b), Buckets[b])
                      /\ Answers(h, b, first, s, r)
  BY <1>2, <1>3, <1>4, AllocMemIs
<1>6. h.list[b] # Null
  <2>1. UsedFor(g, PageOf(c), "meta", b) /\ PageOf(c) \in Page BY <1>1 DEF IsChunk, UsedFor
  <2>2. PICK i \in 1..g.count[b] : PageOf(c) = g.meta[b][i] BY <2>1 DEF Sound, MetasLinked
  <2>3. g.count[b] # 0 BY LayoutParts DEF Sound
  <2>4. h.list[b] = Base(g.meta[b][1]) BY <2>3 DEF Sound, MetasLinked
  <2>5. g.meta[b][1] \in Page BY LayoutParts DEF Sound
  <2> QED BY <2>4, <2>5, BaseOf
<1>7. first = h BY <1>5, <1>6 DEF Starts
<1>8. PICK cs : cs = Chunks(h, b) OBVIOUS
<1>9. Meets(g, b, cs) BY <1>8, ChunksMet
<1>10. ArePlaces(cs) BY <1>3, <1>8, ChunksTyped
<1>11. s = AllocFromChunk(h, cs, Buckets[b]) BY <1>5, <1>7, <1>8
<1>12. \A e \in DOMAIN cs : IsChunk(g, b, cs[e]) BY <1>9 DEF Meets
<1>13. ~FindsNone(h, cs, s)
  <2>1. PICK e \in DOMAIN cs : c = cs[e] BY <1>1, <1>9 DEF Meets
  <2> QED BY <1>1, <2>1 DEF FindsNone
<1>14. s.done /\ s.ptr # Null BY <1>10, <1>11, <1>12, <1>13, AllocFromChunkKeeps
<1>15. r = s BY <1>5, <1>14 DEF Answers
<1> QED BY <1>2, <1>14, <1>15

(***************************************************************************)
(* What the layout says of callers' blocks and of the lists.               *)
(***************************************************************************)

\* Two blocks do not meet, be they of one bucket or of two.
LEMMA BlocksOfLayout ==
    ASSUME NEW g, NEW b \in Bucket, NEW d \in Bucket, NEW x, NEW y, IsBlock(g, b, x), IsBlock(g, d, y),
           <<x, b>> # <<y, d>>
    PROVE  Block(x, b) \cap Block(y, d) = {}
<1>1. /\ x \in Word /\ UsedFor(g, PageOf(x), "chunk", b) /\ x % Buckets[b] = 0
      /\ y \in Word /\ UsedFor(g, PageOf(y), "chunk", d) /\ y % Buckets[d] = 0
  BY DEF IsBlock
<1>2. CASE b = d
  <2>1. x # y BY <1>2
  <2> QED BY <1>1, <1>2, <2>1, BlocksDiffer
<1>3. CASE b # d
  <2>1. PageOf(x) # PageOf(y) BY <1>1, <1>3 DEF UsedFor
  <2>2. \A a \in Block(x, b) : PageOf(a) = PageOf(x) BY <1>1, BlockInPage
  <2>3. \A a \in Block(y, d) : PageOf(a) = PageOf(y) BY <1>1, BlockInPage
  <2> QED BY <2>1, <2>2, <2>3
<1> QED BY <1>2, <1>3

\* The words of a block: in a page of blocks, which is not free.
LEMMA BlockWords ==
    ASSUME NEW h, NEW hl, NEW g, Sound(h, hl, g), NEW b \in Bucket, NEW x, IsBlock(g, b, x), NEW a \in Block(x, b)
    PROVE  a \in Word /\ PageOf(a) = PageOf(x) /\ g.use[PageOf(a)] = "chunk" /\ PageOf(a) \notin h.free
<1>1. x \in Word /\ UsedFor(g, PageOf(x), "chunk", b) /\ x % Buckets[b] = 0 BY DEF IsBlock
<1>2. a \in Word /\ PageOf(a) = PageOf(x) BY <1>1, BlockInPage
<1>3. g.use[PageOf(a)] = "chunk" BY <1>1, <1>2 DEF UsedFor
<1>4. PageOf(a) \in Page BY <1>2, WordPage
<1>5. PageOf(a) \notin h.free BY <1>3, <1>4 DEF Sound, FreeBelow
<1> QED BY <1>2, <1>3, <1>5

\* The blocks that a chunk still has are the nodes of the layout, from the top.
LEMMA AvailableIs ==
    ASSUME NEW h, NEW hl, NEW g, Sound(h, hl, g), NEW b \in Bucket, NEW c, IsChunk(g, b, c),
           NEW av, av = Available(h, c, Buckets[b]), NEW k \in DOMAIN av, NEW x, x = av[k], x # Null
    PROVE  k \in Int /\ NodeAt(g, b, c, g.left[c] + 1 - k, x)
<1>1. c \in Word /\ BytesUsed(c) \in Word /\ List(c) \in Word BY ChunkLies
<1>2. ChunkIs(h, g, b, c) BY <1>1 DEF Sound, ChunksAre
<1>3. PICK n, low, len : n = g.left[c] /\ low = g.low[c] /\ len = n - low OBVIOUS
<1>4. n \in Nat /\ low \in Nat /\ \A r \in Nat : g.node[c][r] \in Word BY <1>1, <1>3, LayoutParts DEF Sound
<1>5. low <= n BY <1>2, <1>3 DEF ChunkIs
<1>6. len \in 0..n /\ len = n - low BY <1>3, <1>4, <1>5
<1>7. (PageWords - h.mem[BytesUsed(c)]) \div Buckets[b] = n
  <2>1. h.mem[BytesUsed(c)] + Buckets[b] * n = PageWords BY <1>2, <1>3 DEF ChunkIs
  <2>2. h.mem[BytesUsed(c)] \in Int /\ Buckets[b] \in Nat /\ Buckets[b] >= 1 /\ PageWords \in Nat
    BY <1>1, ConstantTypes, HeapParts DEF Sound
  <2>3. PICK s, u : s = Buckets[b] /\ u = h.mem[BytesUsed(c)] OBVIOUS
  <2>4. PageWords - u = s * n BY <1>4, <2>1, <2>2, <2>3
  <2>5. (s * n) \div s = n BY <1>4, <2>2, <2>3
  <2> QED BY <2>3, <2>4, <2>5
<1>8. av = Followed(h.mem, Word, h.mem[List(c)], n) BY <1>7 DEF Available
<1>9. PICK at : at = [i \in 1..len |-> g.node[c][n + 1 - i]] OBVIOUS
<1>10. ASSUME NEW i \in 1..len
       PROVE  /\ at[i] = g.node[c][n + 1 - i] /\ n + 1 - i \in (low + 1)..n /\ n + 1 - i \in Nat
              /\ NodeAt(g, b, c, n + 1 - i, at[i]) /\ at[i] \in Word
  <2>1. at[i] = g.node[c][n + 1 - i] BY <1>9
  <2>2. n + 1 - i \in (low + 1)..n /\ n + 1 - i \in Nat BY <1>4, <1>6
  <2>3. NodeAt(g, b, c, n + 1 - i, at[i]) BY <1>3, <2>1, <2>2 DEF NodeAt
  <2> QED BY <1>4, <2>1, <2>2, <2>3
<1>11. Null \notin Word BY PageStarts
<1>12. \A i \in 1..len : at[i] \in Word BY <1>10
<1>13. len > 0 => h.mem[List(c)] = at[1]
  <2>1. ASSUME len > 0 PROVE h.mem[List(c)] = at[1]
    <3>1. 1 \in 1..len /\ n + 1 - 1 = n /\ low < n BY <1>4, <1>6, <2>1
    <3>2. at[1] = g.node[c][n] BY <1>9, <3>1
    <3> QED BY <1>2, <1>3, <3>1, <3>2 DEF ChunkIs
  <2> QED BY <2>1
<1>14. \A i \in 1..len : i < len => h.mem[at[i]] = at[i + 1]
  <2> SUFFICES ASSUME NEW i \in 1..len, i < len PROVE h.mem[at[i]] = at[i + 1] OBVIOUS
  <2>1. PICK r, y : r = n + 1 - i /\ y = at[i] OBVIOUS
  <2>2. NodeAt(g, b, c, r, y) BY <1>10, <2>1
  <2>3. r > low + 1 /\ i + 1 \in 1..len /\ r - 1 = n + 1 - (i + 1) BY <1>4, <1>6, <2>1
  <2>6. y \in Word /\ r \in Nat /\ c \in Word BY <1>1, <1>10, <2>1
  <2>7. g.low[c] \in Nat /\ r > g.low[c] + 1 BY <1>3, <1>4, <2>3
  <2>8. NodesAre(h, hl, g) BY DEF Sound
  <2>9. r > g.low[c] + 1 => h.mem[y] = g.node[c][r - 1] BY ONLY <2>2, <2>6, <2>8, b \in Bucket, ZenonT(60) DEF NodesAre
  <2>4. h.mem[y] = g.node[c][r - 1] BY <2>7, <2>9
  <2>5. at[i + 1] = g.node[c][n + 1 - (i + 1)] BY <1>9, <2>3
  <2> QED BY <2>1, <2>3, <2>4, <2>5
<1>15. len < n => (IF len = 0 THEN h.mem[List(c)] = Null ELSE h.mem[at[len]] = Null)
  <2>1. ASSUME len < n PROVE IF len = 0 THEN h.mem[List(c)] = Null ELSE h.mem[at[len]] = Null
    <3>1. low > 0 BY <1>4, <1>6, <2>1
    <3>2. CASE len = 0
      <4>1. low = n BY <1>4, <1>6, <3>2
      <4> QED BY <1>2, <1>3, <3>1, <3>2, <4>1 DEF ChunkIs
    <3>3. CASE len # 0
      <4>1. low # n /\ len \in 1..len /\ n + 1 - len = low + 1 BY <1>4, <1>6, <3>3
      <4>2. at[len] = g.node[c][low + 1] BY <1>9, <4>1
      <4>3. h.mem[g.node[c][low + 1]] = Null BY <1>2, <1>3, <3>1, <4>1 DEF ChunkIs
      <4> QED BY <3>3, <4>2, <4>3
    <3> QED BY <3>2, <3>3
  <2> QED BY <2>1
<1>16. /\ DOMAIN av = 1..n
       /\ \A j \in 1..n : av[j] = IF j <= len THEN at[j] ELSE Null
  <2>1. Links(h.mem, Word, h.mem[List(c)], n, len, at)
    BY <1>4, <1>6, <1>11, <1>12, <1>13, <1>14, <1>15 DEF Links
  <2>2. Goes(av, n, len, at) BY <1>8, <2>1, FollowList
  <2> QED BY <2>2 DEF Goes
<1>17. k \in 1..n /\ k <= len /\ x = at[k] BY <1>16
<1>18. k \in 1..len BY <1>4, <1>6, <1>17
<1> QED BY <1>3, <1>10, <1>17, <1>18

\* Where an entry of AllListed comes from.
ListsAt(h, g, l, b, e, k) ==
    /\ b \in Bucket /\ e \in DOMAIN Chunks(h, b) /\ k \in Int
    /\ l = [block |-> <<l.block[1], b>>, chunk |-> e, pos |-> k]
    /\ NodeAt(g, b, Chunks(h, b)[e], g.left[Chunks(h, b)[e]] + 1 - k, l.block[1])

LEMMA ListedIs ==
    ASSUME NEW h, NEW hl, NEW g, Sound(h, hl, g), NEW l \in AllListed(h)
    PROVE  \E b, e, k : ListsAt(h, g, l, b, e, k)
<1>1. PICK b \in Bucket : l \in Listed(h, b) BY DEF AllListed
<1>2. PICK cs : cs = Chunks(h, b) OBVIOUS
<1>3. PICK av : av = [e \in DOMAIN cs |-> Available(h, cs[e], Buckets[b])] OBVIOUS
<1>4. /\ l \in UNION {{[block |-> <<av[e][k], b>>, chunk |-> e, pos |-> k] : k \in DOMAIN av[e]} : e \in DOMAIN cs}
      /\ l.block[1] # Null
  BY <1>1, <1>2, <1>3 DEF Listed
<1>5. PICK e \in DOMAIN cs : l \in {[block |-> <<av[e][k], b>>, chunk |-> e, pos |-> k] : k \in DOMAIN av[e]}
  BY <1>4
<1>6. PICK k \in DOMAIN av[e] : l = [block |-> <<av[e][k], b>>, chunk |-> e, pos |-> k] BY <1>5
<1>7. PICK c, x : c = cs[e] /\ x = av[e][k] OBVIOUS
<1>8. l.block[1] = x /\ l.chunk = e /\ l.pos = k BY <1>6, <1>7
<1>9. Meets(g, b, cs) BY <1>2, ChunksMet
<1>10. IsChunk(g, b, c) BY <1>7, <1>9 DEF Meets
<1>11. av[e] = Available(h, c, Buckets[b]) BY <1>3, <1>7
<1>12. x # Null BY <1>4, <1>8
<1>13. k \in Int /\ NodeAt(g, b, c, g.left[c] + 1 - k, x) BY <1>7, <1>10, <1>11, <1>12, AvailableIs
<1>14. l = [block |-> <<l.block[1], b>>, chunk |-> e, pos |-> k] BY <1>6, <1>7, <1>8
<1>15. ListsAt(h, g, l, b, e, k) BY <1>2, <1>7, <1>8, <1>13, <1>14 DEF ListsAt
<1> QED BY <1>15

LEMMA ListedParts ==
    ASSUME NEW h, NEW hl, NEW g, Sound(h, hl, g), NEW l, NEW b, NEW e, NEW k, ListsAt(h, g, l, b, e, k)
    PROVE  \E x : /\ b \in Bucket /\ l.block = <<x, b>> /\ l.block[1] = x /\ l.block[2] = b
                  /\ IsBlock(g, b, x) /\ <<x, b>> \notin hl
<1>1. PICK x : x = l.block[1] OBVIOUS
<1>2. b \in Bucket /\ l.block = <<x, b>> BY <1>1 DEF ListsAt
<1>3. PICK c, r : c = Chunks(h, b)[e] /\ r = g.left[Chunks(h, b)[e]] + 1 - k OBVIOUS
<1>4. NodeAt(g, b, c, r, x) BY <1>1, <1>3 DEF ListsAt
<1>5. IsBlock(g, b, x) /\ <<x, b>> \notin hl BY <1>2, <1>4, NodeLies
<1> QED BY <1>1, <1>2, <1>5

\* Two entries of AllListed do not share a block.
LEMMA ListedDiffer ==
    ASSUME NEW h, NEW hl, NEW g, Sound(h, hl, g),
           NEW l, NEW b, NEW e, NEW k, ListsAt(h, g, l, b, e, k),
           NEW n, NEW f, NEW j, ListsAt(h, g, n, b, f, j), l.block[1] = n.block[1]
    PROVE  l = n
<1>1. PICK cs, x : cs = Chunks(h, b) /\ x = l.block[1] OBVIOUS
<1>2. b \in Bucket /\ e \in DOMAIN cs /\ f \in DOMAIN cs /\ k \in Int /\ j \in Int BY <1>1 DEF ListsAt
<1>3. PICK c, d, r, q : c = cs[e] /\ d = cs[f] /\ r = g.left[cs[e]] + 1 - k /\ q = g.left[cs[f]] + 1 - j
  OBVIOUS
<1>4. NodeAt(g, b, c, r, x) /\ NodeAt(g, b, d, q, x) BY <1>1, <1>3 DEF ListsAt
<1>5. c \in Word /\ x \in Word /\ r \in Nat BY <1>2, <1>4, NodeLies
<1>6. d \in Word /\ q \in Nat BY <1>2, <1>4, NodeLies
<1>7. c = d /\ r = q BY <1>2, <1>4, <1>5, <1>6 DEF Sound, NodesApart
<1>8. Meets(g, b, cs) BY <1>1, <1>2, ChunksMet
<1>9. e = f BY <1>2, <1>3, <1>7, <1>8 DEF Meets
<1>10. g.left[c] \in Nat BY <1>5, LayoutParts DEF Sound
<1>11. k = j BY <1>2, <1>3, <1>7, <1>10
<1>12. l = [block |-> <<l.block[1], b>>, chunk |-> e, pos |-> k] BY DEF ListsAt
<1>13. n = [block |-> <<n.block[1], b>>, chunk |-> f, pos |-> j] BY DEF ListsAt
<1> QED BY <1>9, <1>11, <1>12, <1>13

\* Fewer blocks with callers.
LEMMA SoundLess ==
    ASSUME NEW h, NEW hl, NEW g, Sound(h, hl, g), NEW hl2, hl2 \subseteq hl
    PROVE  Sound(h, hl2, g)
<1>1. NodesAre(h, hl2, g)
  <2> SUFFICES ASSUME NEW b \in Bucket, NEW c \in Word, NEW x \in Word, NEW r \in Nat, NodeAt(g, b, c, r, x)
               PROVE  /\ IsBlock(g, b, x) /\ <<x, b>> \notin hl2
                      /\ r > g.low[c] + 1 => h.mem[x] = g.node[c][r - 1]
      BY DEF NodesAre
  <2>1. NodesAre(h, hl, g) BY DEF Sound
  <2>2. /\ IsBlock(g, b, x) /\ <<x, b>> \notin hl
        /\ r > g.low[c] + 1 => h.mem[x] = g.node[c][r - 1]
    BY ONLY <2>1, b \in Bucket, c \in Word, x \in Word, r \in Nat, NodeAt(g, b, c, r, x) DEF NodesAre
  <2> QED BY <2>2
<1>2. HeldAre(hl2, g) BY DEF Sound, HeldAre
<1>3. hl2 \subseteq Word \X Bucket BY DEF Sound
<1> QED BY <1>1, <1>2, <1>3 DEF Sound

(***************************************************************************)
(* dealloc.                                                                *)
(***************************************************************************)

LEMMA OwnerIs ==
    ASSUME NEW h \in HeapType, NEW b \in Bucket, NEW x \in Word, NEW cs, ArePlaces(cs),
           NEW owners, owners = Owners(h, cs, x), owners # {}
    PROVE  \E e \in DOMAIN cs : e = FirstOf(owners) /\ Align(h.mem[List(cs[e])]) = Align(x)
<1>1. owners \subseteq DOMAIN cs BY DEF Owners
<1>2. owners \in SUBSET (Nat \X Nat) BY <1>1 DEF ArePlaces
<1>3. FirstOf(owners) \in owners BY <1>2, FirstOfIn
<1> QED BY <1>3 DEF Owners

\* What free_chunk stores when blocks of the chunk remain in use.
Pushed(h, b, c, x) ==
    [h.mem EXCEPT ![BytesUsed(c)] = h.mem[BytesUsed(c)] - Buckets[b], ![x] = h.mem[List(c)], ![List(c)] = x]

LEMMA FreeChunkIs ==
    ASSUME NEW h \in HeapType, NEW b \in Bucket, NEW x \in Word, NEW c \in Word, List(c) \in Word,
           Align(h.mem[List(c)]) = Align(x), NEW h2, h2 = FreeChunk(h, c, x, Buckets[b])
    PROVE  /\ h2 \in HeapType
           /\ \/ h2.mem[BytesUsed(c)] = 0
              \/ h2.mem = Pushed(h, b, c, x) /\ h2.list = h.list /\ h2.free = h.free /\ h2.fault = h.fault
<1>1. h.mem \in [Word -> Int] /\ Buckets[b] \in Int /\ x \in Int /\ BytesUsed(c) \in Word /\ h.free \subseteq Page
  BY HeapParts, ConstantTypes, WordPage DEF BytesUsed
<1>2. PICK used : used = h.mem[BytesUsed(c)] - Buckets[b] OBVIOUS
<1>3. used \in Int BY <1>1, <1>2
<1>4. CASE used = 0
  <2>1. PICK m, s : m = [h.mem EXCEPT ![BytesUsed(c)] = 0] /\ s = h.free \cup ({PageOf(Align(h.mem[List(c)]))} \ {0})
    OBVIOUS
  <2>2. h2 = [[h EXCEPT !.mem = m] EXCEPT !.free = s]
    BY <1>2, <1>4, <2>1 DEF FreeChunk, HeapType
  <2>3. m \in [Word -> Int] /\ m[BytesUsed(c)] = 0 BY <1>1, <2>1
  <2>4. PageOf(Align(x)) \in Page \cup {0}
    <3>1. PageWords \in Nat /\ PageWords >= 4 /\ LowPages \in Nat /\ LowPages >= 1 /\ NumPages \in Nat BY ConstantTypes
    <3>2. PICK p : p = PageOf(x) OBVIOUS
    <3>3. p \in Page /\ p \in Nat BY <3>2, WordPage DEF Page
    <3>4. p % LowPages \in Nat /\ p % LowPages <= p
      <4>1. PICK w, d : w = LowPages /\ d = p \div LowPages OBVIOUS
      <4>2. w \in Nat /\ w >= 1 /\ p \in Nat BY <3>1, <3>3, <4>1
      <4>3. d \in Int /\ d >= 0 BY <4>1, <4>2
      <4>4. p = w * d + (p % w) /\ p % w \in Nat BY <4>1, <4>2
      <4>5. w * d >= 0 /\ w * d \in Int BY <4>2, <4>3
      <4>6. p % w <= p BY <4>2, <4>4, <4>5
      <4> QED BY <4>1, <4>4, <4>6
    <3>5. PICK q : q = p % LowPages OBVIOUS
    <3>6. (q * PageWords) \div PageWords = q BY <3>1, <3>4, <3>5
    <3>7. PageOf(Align(x)) = q BY <3>2, <3>5, <3>6 DEF PageOf, Align, Base
    <3> QED BY <3>1, <3>3, <3>4, <3>5, <3>7 DEF Page
  <2>5. s \subseteq Page BY <1>1, <2>1, <2>4
  <2>6. PICK w : w = [h EXCEPT !.mem = m] OBVIOUS
  <2>7. w \in HeapType /\ w.mem = m BY <2>3, <2>6 DEF HeapType
  <2>8. h2 = [w EXCEPT !.free = s] BY <2>2, <2>6
  <2>9. h2 \in HeapType /\ h2.mem = m BY <2>5, <2>7, <2>8 DEF HeapType
  <2> QED BY <2>3, <2>9
<1>5. CASE used # 0
  <2>1. PICK m : m = [h.mem EXCEPT ![BytesUsed(c)] = used, ![x] = h.mem[List(c)], ![List(c)] = x] OBVIOUS
  <2>2. h2 = [h EXCEPT !.mem = m]
    BY <1>2, <1>5, <2>1 DEF FreeChunk, NextOfFreed, HeapType
  <2>3. h.mem[List(c)] \in Int BY <1>1
  <2>4. m \in [Word -> Int] BY <1>1, <1>3, <2>1, <2>3
  <2>5. h2 \in HeapType /\ h2.mem = m /\ h2.list = h.list /\ h2.free = h.free /\ h2.fault = h.fault
    BY <2>2, <2>4 DEF HeapType
  <2>6. m = Pushed(h, b, c, x) BY <1>2, <2>1 DEF Pushed
  <2> QED BY <2>5, <2>6
<1> QED BY <1>4, <1>5

(***************************************************************************)
(* The invariant and the steps.                                            *)
(***************************************************************************)

TypeInv ==
    /\ heap \in HeapType
    /\ held \subseteq Word \X Bucket
    /\ big \subseteq Page \X (1..MaxRun) /\ \A r \in big : Run(r[1], r[2]) \subseteq Page
    /\ lastNull \in Bucket \cup {0}
    /\ lost \subseteq Word \X Bucket

\* Some layout is that of the heap, and a null answer was not final.
HeapInv ==
    ~gaveBack => \E g : Sound(heap, held, g) /\ (lastNull # 0 => MayRetry(heap, g, lastNull))

Inv == TypeInv /\ HeapInv

LEMMA InitInv == Init => Inv
<1> SUFFICES ASSUME Init PROVE Inv OBVIOUS
<1>1. NumPages \in Nat /\ NumPages >= 1 /\ Bucket \subseteq Nat \ {0} BY ConstantTypes
<1>2. PICK mem, list : mem = [a \in Word |-> 0] /\ list = [b \in Bucket |-> Null] OBVIOUS
<1>3. heap = [mem |-> mem, list |-> list, free |-> Page, fault |-> FALSE] BY <1>2 DEF Init
<1>4. heap.mem = mem /\ heap.list = list /\ heap.free = Page /\ heap.fault = FALSE BY <1>3
<1>5. mem \in [Word -> Int] /\ list \in [Bucket -> {Null} \cup PageStart] BY <1>2
<1>6. heap \in HeapType BY <1>3, <1>5 DEF HeapType
<1>7. TypeInv BY <1>6 DEF TypeInv, Init
<1>8. held = {} /\ lastNull = 0 BY DEF Init
<1>9. 1 \in Page /\ Base(1) \in Word BY <1>1, BaseOf DEF Page
<1> DEFINE g == [use |-> [p \in Page |-> "free"], of |-> [p \in Page |-> 0],
                 meta |-> [b \in Bucket |-> [i \in Nat |-> 1]], count |-> [b \in Bucket |-> 0],
                 left |-> [c \in Word |-> 0], low |-> [c \in Word |-> 0],
                 node |-> [c \in Word |-> [i \in Nat |-> Base(1)]]]
<1>10. g \in Layouts BY <1>9 DEF Layouts, Use
<1>11. /\ \A p \in Page : g.use[p] = "free"
       /\ \A b \in Bucket : g.count[b] = 0
  OBVIOUS
<1> HIDE DEF g
<1>12. FreeBelow(heap, g)
  <2>1. NumPages \in 0..NumPages /\ Page = 1..NumPages BY <1>1 DEF Page
  <2>2. \A a \in Word : heap.mem[a] = 0 BY <1>2, <1>4
  <2> QED BY <1>4, <1>11, <2>1, <2>2 DEF FreeBelow
<1>13. \A p, u, b : UsedFor(g, p, u, b) => u = "free" BY <1>11 DEF UsedFor
<1>14. \A b, c : ~IsChunk(g, b, c) BY <1>13 DEF IsChunk
<1>15. MetasLinked(heap, g)
  <2> SUFFICES ASSUME NEW b \in Bucket
               PROVE  /\ heap.list[b] = IF g.count[b] = 0 THEN Null ELSE Base(g.meta[b][1])
                      /\ \A i \in 1..g.count[b] :
                            /\ UsedFor(g, g.meta[b][i], "meta", b)
                            /\ g.meta[b][i] + i <= NumPages + 1
                            /\ heap.mem[Base(g.meta[b][i])] = IF i = g.count[b] THEN Null ELSE Base(g.meta[b][i + 1])
                      /\ \A i, j \in 1..g.count[b] : i < j => g.meta[b][j] < g.meta[b][i]
                      /\ \A p \in Page : UsedFor(g, p, "meta", b) => \E i \in 1..g.count[b] : p = g.meta[b][i]
      BY DEF MetasLinked
  <2>1. g.count[b] = 0 /\ 1..0 = {} BY <1>11
  <2>2. heap.list[b] = Null BY <1>2, <1>4
  <2>3. \A p \in Page : ~UsedFor(g, p, "meta", b) BY <1>13
  <2> QED BY <2>1, <2>2, <2>3
<1>16. Sound(heap, held, g)
  <2>1. ChunksAre(heap, g) BY <1>14 DEF ChunksAre
  <2>2. \A b, c, r, x : ~NodeAt(g, b, c, r, x) BY <1>14 DEF NodeAt
  <2>3. NodesAre(heap, held, g) /\ NodesApart(g) BY <2>2 DEF NodesAre, NodesApart
  <2>4. HeldAre(held, g) BY <1>8 DEF HeldAre
  <2> QED BY <1>4, <1>6, <1>8, <1>10, <1>12, <1>15, <2>1, <2>3, <2>4 DEF Sound
<1>17. HeapInv BY <1>8, <1>16 DEF HeapInv
<1> QED BY <1>7, <1>17 DEF Inv

\* The step leaves the words of callers' blocks, but for the first word of a page above
\* one that was taken.
Undamaged ==
    \A r \in held \cap held' : \A a \in Block(r[1], r[2]) :
        heap'.mem[a] # heap.mem[a] => a % PageWords = 0 /\ PageOf(a) - 1 \in heap.free \ heap'.free

LEMMA MemAllocStep ==
    ASSUME Inv, NEW b \in Bucket, MemAlloc(b)
    PROVE  Inv' /\ (~gaveBack' => Undamaged)
<1>1. PICK r : r = AllocMem(heap, b) OBVIOUS
<1>2. heap \in HeapType BY DEF Inv, TypeInv
<1>3. r.heap \in HeapType /\ r.ptr \in {Null} \cup Word BY <1>1, <1>2, AllocMemTyped
<1>4. \/ r.ptr = Null /\ heap' = r.heap /\ lastNull' = b /\ held' = held
      \/ r.ptr # Null /\ heap' = Filled(r.heap, Block(r.ptr, b)) /\ held' = held \cup {<<r.ptr, b>>} /\ lastNull' = 0
  BY <1>1 DEF MemAlloc
<1>5. gaveBack' = gaveBack /\ big' = big /\ lost' = lost BY DEF MemAlloc
<1>6. TypeInv'
  <2>1. heap' \in HeapType BY <1>3, <1>4, FilledIs
  <2>2. held' \subseteq Word \X Bucket BY <1>3, <1>4 DEF Inv, TypeInv
  <2> QED BY <1>4, <1>5, <2>1, <2>2 DEF Inv, TypeInv
<1>7. b # 0 BY ConstantTypes
<1>8. ASSUME ~gaveBack
      PROVE  /\ \E g : Sound(heap', held', g) /\ (lastNull' # 0 => MayRetry(heap', g, lastNull'))
             /\ Undamaged
  <2>1. PICK g : Sound(heap, held, g) BY <1>8 DEF Inv, HeapInv
  <2>2. Served(heap, held, g, b, r) BY <1>1, <2>1, AllocMemKeeps
  <2>3. PICK g2 : /\ Sound(r.heap, held, g2)
                  /\ r.ptr = Null => MayRetry(r.heap, g2, b)
                  /\ r.ptr # Null => Loose(held, g2, b, r.ptr)
    BY <2>2 DEF Served
  <2>4. ASSUME NEW s \in held, NEW a \in Block(s[1], s[2]), r.heap.mem[a] # heap.mem[a]
        PROVE  a % PageWords = 0 /\ PageOf(a) - 1 \in heap.free \ r.heap.free
    <3>1. PICK d, x : d = s[2] /\ x = s[1] OBVIOUS
    <3>2. d \in Bucket /\ IsBlock(g, d, x) /\ a \in Block(x, d) BY <2>1, <2>4, <3>1 DEF Sound, HeldAre
    <3>3. a \in Word /\ g.use[PageOf(a)] = "chunk" /\ PageOf(a) \notin heap.free BY <2>1, <3>2, BlockWords
    <3> QED BY <2>2, <2>4, <3>3 DEF Served, Spares
  <2>5. CASE r.ptr = Null
    <3>1. heap' = r.heap /\ lastNull' = b /\ held' = held BY <1>4, <2>5
    <3>2. Undamaged BY <2>4, <3>1 DEF Undamaged
    <3> QED BY <2>3, <2>5, <3>1, <3>2
  <2>6. CASE r.ptr # Null
    <3>1. PICK x : x = r.ptr OBVIOUS
    <3>2. heap' = Filled(r.heap, Block(x, b)) /\ held' = held \cup {<<x, b>>} /\ lastNull' = 0
      BY <1>4, <2>6, <3>1
    <3>3. /\ heap' \in HeapType /\ heap'.list = r.heap.list /\ heap'.free = r.heap.free
          /\ heap'.fault = r.heap.fault
      BY <1>3, <3>2, FilledIs
    <3>4. \A a \in Word \ Block(x, b) : heap'.mem[a] = r.heap.mem[a] BY <1>3, <3>2, FilledIs
    <3>5. Loose(held, g2, b, x) BY <2>3, <2>6, <3>1
    <3>6. ~r.heap.fault BY <2>3 DEF Sound
    <3>7. PICK h2 : h2 = heap' OBVIOUS
    <3>8. /\ h2 \in HeapType /\ ~h2.fault /\ h2.free = r.heap.free /\ h2.list = r.heap.list
          /\ \A a \in Word \ Block(x, b) : h2.mem[a] = r.heap.mem[a]
      BY <3>3, <3>4, <3>6, <3>7
    <3>9. Sound(h2, held \cup {<<x, b>>}, g2) BY <2>3, <3>5, <3>8, FillBlock
    <3>10. Undamaged
      <4> SUFFICES ASSUME NEW s \in held \cap held', NEW a \in Block(s[1], s[2]), heap'.mem[a] # heap.mem[a]
                   PROVE  a % PageWords = 0 /\ PageOf(a) - 1 \in heap.free \ heap'.free
          BY DEF Undamaged
      <4>1. PICK d, y : d = s[2] /\ y = s[1] OBVIOUS
      <4>2. d \in Bucket /\ IsBlock(g2, d, y) /\ s = <<y, d>> /\ a \in Block(y, d)
        BY <2>3, <4>1 DEF Sound, HeldAre
      <4>3. IsBlock(g2, b, x) /\ <<x, b>> # <<y, d>> BY <3>5, <4>2 DEF Loose
      <4>4. Block(x, b) \cap Block(y, d) = {} BY <4>2, <4>3, BlocksOfLayout
      <4>5. a \in Word BY <2>3, <4>2, BlockWords
      <4>6. heap'.mem[a] = r.heap.mem[a] BY <3>4, <4>2, <4>4, <4>5
      <4> QED BY <2>4, <3>3, <4>6
    <3> QED BY <3>2, <3>7, <3>9, <3>10
  <2> QED BY <2>5, <2>6
<1>9. HeapInv' BY <1>5, <1>8 DEF HeapInv
<1> QED BY <1>5, <1>6, <1>8, <1>9 DEF Inv

LEMMA BigAllocStep ==
    ASSUME Inv, NEW n \in 1..MaxRun, BigAlloc(n)
    PROVE  Inv' /\ (~gaveBack' => Undamaged)
<1>1. PICK p \in Pmm!FirstFit(heap.free, n) :
          /\ heap' = Filled(Without(heap, p, n), Base(p)..(Base(p + n) - 1))
          /\ big' = big \cup {<<p, n>>}
  BY DEF BigAlloc
<1>2. lastNull' = 0 /\ held' = held /\ gaveBack' = gaveBack /\ lost' = lost BY DEF BigAlloc
<1>3. heap \in HeapType /\ heap.free \subseteq Page BY HeapParts DEF Inv, TypeInv
<1>4. n \in Nat /\ n >= 1 BY ConstantTypes
<1>5. p \in Page /\ Run(p, n) \subseteq Page BY <1>1, <1>3, <1>4, FitIsFree
<1>6. PICK w, words : w = Without(heap, p, n) /\ words = Base(p)..(Base(p + n) - 1) OBVIOUS
<1>7. /\ w \in HeapType /\ w.mem = heap.mem /\ w.list = heap.list /\ w.free = heap.free \ Run(p, n)
      /\ w.fault = heap.fault
  BY <1>3, <1>6, WithoutIs
<1>8. heap' = Filled(w, words) BY <1>1, <1>6
<1>9. heap' \in HeapType /\ heap'.list = w.list /\ heap'.free = w.free /\ heap'.fault = w.fault
  BY <1>7, <1>8, FilledIs
<1>10. \A a \in Word : heap'.mem[a] = IF a \in words THEN Data ELSE w.mem[a] BY <1>7, <1>8, FilledIs
<1>11. TypeInv'
  <2>1. big' \subseteq Page \X (1..MaxRun) BY <1>1, <1>5 DEF Inv, TypeInv
  <2>2. ASSUME NEW r \in big' PROVE Run(r[1], r[2]) \subseteq Page
    <3>1. CASE r \in big BY <3>1 DEF Inv, TypeInv
    <3>2. CASE r = <<p, n>> BY <1>5, <3>2
    <3> QED BY <1>1, <3>1, <3>2
  <2> QED BY <1>2, <1>9, <2>1, <2>2 DEF Inv, TypeInv
<1>12. ASSUME ~gaveBack
       PROVE  (\E g : Sound(heap', held, g)) /\ Undamaged
  <2>1. PICK g : Sound(heap, held, g) BY <1>12 DEF Inv, HeapInv
  <2>2. PICK top \in 0..NumPages : heap.free = 1..top BY <2>1 DEF Sound, FreeBelow
  <2>3. top \in Nat BY <2>2, ConstantTypes
  <2>4. p \in 1..top /\ p + n = top + 1 /\ (1..top) \ Run(p, n) = 1..(p - 1)
    BY <1>1, <1>4, <2>2, <2>3, FirstFitIs
  <2>5. ASSUME NEW a \in Word, PageOf(a) \notin p..top PROVE heap'.mem[a] = heap.mem[a]
    <3>1. PICK q : q = PageOf(a) OBVIOUS
    <3>2. q \in Nat /\ Base(q) <= a /\ a < Base(q) + PageWords /\ a \in Nat BY <3>1, WordPage DEF Page
    <3>3. PageWords \in Nat /\ PageWords >= 4 BY ConstantTypes
    <3>4. Base(q) = q * PageWords /\ Base(p) = p * PageWords /\ Base(p + n) = (top + 1) * PageWords
      BY <2>4 DEF Base
    <3>5. a \notin words
      <4>1. CASE q < p
        <5>1. q + 1 <= p BY <2>3, <2>4, <3>2, <4>1
        <5>2. (q + 1) * PageWords <= p * PageWords BY <2>3, <2>4, <3>2, <3>3, <5>1
        <5>3. a < Base(p) BY <2>3, <2>4, <3>2, <3>3, <3>4, <5>2
        <5>4. Base(p) \in Int BY <1>5, BaseOf
        <5> QED BY <1>6, <3>2, <5>3, <5>4
      <4>2. CASE q > top
        <5>1. top + 1 <= q BY <2>3, <3>2, <4>2
        <5>2. (top + 1) * PageWords <= q * PageWords BY <2>3, <3>2, <3>3, <5>1
        <5>3. Base(p + n) <= a BY <2>3, <3>2, <3>3, <3>4, <5>2
        <5>4. Base(p + n) \in Int BY <2>3, <3>3, <3>4
        <5> QED BY <1>6, <3>2, <5>3, <5>4
      <4> QED BY <2>3, <2>4, <2>5, <3>1, <3>2, <4>1, <4>2
    <3> QED BY <1>7, <1>10, <3>5
  <2>6. PICK h2 : h2 = heap' OBVIOUS
  <2>7. p - 1 \in 0..top /\ (p - 1) + 1 = p BY <2>3, <2>4
  <2>8. ~heap.fault BY <2>1 DEF Sound
  <2>9. /\ h2 \in HeapType /\ ~h2.fault /\ h2.free = 1..(p - 1) /\ h2.list = heap.list
        /\ \A a \in Word : PageOf(a) \notin ((p - 1) + 1)..top => h2.mem[a] = heap.mem[a]
    BY <1>7, <1>9, <2>2, <2>4, <2>5, <2>6, <2>7, <2>8
  <2>10. \E g2 : Sound(h2, held, g2) BY <2>1, <2>2, <2>7, <2>9, TakeOther
  <2>11. Undamaged
    <3> SUFFICES ASSUME NEW s \in held, NEW a \in Block(s[1], s[2])
                 PROVE  heap'.mem[a] = heap.mem[a]
        BY <1>2 DEF Undamaged
    <3>1. PICK d, x : d = s[2] /\ x = s[1] OBVIOUS
    <3>2. d \in Bucket /\ IsBlock(g, d, x) /\ a \in Block(x, d) BY <2>1, <3>1 DEF Sound, HeldAre
    <3>3. a \in Word /\ PageOf(a) \notin heap.free BY <2>1, <3>2, BlockWords
    <3>4. p..top \subseteq heap.free BY <2>2, <2>3, <2>4
    <3> QED BY <2>5, <3>3, <3>4
  <2> QED BY <2>6, <2>10, <2>11
<1>13. HeapInv' BY <1>2, <1>12 DEF HeapInv
<1> QED BY <1>2, <1>11, <1>12, <1>13 DEF Inv

LEMMA MemDeallocStep ==
    ASSUME Inv, NEW x, NEW b, MemDealloc(x, b)
    PROVE  Inv' /\ (~gaveBack' => Undamaged)
<1>1. <<x, b>> \in held /\ held' = held \ {<<x, b>>} /\ lastNull' = 0 /\ big' = big BY DEF MemDealloc
<1>2. x \in Word /\ b \in Bucket /\ heap \in HeapType BY <1>1 DEF Inv, TypeInv
<1>3. PICK cs : cs = Chunks(heap, b) OBVIOUS
<1>4. ArePlaces(cs) BY <1>2, <1>3, ChunksTyped
<1>5. PICK owners : owners = Owners(heap, cs, x) OBVIOUS
<1>6. CASE owners = {}
  <2>1. heap' = heap /\ gaveBack' = gaveBack /\ lost' = lost \cup {<<x, b>>} BY <1>3, <1>5, <1>6 DEF MemDealloc
  <2>2. TypeInv' BY <1>1, <1>2, <2>1 DEF Inv, TypeInv
  <2>3. ASSUME ~gaveBack PROVE \E g : Sound(heap, held', g)
    <3>1. PICK g : Sound(heap, held, g) BY <2>3 DEF Inv, HeapInv
    <3>2. PICK hl2 : hl2 = held' OBVIOUS
    <3>3. hl2 \subseteq held BY <1>1, <3>2
    <3>4. Sound(heap, hl2, g) BY <3>1, <3>3, SoundLess
    <3> QED BY <3>2, <3>4
  <2>4. HeapInv' BY <1>1, <2>1, <2>3 DEF HeapInv
  <2>5. Undamaged BY <2>1 DEF Undamaged
  <2> QED BY <2>2, <2>4, <2>5 DEF Inv
<1>7. CASE owners # {}
  <2>1. PICK e \in DOMAIN cs : e = FirstOf(owners) /\ Align(heap.mem[List(cs[e])]) = Align(x)
    BY <1>2, <1>4, <1>5, <1>7, OwnerIs
  <2>2. PICK c : c = cs[e] OBVIOUS
  <2>3. c \in Word /\ List(c) \in Word /\ Align(heap.mem[List(c)]) = Align(x) BY <1>4, <2>1, <2>2 DEF ArePlaces
  <2>4. /\ heap' = FreeChunk(heap, c, x, Buckets[b]) /\ lost' = lost
        /\ gaveBack' = (gaveBack \/ heap'.mem[BytesUsed(c)] = 0)
    BY <1>3, <1>5, <1>7, <2>1, <2>2 DEF MemDealloc
  <2>5. PICK h2 : h2 = FreeChunk(heap, c, x, Buckets[b]) OBVIOUS
  <2>6. /\ h2 \in HeapType
        /\ \/ h2.mem[BytesUsed(c)] = 0
           \/ h2.mem = Pushed(heap, b, c, x) /\ h2.list = heap.list /\ h2.free = heap.free /\ h2.fault = heap.fault
    BY <1>2, <2>3, <2>5, FreeChunkIs
  <2>7. heap' = h2 BY <2>4, <2>5
  <2>8. TypeInv' BY <1>1, <2>4, <2>6, <2>7 DEF Inv, TypeInv
  <2>9. ASSUME ~gaveBack'
        PROVE  (\E g : Sound(heap', held', g)) /\ Undamaged
    <3>1. ~gaveBack /\ h2.mem[BytesUsed(c)] # 0 BY <2>4, <2>7, <2>9
    <3>2. PICK g : Sound(heap, held, g) BY <3>1 DEF Inv, HeapInv
    <3>3. Meets(g, b, cs) BY <1>2, <1>3, <3>2, ChunksMet
    <3>4. IsChunk(g, b, c) BY <2>1, <2>2, <3>3 DEF Meets
    <3>5. h2.mem = Pushed(heap, b, c, x) /\ h2.list = heap.list /\ h2.free = heap.free /\ h2.fault = heap.fault
      BY <2>6, <3>1
    <3>6. ~heap.fault BY <3>2 DEF Sound
    <3>7. h2.mem = [heap.mem EXCEPT ![BytesUsed(c)] = heap.mem[BytesUsed(c)] - Buckets[b],
                                    ![x] = heap.mem[List(c)], ![List(c)] = x]
      BY <3>5 DEF Pushed
    <3>8. \E g2 : Sound(h2, held \ {<<x, b>>}, g2) /\ g2.use = g.use /\ g2.of = g.of
      BY <1>1, <1>2, <2>6, <3>2, <3>4, <3>5, <3>6, <3>7, PushBlock
    <3>9. Undamaged
      <4> SUFFICES ASSUME NEW s \in held \cap held', NEW a \in Block(s[1], s[2])
                   PROVE  heap'.mem[a] = heap.mem[a]
          BY DEF Undamaged
      <4>1. PICK d, y : d = s[2] /\ y = s[1] OBVIOUS
      <4>2. d \in Bucket /\ IsBlock(g, d, y) /\ s = <<y, d>> /\ a \in Block(y, d)
        BY <3>2, <4>1 DEF Sound, HeldAre
      <4>3. <<x, b>> # <<y, d>> BY <1>1, <4>2
      <4>4. IsBlock(g, b, x)
        <5>1. PICK t : t = <<x, b>> OBVIOUS
        <5>2. IsBlock(g, t[2], t[1]) BY <1>1, <3>2, <5>1 DEF Sound, HeldAre
        <5> QED BY <5>1, <5>2
      <4>5. Block(x, b) \cap Block(y, d) = {} BY <1>2, <4>2, <4>3, <4>4, BlocksOfLayout
      <4>6. x \in Block(x, b)
        <5>1. x \in Nat /\ Buckets[b] \in Nat /\ Buckets[b] >= 1 BY <1>2, WordPage, ConstantTypes
        <5> QED BY <5>1 DEF Block
      <4>7. a # x BY <4>2, <4>5, <4>6
      <4>8. a \in Word /\ g.use[PageOf(a)] = "chunk" BY <3>2, <4>2, BlockWords
      <4>9. PageOf(BytesUsed(c)) = PageOf(c) /\ PageOf(List(c)) = PageOf(c) /\ UsedFor(g, PageOf(c), "meta", b)
        BY <1>2, <3>4, ChunkLies
      <4>10. a # BytesUsed(c) /\ a # List(c) BY <4>8, <4>9 DEF UsedFor
      <4>11. heap.mem \in [Word -> Int] BY <1>2, HeapParts
      <4> QED BY <2>7, <3>7, <4>7, <4>8, <4>10, <4>11
    <3>10. held' = held \ {<<x, b>>} BY <1>1
    <3> QED BY <2>7, <3>8, <3>9, <3>10
  <2>10. HeapInv' BY <1>1, <2>9 DEF HeapInv
  <2> QED BY <2>8, <2>9, <2>10 DEF Inv
<1> QED BY <1>6, <1>7

LEMMA BigDeallocStep ==
    ASSUME Inv, NEW p, NEW n, BigDealloc(p, n)
    PROVE  Inv' /\ gaveBack'
<1>1. /\ <<p, n>> \in big /\ big' = big \ {<<p, n>>} /\ gaveBack' = TRUE /\ lastNull' = 0
      /\ held' = held /\ lost' = lost /\ heap' = [heap EXCEPT !.free = heap.free \cup Run(p, n)]
  BY DEF BigDealloc
<1>2. PICK r \in big : r = <<p, n>> BY <1>1
<1>3. Run(p, n) \subseteq Page
  <2>1. Run(r[1], r[2]) \subseteq Page BY <1>2 DEF Inv, TypeInv
  <2> QED BY <1>2, <2>1
<1>4. PICK s : s = heap.free \cup Run(p, n) OBVIOUS
<1>5. heap \in HeapType BY DEF Inv, TypeInv
<1>6. heap.free \subseteq Page BY <1>5, HeapParts
<1>7. s \in SUBSET Page BY <1>3, <1>4, <1>6
<1>8. heap' \in HeapType BY <1>1, <1>4, <1>5, <1>7 DEF HeapType
<1>9. TypeInv' BY <1>1, <1>8 DEF Inv, TypeInv
<1>10. HeapInv' BY <1>1 DEF HeapInv
<1> QED BY <1>1, <1>9, <1>10 DEF Inv

LEMMA NextInv ==
    ASSUME Inv, [Next]_vars
    PROVE  Inv' /\ (~gaveBack' => Undamaged)
<1>1. CASE UNCHANGED vars
  <2>1. /\ heap' = heap /\ held' = held /\ big' = big /\ lastNull' = lastNull /\ gaveBack' = gaveBack
        /\ lost' = lost
    BY <1>1 DEF vars
  <2>2. TypeInv' BY <2>1 DEF Inv, TypeInv
  <2>3. HeapInv' BY <2>1 DEF Inv, HeapInv
  <2>4. Undamaged BY <2>1 DEF Undamaged
  <2> QED BY <2>2, <2>3, <2>4 DEF Inv
<1>2. ASSUME NEW b \in Bucket, MemAlloc(b) PROVE Inv' /\ (~gaveBack' => Undamaged) BY <1>2, MemAllocStep
<1>3. ASSUME NEW n \in 1..MaxRun, BigAlloc(n) PROVE Inv' /\ (~gaveBack' => Undamaged) BY <1>3, BigAllocStep
<1>4. ASSUME NEW x, NEW b, MemDealloc(x, b) PROVE Inv' /\ (~gaveBack' => Undamaged) BY <1>4, MemDeallocStep
<1>5. ASSUME NEW p, NEW n, BigDealloc(p, n) PROVE Inv' /\ (~gaveBack' => Undamaged) BY <1>5, BigDeallocStep
<1> QED BY <1>1, <1>2, <1>3, <1>4, <1>5 DEF Next

\* The invariant holds: every state until a page goes back has a layout.
THEOREM HeapStaysSound == Spec => []Inv
<1>1. Inv /\ [Next]_vars => Inv' BY NextInv
<1> QED BY <1>1, InitInv, PTL DEF Spec

(***************************************************************************)
(* What follows.                                                           *)
(***************************************************************************)

\* The state has its type, and until a page goes back no chunk counts more bytes than
\* its page has.
THEOREM TypeCorrect == Spec => []TypeOK
<1>1. Inv => TypeOK
  <2> SUFFICES ASSUME Inv PROVE TypeOK OBVIOUS
  <2>1. heap \in [mem : [Word -> Int], list : [Bucket -> {Null} \cup Word], free : SUBSET Page, fault : BOOLEAN]
    <3>1. heap \in HeapType BY DEF Inv, TypeInv
    <3>2. heap.list \in [Bucket -> {Null} \cup Word] BY <3>1, HeapParts, PageStarts
    <3> QED BY <3>1, <3>2 DEF HeapType
  <2>2. ASSUME ~gaveBack, NEW b \in Bucket, NEW cs, cs = Chunks(heap, b), NEW e \in DOMAIN cs
        PROVE  heap.mem[BytesUsed(cs[e])] <= PageWords
    <3>1. PICK g : Sound(heap, held, g) BY <2>2 DEF Inv, HeapInv
    <3>2. Meets(g, b, cs) BY <2>2, <3>1, ChunksMet
    <3>3. PICK c : c = cs[e] OBVIOUS
    <3>4. IsChunk(g, b, c) BY <2>2, <3>2, <3>3 DEF Meets
    <3>5. c \in Word /\ BytesUsed(c) \in Word BY <3>1, <3>4, ChunkLies
    <3>6. heap.mem[BytesUsed(c)] + Buckets[b] * g.left[c] = PageWords
      BY <3>1, <3>4, <3>5 DEF Sound, ChunksAre, ChunkIs
    <3>7. /\ heap.mem[BytesUsed(c)] \in Int /\ Buckets[b] \in Nat /\ g.left[c] \in Nat /\ PageWords \in Nat
      BY <3>1, <3>5, HeapParts, ConstantTypes, LayoutParts DEF Sound
    <3>8. PICK s, n, u : s = Buckets[b] /\ n = g.left[c] /\ u = heap.mem[BytesUsed(c)] OBVIOUS
    <3>9. s * n \in Nat BY <3>7, <3>8
    <3>10. u <= PageWords BY <3>6, <3>7, <3>8, <3>9
    <3> QED BY <3>3, <3>8, <3>10
  <2>3. ~gaveBack => \A b \in Bucket : LET chunks == Chunks(heap, b) IN
                       \A e \in DOMAIN chunks : heap.mem[BytesUsed(chunks[e])] <= PageWords
    BY <2>2
  <2> QED BY <2>1, <2>3 DEF TypeOK, Inv, TypeInv
<1> QED BY <1>1, HeapStaysSound, PTL

\* Until a page goes back the heap follows no pointer that a caller, or nobody, wrote.
THEOREM NoWildPointerFollowed == Spec => []NoWildPointer
<1>1. Inv => NoWildPointer BY DEF Inv, HeapInv, NoWildPointer, Sound
<1> QED BY <1>1, HeapStaysSound, PTL

\* Until a page goes back the blocks with callers and the blocks on lists do not meet.
THEOREM BlocksStayApart == Spec => []BlocksApart
<1>1. ASSUME Inv, ~gaveBack, NEW listed, listed = AllListed(heap)
      PROVE  /\ \A r, s \in held : r # s => Block(r[1], r[2]) \cap Block(s[1], s[2]) = {}
             /\ \A l \in listed :
                   /\ l.block[1] \in Word /\ l.block[1] % Buckets[l.block[2]] = 0
                   /\ PageOf(l.block[1]) \notin heap.free
                   /\ \A r \in held : Block(l.block[1], l.block[2]) \cap Block(r[1], r[2]) = {}
                   /\ \A n \in listed : l # n => Block(l.block[1], l.block[2]) \cap Block(n.block[1], n.block[2]) = {}
  <2>1. PICK g : Sound(heap, held, g) BY <1>1 DEF Inv, HeapInv
  <2>2. ASSUME NEW r \in held PROVE r[2] \in Bucket /\ IsBlock(g, r[2], r[1]) /\ r = <<r[1], r[2]>>
    BY <2>1 DEF Sound, HeldAre
  <2>3. ASSUME NEW r \in held, NEW s \in held, r # s
        PROVE  Block(r[1], r[2]) \cap Block(s[1], s[2]) = {}
    <3>1. PICK x, b, y, d : x = r[1] /\ b = r[2] /\ y = s[1] /\ d = s[2] OBVIOUS
    <3>2. b \in Bucket /\ IsBlock(g, b, x) /\ r = <<x, b>> BY <2>2, <3>1
    <3>3. d \in Bucket /\ IsBlock(g, d, y) /\ s = <<y, d>> BY <2>2, <3>1
    <3>4. Block(x, b) \cap Block(y, d) = {} BY <2>3, <3>2, <3>3, BlocksOfLayout
    <3> QED BY <3>1, <3>4
  <2>4. ASSUME NEW l \in listed
        PROVE  /\ l.block[1] \in Word /\ l.block[1] % Buckets[l.block[2]] = 0
               /\ PageOf(l.block[1]) \notin heap.free
               /\ \A r \in held : Block(l.block[1], l.block[2]) \cap Block(r[1], r[2]) = {}
               /\ \A n \in listed : l # n => Block(l.block[1], l.block[2]) \cap Block(n.block[1], n.block[2]) = {}
    <3>1. PICK b, e, k : ListsAt(heap, g, l, b, e, k) BY <1>1, <2>1, ListedIs
    <3>2. PICK x : /\ b \in Bucket /\ l.block[1] = x /\ l.block[2] = b
                   /\ IsBlock(g, b, x) /\ <<x, b>> \notin held
      BY <2>1, <3>1, ListedParts
    <3>3. x \in Word /\ x % Buckets[b] = 0 BY <3>2 DEF IsBlock
    <3>4. PageOf(x) \notin heap.free BY <2>1, <3>2, FreeIsBare
    <3>5. ASSUME NEW r \in held PROVE Block(x, b) \cap Block(r[1], r[2]) = {}
      <4>1. PICK y, d : y = r[1] /\ d = r[2] OBVIOUS
      <4>2. d \in Bucket /\ IsBlock(g, d, y) /\ r = <<y, d>> BY <2>2, <4>1
      <4>3. <<x, b>> # <<y, d>> BY <3>2, <4>2
      <4>4. Block(x, b) \cap Block(y, d) = {} BY <3>2, <4>2, <4>3, BlocksOfLayout
      <4> QED BY <4>1, <4>4
    <3>6. ASSUME NEW n \in listed, l # n PROVE Block(x, b) \cap Block(n.block[1], n.block[2]) = {}
      <4>1. PICK d, f, j : ListsAt(heap, g, n, d, f, j) BY <1>1, <2>1, ListedIs
      <4>2. PICK y : /\ d \in Bucket /\ n.block[1] = y /\ n.block[2] = d /\ IsBlock(g, d, y) /\ <<y, d>> \notin held
        BY <2>1, <4>1, ListedParts
      <4>3. x = y /\ b = d => l = n BY <2>1, <3>1, <3>2, <4>1, <4>2, ListedDiffer
      <4>4. <<x, b>> # <<y, d>> BY <3>6, <4>3
      <4>5. Block(x, b) \cap Block(y, d) = {} BY <3>2, <4>2, <4>4, BlocksOfLayout
      <4> QED BY <4>2, <4>5
    <3> QED BY <3>2, <3>3, <3>4, <3>5, <3>6
  <2> QED BY <2>3, <2>4
<1>2. Inv => BlocksApart BY <1>1 DEF BlocksApart
<1> QED BY <1>2, HeapStaysSound, PTL

\* Until a page goes back the PMM has no page that a caller has a block of: what the
\* run KernelHeapRelease shows broken takes a release.
THEOREM OwnPagesUntilRelease == Spec => [](~gaveBack => OnOwnPages)
<1>1. Inv /\ ~gaveBack => OnOwnPages
  <2> SUFFICES ASSUME Inv, ~gaveBack, NEW r \in held PROVE PageOf(r[1]) \notin heap.free BY DEF OnOwnPages
  <2>1. PICK g : Sound(heap, held, g) BY DEF Inv, HeapInv
  <2>2. PICK x, b : x = r[1] /\ b = r[2] OBVIOUS
  <2>3. IsBlock(g, b, x) BY <2>1, <2>2 DEF Sound, HeldAre
  <2> QED BY <2>1, <2>2, <2>3, FreeIsBare
<1> QED BY <1>1, HeapStaysSound, PTL

\* A null with pages left is not given twice: the next memalloc of the bucket gets a block.
THEOREM NullIsRetried == Spec => []NullIsNotFinal
<1>1. Inv => NullIsNotFinal
  <2> SUFFICES ASSUME Inv, ~gaveBack, lastNull # 0, heap.free # {} PROVE AllocMem(heap, lastNull).ptr # Null
      BY DEF NullIsNotFinal
  <2>1. PICK g : Sound(heap, held, g) /\ MayRetry(heap, g, lastNull) BY DEF Inv, HeapInv
  <2>2. lastNull \in Bucket BY DEF Inv, TypeInv
  <2> QED BY <2>1, <2>2, RetryServes
<1> QED BY <1>1, HeapStaysSound, PTL

\* No call changes a word of a block a caller keeps, but for the first word of the page
\* above one that init_chunk took.
THEOREM DamageIsPastEnd == Spec => OnlyPastEndIsDamaged
<1>1. Inv /\ [Next]_vars => [~gaveBack' => Undamaged]_vars BY NextInv
<1>2. [~gaveBack' => Undamaged]_vars
        => [~gaveBack' => \A r \in held \cap held' : \A a \in Block(r[1], r[2]) :
              heap'.mem[a] # heap.mem[a] =>
                  a % PageWords = 0 /\ PageOf(a) - 1 \in heap.free \ heap'.free]_vars
  BY DEF Undamaged
<1> QED BY <1>1, <1>2, HeapStaysSound, PTL DEF Spec, OnlyPastEndIsDamaged

=============================================================================
