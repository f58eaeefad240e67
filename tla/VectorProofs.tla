---------------------------- MODULE VectorProofs -----------------------------
(***************************************************************************)
(* Proofs about Vector, for every set of vectors, blocks and elements,     *)
(* every first capacity and every length of a history: the vectors hold    *)
(* what their operations mean, in buffers of their own, and only the       *)
(* operations of Known go wrong, as listed there.  And about Strings: they *)
(* hold their text and its end, but for the operations listed there.       *)
(***************************************************************************)
EXTENDS Vector, Strings, NaturalsInduction, WellFoundedInduction, TLAPS

Cell  == Elements \cup {Raw}
Vec   == [start : Blocks \cup {NoBlock}, cap : Nat, siz : Nat]
Event == {"panic", "leak", "dangling", "raw", "null", "outside", "overwritten", "cut", "dropped"}
State == [mem : [Blocks -> Seq(Cell)], vec : [Vecs -> Vec], elem : Elem, event : SUBSET Event]

\* t is s but for the cells of the blocks B and for what went wrong.
Same(s, t, B) ==
    /\ t \in State /\ t.vec = s.vec /\ t.elem = s.elem
    /\ \A c \in Blocks \ B : t.mem[c] = s.mem[c]

\* The parts of a state.
LEMMA StateParts ==
    ASSUME NEW s \in State
    PROVE  /\ s.mem \in [Blocks -> Seq(Cell)] /\ s.vec \in [Vecs -> Vec] /\ s.elem \in Elem
           /\ s.event \in SUBSET Event
           /\ s = [mem |-> s.mem, vec |-> s.vec, elem |-> s.elem, event |-> s.event]
BY DEF State

\* A state with another event or other cells.
LEMMA StateExcept ==
    ASSUME NEW s \in State, NEW w
    PROVE  /\ [s EXCEPT !.event = w] = [mem |-> s.mem, vec |-> s.vec, elem |-> s.elem, event |-> w]
           /\ [s EXCEPT !.mem = w] = [mem |-> w, vec |-> s.vec, elem |-> s.elem, event |-> s.event]
           /\ [s EXCEPT !.vec = w] = [mem |-> s.mem, vec |-> w, elem |-> s.elem, event |-> s.event]
<1>1. PICK m, v, l, e : s = [mem |-> m, vec |-> v, elem |-> l, event |-> e] BY DEF State
<1>2. s.mem = m /\ s.vec = v /\ s.elem = l /\ s.event = e BY <1>1
<1> QED BY ONLY <1>1, <1>2

\* Two changes are one, of all the blocks they touch.
LEMMA SameTwice ==
    ASSUME NEW s, NEW t, NEW u, NEW B, NEW C, Same(s, t, B), Same(t, u, C)
    PROVE  Same(s, u, B \cup C)
BY DEF Same

\* A change of some blocks is a change of more.
LEMMA SameMore ==
    ASSUME NEW s, NEW t, NEW B, NEW C, Same(s, t, B), B \subseteq C
    PROVE  Same(s, t, C)
BY DEF Same

\* Something goes wrong.
Raised(s, what) == [s EXCEPT !.event = @ \cup {what}]

\* Only the event changes.
LEMMA RaisedIs ==
    ASSUME NEW s \in State, NEW what \in Event, NEW t, t = Raised(s, what)
    PROVE  Same(s, t, {}) /\ t.mem = s.mem /\ t.event = s.event \cup {what}
<1>1. PICK e : e = s.event \cup {what} OBVIOUS
<1>2. t = [mem |-> s.mem, vec |-> s.vec, elem |-> s.elem, event |-> e]
  BY <1>1, StateExcept DEF Raised
<1>3. e \in SUBSET Event BY <1>1, StateParts
<1>4. t \in State BY <1>2, <1>3, StateParts DEF State
<1>5. t.mem = s.mem /\ t.vec = s.vec /\ t.elem = s.elem /\ t.event = e BY <1>2
<1> QED BY <1>1, <1>4, <1>5 DEF Same

\* Other cells for a block.
Stored(s, b, x) == [s EXCEPT !.mem[b] = x]

Stores(s, b, x, t) == Same(s, t, {b}) /\ t.mem[b] = x /\ t.event = s.event

\* Storing cells in a block leaves the rest alone.
LEMMA PutIs ==
    ASSUME NEW s \in State, NEW b \in Blocks, NEW x \in Seq(Cell), NEW t, t = Stored(s, b, x)
    PROVE  Stores(s, b, x, t)
<1>1. PICK f : f = [s.mem EXCEPT ![b] = x] OBVIOUS
<1>2. f \in [Blocks -> Seq(Cell)] /\ f[b] = x /\ \A c \in Blocks \ {b} : f[c] = s.mem[c]
  BY <1>1, StateParts
<1>3. t = [mem |-> f, vec |-> s.vec, elem |-> s.elem, event |-> s.event]
  BY <1>1, StateExcept DEF Stored
<1>4. t \in State BY <1>2, <1>3, StateParts DEF State
<1> QED BY <1>2, <1>3, <1>4 DEF Same, Stores

\* Cells of a block, and sequences made from them.
LEMMA SeqIs ==
    ASSUME NEW n \in Nat, NEW f, DOMAIN f = 1..n, \A i \in 1..n : f[i] \in Cell,
           f = [i \in 1..n |-> f[i]]
    PROVE  f \in Seq(Cell) /\ Len(f) = n
<1>1. f \in [1..n -> Cell] OBVIOUS
<1> QED BY <1>1

\* What a block holds is a sequence of cells.
LEMMA BlockCells ==
    ASSUME NEW s \in State, NEW b \in Blocks
    PROVE  /\ s.mem[b] \in Seq(Cell) /\ Len(s.mem[b]) \in Nat /\ DOMAIN s.mem[b] = 1..Len(s.mem[b])
           /\ \A i \in 1..Len(s.mem[b]) : s.mem[b][i] \in Cell
           /\ IsFree(s, b) <=> Len(s.mem[b]) = 0
           /\ Cells(s, b) = s.mem[b]
<1>1. s.mem[b] \in Seq(Cell) BY StateParts
<1>2. b # NoBlock BY AllocAssumption
<1> QED BY <1>1, <1>2 DEF IsFree, Cells

\* Fresh memory is raw.
LEMMA RawCellsIs ==
    ASSUME NEW n \in Nat
    PROVE  RawCells(n) \in Seq(Cell) /\ Len(RawCells(n)) = n /\ \A i \in 1..n : RawCells(n)[i] = Raw
<1>1. RawCells(n) \in [1..n -> Cell] BY DEF RawCells, Cell
<1> QED BY <1>1 DEF RawCells

\* The first cells of a sequence.
LEMMA FirstIs ==
    ASSUME NEW cells \in Seq(Cell), NEW n \in Nat, n <= Len(cells)
    PROVE  First(cells, n) \in Seq(Cell) /\ Len(First(cells, n)) = n
           /\ \A i \in 1..n : First(cells, n)[i] = cells[i]
<1>1. \A i \in 1..n : cells[i] \in Cell OBVIOUS
<1>2. First(cells, n) \in [1..n -> Cell] BY <1>1 DEF First
<1> QED BY <1>2 DEF First

-----------------------------------------------------------------------------
(* The allocator and the steps on objects.                                 *)

\* The cells of a block of m cells after the first c of others were moved into it.
MovedTo(cells, c, m) == IF c <= m THEN [i \in 1..m |-> IF i <= c THEN cells[i] ELSE Raw] ELSE RawCells(m)

\* The cells after xs was put over them, and after those first to last were destroyed.
Over(cells, xs) == [i \in DOMAIN cells |-> IF i <= Len(xs) THEN xs[i] ELSE cells[i]]
Wiped(cells, first, last) == [i \in DOMAIN cells |-> IF i \in first..last THEN Raw ELSE cells[i]]

\* Cells that were moved are a sequence of the new length.
LEMMA MovedToIs ==
    ASSUME NEW cells \in Seq(Cell), NEW c \in Nat, c <= Len(cells), NEW m \in Nat
    PROVE  /\ MovedTo(cells, c, m) \in Seq(Cell) /\ Len(MovedTo(cells, c, m)) = m
           /\ c <= m => \A i \in 1..m : MovedTo(cells, c, m)[i] = IF i <= c THEN cells[i] ELSE Raw
           /\ c > m => \A i \in 1..m : MovedTo(cells, c, m)[i] = Raw
<1>1. CASE c <= m
  <2>1. \A i \in 1..m : i <= c => cells[i] \in Cell OBVIOUS
  <2>2. MovedTo(cells, c, m) \in [1..m -> Cell] BY <1>1, <2>1 DEF MovedTo, Cell
  <2> QED BY <1>1, <2>2 DEF MovedTo
<1>2. CASE c > m BY <1>2, RawCellsIs DEF MovedTo
<1> QED BY <1>1, <1>2

\* Cells that were overwritten are as many as before.
LEMMA OverIs ==
    ASSUME NEW cells \in Seq(Cell), NEW xs \in Seq(Cell)
    PROVE  /\ Over(cells, xs) \in Seq(Cell) /\ Len(Over(cells, xs)) = Len(cells)
           /\ \A i \in 1..Len(cells) : Over(cells, xs)[i] = IF i <= Len(xs) THEN xs[i] ELSE cells[i]
<1>1. DOMAIN cells = 1..Len(cells) /\ Len(cells) \in Nat /\ Len(xs) \in Nat OBVIOUS
<1>2. \A i \in 1..Len(cells) : cells[i] \in Cell OBVIOUS
<1>3. \A i \in 1..Len(xs) : xs[i] \in Cell OBVIOUS
<1>4. Over(cells, xs) \in [1..Len(cells) -> Cell] BY <1>1, <1>2, <1>3 DEF Over
<1> QED BY <1>1, <1>4 DEF Over

\* And cells that were destroyed.
LEMMA WipedIs ==
    ASSUME NEW cells \in Seq(Cell), NEW first \in Nat, NEW last \in Nat
    PROVE  /\ Wiped(cells, first, last) \in Seq(Cell) /\ Len(Wiped(cells, first, last)) = Len(cells)
           /\ \A i \in 1..Len(cells) :
                 Wiped(cells, first, last)[i] = IF i \in first..last THEN Raw ELSE cells[i]
<1>1. DOMAIN cells = 1..Len(cells) /\ Len(cells) \in Nat OBVIOUS
<1>2. \A i \in 1..Len(cells) : cells[i] \in Cell OBVIOUS
<1>3. Wiped(cells, first, last) \in [1..Len(cells) -> Cell] BY <1>1, <1>2 DEF Wiped, Cell
<1> QED BY <1>1, <1>3 DEF Wiped

\* What memalloc makes of s: a raw block, or nothing.
Allocated(s, n, b, h) ==
    /\ h.count = n
    /\ n = 0 \/ b = NoBlock => h.s = s /\ h.ptr = NoBlock
    /\ n > 0 /\ b # NoBlock => /\ h.ptr = b /\ Same(s, h.s, {b}) /\ h.s.mem[b] = RawCells(n)
                               /\ h.s.event = s.event

\* memalloc does what Allocated says.
LEMMA AllocIs ==
    ASSUME NEW s \in State, NEW n \in Nat, NEW b \in Blocks \cup {NoBlock},
           NEW h, h = AllocUninitialized(s, n, b)
    PROVE  Allocated(s, n, b, h)
<1>1. CASE n = 0 \/ b = NoBlock BY <1>1 DEF AllocUninitialized, Handle, Allocated
<1>2. CASE n > 0 /\ b # NoBlock
  <2>1. PICK x : x = RawCells(n) OBVIOUS
  <2>2. PICK t : t = Stored(s, b, x) OBVIOUS
  <2>3. h = [s |-> t, ptr |-> b, count |-> n] BY <1>2, <2>1, <2>2 DEF AllocUninitialized, Handle, Stored
  <2>4. x \in Seq(Cell) BY <2>1, RawCellsIs
  <2>5. Same(s, t, {b}) /\ t.mem[b] = x /\ t.event = s.event BY <1>2, <2>2, <2>4, PutIs DEF Stores
  <2> QED BY <1>2, <2>1, <2>3, <2>5 DEF Allocated
<1> QED BY <1>1, <1>2

LEMMA EmptySeqIs == <<>> \in Seq(Cell) /\ Len(<<>>) = 0 OBVIOUS

\* And memdealloc.
Freed(s, p, count, t) ==
    /\ p = NoBlock \/ count = 0 => t = s
    /\ p \in Blocks /\ count > 0 => Same(s, t, {p}) /\ IsFree(t, p) /\ t.event = s.event

\* memdealloc does what Freed says.
LEMMA DeallocIs ==
    ASSUME NEW s \in State, NEW p \in Blocks \cup {NoBlock}, NEW count \in Nat, NEW t, t = Dealloc(s, p, count)
    PROVE  Freed(s, p, count, t)
<1>1. CASE p = NoBlock \/ count = 0 BY <1>1, AllocAssumption DEF Dealloc, Freed
<1>2. CASE p \in Blocks /\ count > 0
  <2>1. t = Stored(s, p, <<>>) BY <1>2, AllocAssumption DEF Dealloc, Stored
  <2>3. PICK z : z = <<>> OBVIOUS
  <2>4. z \in Seq(Cell) BY <2>3
  <2>5. t = Stored(s, p, z) BY <2>1, <2>3
  <2>2. Same(s, t, {p}) /\ t.mem[p] = z /\ t.event = s.event BY <1>2, <2>4, <2>5, PutIs DEF Stores
  <2> QED BY <1>2, <2>2, <2>3, AllocAssumption DEF IsFree, Freed
<1> QED BY <1>1, <1>2

\* What the placement of xs in p makes of s.
Placed(s, p, xs, t) ==
    /\ xs = <<>> => t = s
    /\ xs # <<>> /\ p = NoBlock =>
          Same(s, t, {}) /\ t.mem = s.mem /\ t.event = s.event \cup {"null"}
    /\ xs # <<>> /\ p # NoBlock /\ Len(xs) > Len(s.mem[p]) =>
          Same(s, t, {}) /\ t.mem = s.mem /\ t.event = s.event \cup {"outside"}
    /\ xs # <<>> /\ p # NoBlock /\ Len(xs) <= Len(s.mem[p]) =>
          /\ Same(s, t, {p}) /\ t.mem[p] = Over(s.mem[p], xs)
          /\ t.event = s.event \cup
                (IF s.elem = "class" /\ \E i \in DOMAIN xs : s.mem[p][i] # Raw
                 THEN {"overwritten"} ELSE {})

\* Construction of all of xs does what Placed says.
LEMMA ConstructAllIs ==
    ASSUME NEW s \in State, NEW p \in Blocks \cup {NoBlock}, NEW xs \in Seq(Cell),
           NEW t, t = ConstructAll(s, p, xs)
    PROVE  Placed(s, p, xs, t)
<1>0. Len(xs) \in Nat /\ (xs # <<>> => Len(xs) > 0) OBVIOUS
<1>1. CASE xs = <<>> BY <1>1 DEF ConstructAll, Placed
<1>2. CASE xs # <<>> /\ p = NoBlock
  <2>1. Len(xs) > Len(Cells(s, p)) BY <1>0, <1>2 DEF Cells
  <2>2. t = Raised(s, "null") BY <1>2, <2>1 DEF ConstructAll, Flag, Raised
  <2>4. "null" \in Event BY DEF Event
  <2>3. Same(s, t, {}) /\ t.mem = s.mem /\ t.event = s.event \cup {"null"} BY <2>2, <2>4, RaisedIs
  <2> QED BY <1>2, <2>3 DEF Placed
<1>3. CASE xs # <<>> /\ p # NoBlock /\ Len(xs) > Len(s.mem[p])
  <2>1. p \in Blocks /\ Cells(s, p) = s.mem[p] BY <1>3, BlockCells
  <2>2. t = Raised(s, "outside") BY <1>3, <2>1 DEF ConstructAll, Flag, Raised
  <2>4. "outside" \in Event BY DEF Event
  <2>3. Same(s, t, {}) /\ t.mem = s.mem /\ t.event = s.event \cup {"outside"} BY <2>2, <2>4, RaisedIs
  <2> QED BY <1>0, <1>3, <2>3 DEF Placed
<1>4. CASE xs # <<>> /\ p # NoBlock /\ Len(xs) <= Len(s.mem[p])
  <2>1. p \in Blocks /\ Cells(s, p) = s.mem[p] /\ Len(s.mem[p]) \in Nat /\ s.mem[p] \in Seq(Cell)
    BY <1>4, BlockCells
  <2> DEFINE over == s.elem = "class" /\ \E i \in DOMAIN xs : s.mem[p][i] # Raw
  <2>3. PICK u : u = IF over THEN Raised(s, "overwritten") ELSE s OBVIOUS
  <2>4. Same(s, u, {}) /\ u.mem = s.mem /\ u.event = s.event \cup (IF over THEN {"overwritten"} ELSE {})
    <3>1. CASE over
      <4>1. u = Raised(s, "overwritten") /\ "overwritten" \in Event BY <2>3, <3>1 DEF Event
      <4>2. Same(s, u, {}) /\ u.mem = s.mem /\ u.event = s.event \cup {"overwritten"} BY <4>1, RaisedIs
      <4> QED BY <3>1, <4>2
    <3>2. CASE ~over BY <2>3, <3>2 DEF Same
    <3> QED BY <3>1, <3>2
  <2>5. u \in State BY <2>4 DEF Same
  <2>6. ~(Len(xs) > Len(Cells(s, p))) BY <1>0, <1>4, <2>1
  <2>7. t = [u EXCEPT !.mem[p] = [i \in DOMAIN u.mem[p] |-> IF i <= Len(xs) THEN xs[i] ELSE u.mem[p][i]]]
    BY <1>4, <2>3, <2>6 DEF ConstructAll, Flag, Raised
  <2>8. PICK c : c = Over(s.mem[p], xs) OBVIOUS
  <2>9. t = Stored(u, p, c) BY <2>4, <2>7, <2>8 DEF Over, Stored
  <2>10. c \in Seq(Cell) BY <2>1, <2>8, OverIs
  <2>14. p \in Blocks BY <2>1
  <2>11. Same(u, t, {p}) /\ t.mem[p] = c /\ t.event = u.event BY ONLY <2>14, <2>5, <2>9, <2>10, PutIs DEF Stores
  <2>12. Same(s, t, {} \cup {p}) BY <2>4, <2>11, SameTwice
  <2>13. Same(s, t, {p}) BY <2>12
  <2> QED BY <1>0, <1>4, <2>1, <2>4, <2>8, <2>11, <2>13 DEF Placed
<1> QED BY <1>0, <1>1, <1>2, <1>3, <1>4

\* Some of the first n cells has no object.
SomeRaw(cells, first, last) == \E i \in first..last : cells[i] = Raw

\* What the destruction of cells of p makes of s.
Ended(s, p, first, last, t) ==
    /\ first > last => t = s
    /\ first <= last =>
          /\ Same(s, t, {p}) /\ t.mem[p] = Wiped(s.mem[p], first, last)
          /\ t.event = s.event \cup
                (IF s.elem = "class" /\ SomeRaw(s.mem[p], first, last) THEN {"raw"} ELSE {})

\* Destruction does what Ended says.
LEMMA DestroyIs ==
    ASSUME NEW s \in State, NEW p \in Blocks, NEW first \in Nat, NEW last \in Nat,
           last <= Len(s.mem[p]), NEW t, t = Destroy(s, p, first, last)
    PROVE  Ended(s, p, first, last, t)
<1>1. CASE first > last BY <1>1 DEF Destroy, Ended
<1>2. CASE first <= last
  <2>1. Cells(s, p) = s.mem[p] /\ Len(s.mem[p]) \in Nat /\ s.mem[p] \in Seq(Cell) BY BlockCells
  <2> DEFINE raw == s.elem = "class" /\ SomeRaw(s.mem[p], first, last)
  <2>2. PICK u : u = IF raw THEN Raised(s, "raw") ELSE s OBVIOUS
  <2>3. Same(s, u, {}) /\ u.mem = s.mem /\ u.event = s.event \cup (IF raw THEN {"raw"} ELSE {})
    <3>1. CASE raw
      <4>1. u = Raised(s, "raw") /\ "raw" \in Event BY <2>2, <3>1 DEF Event
      <4>2. Same(s, u, {}) /\ u.mem = s.mem /\ u.event = s.event \cup {"raw"} BY <4>1, RaisedIs
      <4> QED BY <3>1, <4>2
    <3>2. CASE ~raw BY <2>2, <3>2 DEF Same
    <3> QED BY <3>1, <3>2
  <2>4. u \in State BY <2>3 DEF Same
  <2>5. PICK c : c = Wiped(s.mem[p], first, last) OBVIOUS
  <2>6. t = [u EXCEPT !.mem[p] = [i \in DOMAIN u.mem[p] |-> IF i \in first..last THEN Raw ELSE u.mem[p][i]]]
    BY <1>2, <2>1, <2>2 DEF Destroy, Flag, Raised, SomeRaw
  <2>7. t = Stored(u, p, c) BY <2>3, <2>5, <2>6 DEF Wiped, Stored
  <2>8. c \in Seq(Cell) BY <2>1, <2>5, WipedIs
  <2>9. Same(u, t, {p}) /\ t.mem[p] = c /\ t.event = u.event BY ONLY p \in Blocks, <2>4, <2>7, <2>8, PutIs DEF Stores
  <2>10. Same(s, t, {} \cup {p}) BY <2>3, <2>9, SameTwice
  <2>11. Same(s, t, {p}) BY <2>10
  <2> QED BY <1>2, <2>3, <2>5, <2>9, <2>11 DEF Ended
<1> QED BY <1>1, <1>2

\* When nothing is moved, the new memory is raw.
LEMMA NoneMoved ==
    ASSUME NEW cells \in Seq(Cell), NEW n \in Nat
    PROVE  MovedTo(cells, 0, n) = RawCells(n)
BY DEF MovedTo, RawCells

\* What goes wrong when c objects, some of them raw or not, are moved to a block of n cells.
MoveEvents(cells, c, q, n) ==
    (IF SomeRaw(cells, 1, c) THEN {"raw"} ELSE {})
      \cup (IF c = 0 THEN {} ELSE IF q = NoBlock THEN {"null"} ELSE IF c > n THEN {"outside"} ELSE {})

\* The whole of a buffer is given back after its first c objects went to a new one.
Transferred(s, p, q, n, c, t) ==
    /\ Same(s, t, {p, q}) /\ IsFree(t, p)
    /\ t.event = s.event \cup MoveEvents(s.mem[p], c, q, n)
    /\ q # NoBlock => t.mem[q] = MovedTo(s.mem[p], c, n)

\* The move to a new buffer does what Transferred says.
LEMMA TransferIs ==
    ASSUME NEW s \in State, s.elem = "class", NEW p \in Blocks, NEW old \in Nat, old = Len(s.mem[p]), old > 0,
           NEW q \in Blocks \cup {NoBlock}, q # p, NEW n \in Nat, q # NoBlock => s.mem[q] = RawCells(n),
           NEW c \in Nat, c <= old, NEW t, t = Transfer(s, p, old, q, c, c)
    PROVE  Transferred(s, p, q, n, c, t)
<1>1. /\ Cells(s, p) = s.mem[p] /\ s.mem[p] \in Seq(Cell) BY BlockCells
<1>2. PICK cells : cells = s.mem[p] OBVIOUS
<1>3. PICK xs : xs = First(cells, c) OBVIOUS
<1>4. xs \in Seq(Cell) /\ Len(xs) = c /\ \A i \in 1..c : xs[i] = cells[i] BY <1>1, <1>2, <1>3, FirstIs
<1> DEFINE raw == SomeRaw(cells, 1, c)
           raws == IF raw THEN {"raw"} ELSE {}
           lost == IF c = 0 THEN {} ELSE IF q = NoBlock THEN {"null"} ELSE IF c > n THEN {"outside"} ELSE {}
<1>5. PICK s1 : s1 = IF raw THEN Raised(s, "raw") ELSE s OBVIOUS
<1>6. Same(s, s1, {}) /\ s1.mem = s.mem /\ s1.event = s.event \cup raws
  <2>1. CASE raw
    <3>1. s1 = Raised(s, "raw") /\ "raw" \in Event BY <1>5, <2>1 DEF Event
    <3>2. Same(s, s1, {}) /\ s1.mem = s.mem /\ s1.event = s.event \cup {"raw"} BY <3>1, RaisedIs
    <3> QED BY <2>1, <3>2
  <2>2. CASE ~raw BY <1>5, <2>2 DEF Same
  <2> QED BY <2>1, <2>2
<1>7. PICK s2 : s2 = ConstructAll(s1, q, xs) OBVIOUS
<1>8. t = Dealloc(Destroy(s2, p, 1, c), p, old)
  <2>1. ~(c > Len(cells)) /\ ~(c > old) BY <1>2
  <2>2. s1 = Flag(s, \E i \in 1..c : cells[i] = Raw, "raw") BY <1>5 DEF Flag, Raised, SomeRaw
  <2> QED BY <1>1, <1>2, <1>3, <1>7, <2>1, <2>2 DEF Transfer, Flag
<1>9. s1 \in State BY <1>6 DEF Same
<1>10. RawCells(n) \in Seq(Cell) /\ Len(RawCells(n)) = n /\ \A i \in 1..n : RawCells(n)[i] = Raw
  BY RawCellsIs
<1>21. Placed(s1, q, xs, s2) BY <1>4, <1>7, <1>9, ConstructAllIs
<1>11. /\ Same(s1, s2, {q}) /\ s2.event = s1.event \cup lost
       /\ q # NoBlock => s2.mem[q] = MovedTo(cells, c, n)
  <2>1. CASE c = 0
    <3>1. xs = <<>> BY <1>4, <2>1
    <3>2. s2 = s1 BY <3>1, <1>21 DEF Placed
    <3>3. q # NoBlock => s2.mem[q] = MovedTo(cells, c, n) BY <1>1, <1>2, <1>6, <2>1, <3>2, NoneMoved
    <3> QED BY <1>9, <2>1, <3>2, <3>3 DEF Same
  <2>2. CASE c > 0 /\ q = NoBlock
    <3>1. xs # <<>> BY <1>4, <2>2
    <3>2. Same(s1, s2, {}) /\ s2.event = s1.event \cup {"null"}
      BY <1>21, <2>2, <3>1 DEF Placed
    <3>3. Same(s1, s2, {q}) BY <3>2, SameMore
    <3> QED BY <2>2, <3>2, <3>3
  <2>3. CASE c > n /\ q # NoBlock
    <3>1. xs # <<>> /\ Len(xs) > Len(s1.mem[q]) BY <1>4, <1>6, <1>10, <2>3
    <3>2. Same(s1, s2, {}) /\ s2.mem = s1.mem /\ s2.event = s1.event \cup {"outside"}
      BY <1>21, <2>3, <3>1 DEF Placed
    <3>3. Same(s1, s2, {q}) BY <3>2, SameMore
    <3>4. s2.mem[q] = MovedTo(cells, c, n) BY <1>6, <2>3, <3>2 DEF MovedTo
    <3> QED BY <2>3, <3>2, <3>3, <3>4
  <2>4. CASE c > 0 /\ c <= n /\ q # NoBlock
    <3>1. xs # <<>> /\ Len(xs) <= Len(s1.mem[q]) /\ s1.mem[q] = RawCells(n) BY <1>4, <1>6, <1>10, <2>4
    <3>2. ~(s1.elem = "class" /\ \E i \in DOMAIN xs : s1.mem[q][i] # Raw)
      <4>1. DOMAIN xs = 1..c BY <1>4
      <4> QED BY <1>10, <2>4, <3>1, <4>1
    <3>3. /\ Same(s1, s2, {q}) /\ s2.mem[q] = Over(s1.mem[q], xs)
          /\ s2.event = s1.event \cup (IF s1.elem = "class" /\ \E i \in DOMAIN xs : s1.mem[q][i] # Raw
                                       THEN {"overwritten"} ELSE {})
      BY <1>21, <2>4, <3>1 DEF Placed
    <3>4. Over(RawCells(n), xs) = MovedTo(cells, c, n)
      <4>1. DOMAIN RawCells(n) = 1..n BY DEF RawCells
      <4>2. \A i \in 1..n : (IF i <= Len(xs) THEN xs[i] ELSE RawCells(n)[i]) = (IF i <= c THEN cells[i] ELSE Raw)
        BY <1>4, <1>10
      <4> QED BY <2>4, <4>1, <4>2 DEF Over, MovedTo
    <3> QED BY <2>4, <3>1, <3>2, <3>3, <3>4
  <2> QED BY <2>1, <2>2, <2>3, <2>4
<1>12. s2 \in State /\ s2.elem = "class" /\ s2.mem[p] = cells BY <1>2, <1>6, <1>11 DEF Same
<1>13. PICK s3 : s3 = Destroy(s2, p, 1, c) OBVIOUS
<1>22. Ended(s2, p, 1, c, s3)
  <2>1. c <= Len(s2.mem[p]) /\ 1 \in Nat BY <1>2, <1>12
  <2> QED BY <1>12, <1>13, <2>1, DestroyIs
<1>14. Same(s2, s3, {p}) /\ s3.event = s2.event \cup raws
  <2>1. CASE c = 0
    <3>1. s3 = s2 BY <1>22, <2>1 DEF Ended
    <3>2. ~raw BY <2>1 DEF SomeRaw
    <3> QED BY <1>12, <3>1, <3>2 DEF Same
  <2>2. CASE c > 0
    <3>1. c <= Len(s2.mem[p]) /\ 1 \in Nat /\ 1 <= c BY <1>2, <1>12, <2>2
    <3>2. /\ Same(s2, s3, {p})
          /\ s3.event = s2.event \cup
                (IF s2.elem = "class" /\ SomeRaw(s2.mem[p], 1, c) THEN {"raw"} ELSE {})
      BY <1>22, <3>1 DEF Ended
    <3> QED BY <1>12, <3>2
  <2> QED BY <2>1, <2>2
<1>15. s3 \in State BY <1>14 DEF Same
<1>23. Freed(s3, p, old, t) BY <1>8, <1>13, <1>15, DeallocIs
<1>16. Same(s3, t, {p}) /\ IsFree(t, p) /\ t.event = s3.event BY <1>23 DEF Freed
<1>17. Same(s, t, {p, q})
  <2>1. Same(s, s2, {} \cup {q}) BY <1>6, <1>11, SameTwice
  <2>2. Same(s2, t, {p} \cup {p}) BY <1>14, <1>16, SameTwice
  <2>3. Same(s, t, ({} \cup {q}) \cup ({p} \cup {p})) BY <2>1, <2>2, SameTwice
  <2>4. ({} \cup {q}) \cup ({p} \cup {p}) \subseteq {p, q} OBVIOUS
  <2> QED BY <2>3, <2>4, SameMore
<1>18. t.event = s.event \cup (raws \cup lost) BY <1>6, <1>11, <1>14, <1>16
<1>19. q # NoBlock => t.mem[q] = s2.mem[q]
  <2>1. \A d \in Blocks \ {p} : s3.mem[d] = s2.mem[d] /\ t.mem[d] = s3.mem[d] BY <1>14, <1>16 DEF Same
  <2> QED BY <2>1
<1>20. raws \cup lost = MoveEvents(s.mem[p], c, q, n) BY <1>2 DEF MoveEvents
<1> QED BY <1>2, <1>11, <1>16, <1>17, <1>18, <1>19, <1>20 DEF Transferred

\* What grow_alloc makes of a buffer p of old cells: its whole content is in b, or there is no memory.
Raws(cells, n) == IF SomeRaw(cells, 1, n) THEN {"raw"} ELSE {}

Grown(s, p, old, new, b, h) ==
    \/ /\ h.ptr = NoBlock /\ s.elem = "trivial" /\ Same(s, h.s, {}) /\ h.s.mem = s.mem
       /\ h.s.event = IF old > new THEN {"panic"} ELSE {}
    \/ /\ h.ptr = NoBlock /\ s.elem = "class" /\ Same(s, h.s, {p}) /\ IsFree(h.s, p)
       /\ h.s.event = {"null"} \cup Raws(s.mem[p], old)
    \/ /\ h.ptr = b /\ b \in Blocks /\ h.count = new /\ new > 0
       /\ Same(s, h.s, {p, b}) /\ IsFree(h.s, p) /\ h.s.mem[b] = MovedTo(s.mem[p], old, new)
       /\ s.elem = "trivial" => old <= new /\ h.s.event = {}
       /\ s.elem = "class" =>
             h.s.event = Raws(s.mem[p], old) \cup (IF old > new THEN {"outside"} ELSE {})

\* A free block, or null.
Offered(s, b) == b = NoBlock \/ (b \in Blocks /\ IsFree(s, b))

LEMMA HandleIs ==
    ASSUME NEW t, NEW p, NEW n, NEW h, h = Handle(t, p, n)
    PROVE  h.s = t /\ h.ptr = p /\ h.count = n
BY DEF Handle

\* default_allocator copies bytes.
LEMMA CopyIs ==
    ASSUME NEW s \in State, NEW p \in Blocks, NEW old \in Nat, old = Len(s.mem[p]), old > 0,
           NEW b \in Blocks, b # p, NEW new \in Nat, NEW cells \in Seq(Cell),
           NEW h, h = AllocUninitialized(s, new, b), new > 0,
           NEW u, u = Stored(h.s, h.ptr, cells)
    PROVE  h.ptr = b /\ h.count = new /\ Stores(s, b, cells, u)
<1>1. b # NoBlock /\ b \in Blocks \cup {NoBlock} BY AllocAssumption
<1>7. Allocated(s, new, b, h) BY <1>1, AllocIs
<1>2. h.ptr = b /\ h.count = new /\ Same(s, h.s, {b}) /\ h.s.event = s.event BY <1>1, <1>7 DEF Allocated
<1>3. h.s \in State BY <1>2 DEF Same
<1>8. PICK w : w = h.s OBVIOUS
<1>9. u = Stored(w, b, cells) /\ w \in State BY <1>2, <1>3, <1>8
<1>10. Stores(w, b, cells, u) BY <1>9, PutIs
<1>4. Same(h.s, u, {b}) /\ u.mem[b] = cells /\ u.event = h.s.event BY <1>8, <1>10 DEF Stores
<1>5. Same(s, u, {b} \cup {b}) BY <1>2, <1>4, SameTwice
<1>6. Same(s, u, {b}) BY <1>5, SameMore
<1> QED BY <1>2, <1>4, <1>6 DEF Stores

\* grow_alloc does what Grown says.
LEMMA GrowAllocIs ==
    ASSUME NEW s \in State, s.event = {}, NEW p \in Blocks, NEW old \in Nat, old = Len(s.mem[p]), old > 0,
           NEW new \in Nat, NEW b, Offered(s, b), NEW h, h = GrowAlloc(s, p, old, new, old, b)
    PROVE  Grown(s, p, old, new, b, h)
<1>1. /\ Cells(s, p) = s.mem[p] /\ s.mem[p] \in Seq(Cell) /\ ~IsFree(s, p) BY BlockCells
<1>2. b \in Blocks \cup {NoBlock} /\ b # p BY <1>1, AllocAssumption DEF Offered
<1>3. PICK a : a = AllocUninitialized(s, new, b) OBVIOUS
<1>8. Allocated(s, new, b, a) BY <1>2, <1>3, AllocIs
<1>4. /\ a.count = new
      /\ new = 0 \/ b = NoBlock => a.s = s /\ a.ptr = NoBlock
      /\ new > 0 /\ b # NoBlock => /\ a.ptr = b /\ Same(s, a.s, {b}) /\ a.s.mem[b] = RawCells(new)
                                   /\ a.s.event = s.event
  BY <1>8 DEF Allocated
<1>5. s.elem \in {"trivial", "class"} BY StateParts DEF Elem
<1>6. CASE s.elem = "trivial"
  <2>1. h = Grow(s, p, old, new, b) BY <1>6 DEF GrowAlloc
  <2>2. CASE old > new
    <3>1. PICK t : t = Raised(s, "panic") OBVIOUS
    <3>2. h.s = t /\ h.ptr = NoBlock BY <2>1, <2>2, <3>1 DEF Grow, Handle, Flag, Raised
    <3>3. "panic" \in Event BY DEF Event
    <3>4. Same(s, t, {}) /\ t.mem = s.mem /\ t.event = s.event \cup {"panic"} BY <3>1, <3>3, RaisedIs
    <3> QED BY <1>6, <2>2, <3>2, <3>4 DEF Grown
  <2>3. CASE old <= new
    <3>4. ~(old > new) BY <2>3
    <3>1. h = CustomGrow(s, p, old, new, b) BY ONLY <2>1, <3>4 DEF Grow
    <3>2. CASE a.ptr = NoBlock
      <4>1. h.s = s /\ h.ptr = NoBlock BY <1>3, <3>1, <3>2 DEF CustomGrow, Handle
      <4>2. Same(s, h.s, {}) /\ h.s.mem = s.mem BY <4>1 DEF Same
      <4>3. h.s.event = IF old > new THEN {"panic"} ELSE {} BY <3>4, <4>1
      <4> QED BY <1>6, <4>1, <4>2, <4>3 DEF Grown
    <3>3. CASE a.ptr # NoBlock
      <4>1. b \in Blocks /\ new > 0 BY <1>2, <1>4, <3>3
      <4>2. PICK cells : cells = MovedTo(s.mem[p], old, new) OBVIOUS
      <4>3. PICK u : u = Stored(a.s, a.ptr, cells) OBVIOUS
      <4>4. h.s = Dealloc(u, p, old) /\ h.ptr = a.ptr /\ h.count = new
        <5>1. cells = [i \in 1..new |-> IF i <= old THEN Cells(s, p)[i] ELSE Raw]
          BY <1>1, <2>3, <4>2 DEF MovedTo
        <5> QED BY <1>3, <3>1, <3>3, <4>3, <5>1 DEF CustomGrow, Handle, Stored
      <4>14. old <= Len(s.mem[p]) OBVIOUS
      <4>5. cells \in Seq(Cell) BY ONLY <1>1, <4>2, <4>14, old \in Nat, new \in Nat, MovedToIs
      <4>15. a.ptr = b /\ Stores(s, b, cells, u) BY <1>2, <1>3, <4>1, <4>3, <4>5, CopyIs
      <4>6. a.ptr = b /\ Same(s, u, {b}) /\ u.mem[b] = cells /\ u.event = s.event BY <4>15 DEF Stores
      <4>7. u \in State BY <4>6 DEF Same
      <4>8. PICK t : t = Dealloc(u, p, old) OBVIOUS
      <4>13. Freed(u, p, old, t) BY <4>7, <4>8, DeallocIs
      <4>9. Same(u, t, {p}) /\ IsFree(t, p) /\ t.event = u.event BY <4>13 DEF Freed
      <4>10. Same(s, t, {b} \cup {p}) BY <4>6, <4>9, SameTwice
      <4>11. Same(s, t, {p, b}) BY <4>10, SameMore
      <4>12. t.mem[b] = cells BY <1>2, <4>1, <4>6, <4>9 DEF Same
      <4> QED BY <1>6, <2>3, <4>1, <4>2, <4>4, <4>6, <4>8, <4>9, <4>11, <4>12 DEF Grown
    <3> QED BY <3>2, <3>3
  <2> QED BY <2>2, <2>3
<1>7. CASE s.elem = "class"
  <2>1. h.s = Transfer(a.s, p, old, a.ptr, old, old) /\ h.ptr = a.ptr /\ h.count = new
    BY <1>3, <1>7 DEF GrowAlloc, Handle
  <2>2. /\ a.s \in State /\ a.s.elem = "class" /\ a.s.mem[p] = s.mem[p] /\ a.s.event = {}
        /\ a.ptr \in Blocks \cup {NoBlock} /\ a.ptr # p
        /\ a.ptr # NoBlock => a.s.mem[a.ptr] = RawCells(new) /\ a.ptr = b /\ new > 0
        /\ Same(s, a.s, {b})
    <3>1. CASE new = 0 \/ b = NoBlock
      <4>1. p # NoBlock BY AllocAssumption
      <4> QED BY <1>4, <1>7, <3>1, <4>1 DEF Same
    <3>2. CASE new > 0 /\ b # NoBlock BY <1>2, <1>4, <1>7, <3>2 DEF Same
    <3> QED BY <3>1, <3>2
  <2>3. PICK t : t = Transfer(a.s, p, old, a.ptr, old, old) OBVIOUS
  <2>4. /\ Same(a.s, t, {p, a.ptr}) /\ IsFree(t, p)
        /\ t.event = a.s.event \cup MoveEvents(a.s.mem[p], old, a.ptr, new)
        /\ a.ptr # NoBlock => t.mem[a.ptr] = MovedTo(a.s.mem[p], old, new)
    <3>1. old <= old /\ old = Len(a.s.mem[p]) /\ (a.ptr # NoBlock => a.s.mem[a.ptr] = RawCells(new))
      BY <2>2
    <3>2. Transferred(a.s, p, a.ptr, new, old, t) BY <2>2, <2>3, <3>1, TransferIs
    <3> QED BY <3>2 DEF Transferred
  <2>5. CASE a.ptr = NoBlock
    <3>1. a.s = s BY <1>4, <2>2, <2>5, AllocAssumption
    <3>2. Same(s, t, {p})
      <4>1. Blocks \ {p} \subseteq Blocks \ {p, a.ptr} BY <2>5, AllocAssumption
      <4> QED BY <2>4, <3>1, <4>1 DEF Same
    <3>3. t.event = {"null"} \cup Raws(s.mem[p], old) BY <2>4, <2>5, <3>1 DEF MoveEvents, Raws
    <3> QED BY <1>7, <2>1, <2>3, <2>4, <2>5, <3>2, <3>3 DEF Grown
  <2>6. CASE a.ptr # NoBlock
    <3>1. a.ptr = b /\ new > 0 /\ b \in Blocks BY <2>2, <2>6
    <3>2. Same(s, t, {b} \cup {p, b}) BY <2>2, <2>4, <3>1, SameTwice
    <3>3. Same(s, t, {p, b}) BY <3>2, SameMore
    <3>4. t.event = Raws(s.mem[p], old) \cup (IF old > new THEN {"outside"} ELSE {})
      BY <2>2, <2>4, <2>6 DEF MoveEvents, Raws
    <3>5. t.mem[b] = MovedTo(s.mem[p], old, new) BY <2>2, <2>4, <2>6
    <3>6. s.elem # "trivial" BY <1>7
    <3> QED BY <1>7, <2>1, <2>3, <2>4, <3>1, <3>3, <3>4, <3>5, <3>6 DEF Grown
  <2> QED BY <2>5, <2>6
<1> QED BY <1>5, <1>6, <1>7

\* The objects that fit whole in a number of bytes are no more than asked for.
LEMMA WholeObjectsIs ==
    ASSUME NEW n \in Nat
    PROVE  WholeObjects(n) \in Nat /\ WholeObjects(n) <= n
<1>1. PICK k \in Nat : k = ObjSize /\ k >= 1 BY AllocAssumption
<1>2. PICK q \in Int : q = n \div k BY <1>1
<1>3. q * k <= n /\ n < (q + 1) * k BY <1>1, <1>2
<1>4. q >= 0 BY <1>1, <1>2
<1>5. q <= q * k BY <1>1, <1>4
<1> QED BY <1>1, <1>2, <1>3, <1>4, <1>5 DEF WholeObjects

\* What shrink_alloc makes of a buffer p whose first new cells have objects: they are in a new
\* block, or in none when there are none or no memory.
Shrunk(s, p, new, b, h) ==
    \/ h.ptr = NoBlock /\ Same(s, h.s, {}) /\ h.s.mem = s.mem /\ h.s.event = {}
    \/ /\ h.ptr = NoBlock /\ s.elem = "class" /\ p \in Blocks /\ Same(s, h.s, {p}) /\ IsFree(h.s, p)
       /\ h.s.event \subseteq {"null"}
    \/ /\ h.ptr = b /\ b \in Blocks /\ p \in Blocks /\ h.count = new /\ new > 0
       /\ Same(s, h.s, {p, b}) /\ IsFree(h.s, p) /\ Len(h.s.mem[b]) = new
       /\ h.s.event = {} => h.s.mem[b] = MovedTo(s.mem[p], new, new)
       /\ s.elem = "trivial" => h.s.event \subseteq {"cut"}
       /\ s.elem = "class" => h.s.event = {}

\* shrink_alloc does what Shrunk says.
LEMMA ShrinkAllocIs ==
    ASSUME NEW s \in State, s.event = {}, NEW p \in Blocks \cup {NoBlock}, NEW old \in Nat,
           NEW new \in Nat, new <= old, p = NoBlock => old = 0,
           p # NoBlock => old = Len(s.mem[p]) /\ old > 0 /\ ~SomeRaw(s.mem[p], 1, new),
           NEW b, Offered(s, b), NEW h, h = ShrinkAlloc(s, p, old, new, new, b)
    PROVE  Shrunk(s, p, new, b, h)
<1>1. p # NoBlock => /\ p \in Blocks /\ Cells(s, p) = s.mem[p] /\ s.mem[p] \in Seq(Cell) /\ ~IsFree(s, p)
  BY BlockCells
<1>2. b \in Blocks \cup {NoBlock} /\ (p # NoBlock => b # p) BY <1>1, AllocAssumption DEF Offered
<1>3. PICK a : a = AllocUninitialized(s, new, b) OBVIOUS
<1>4. Allocated(s, new, b, a) BY <1>2, <1>3, AllocIs
<1>5. s.elem \in {"trivial", "class"} BY StateParts DEF Elem
<1>6. ~(old < new) OBVIOUS
<1>7. CASE s.elem = "trivial"
  <2>1. h = CustomShrink(s, p, old, new, b) BY <1>6, <1>7 DEF ShrinkAlloc, Shrink
  <2>2. CASE new = 0 \/ b = NoBlock
    <3>1. a.s = s /\ a.ptr = NoBlock BY <1>4, <2>2 DEF Allocated
    <3>2. h.s = s /\ h.ptr = NoBlock BY <1>3, <2>1, <3>1 DEF CustomShrink, Handle
    <3>3. Same(s, h.s, {}) /\ h.s.mem = s.mem BY <3>2 DEF Same
    <3> QED BY <3>2, <3>3 DEF Shrunk
  <2>3. CASE new > 0 /\ b # NoBlock
    <3>1. p # NoBlock /\ b \in Blocks /\ a.ptr = b BY <1>2, <1>4, <2>3 DEF Allocated
    <3>2. PICK whole : whole = WholeObjects(new) OBVIOUS
    <3>3. whole \in Nat /\ whole <= new BY <3>2, WholeObjectsIs
    <3>4. PICK cells : cells = MovedTo(s.mem[p], whole, new) OBVIOUS
    <3>5. whole <= Len(s.mem[p]) BY <1>1, <3>1, <3>3
    <3>6. cells \in Seq(Cell) /\ Len(cells) = new
      BY ONLY <1>1, <3>1, <3>3, <3>4, <3>5, new \in Nat, MovedToIs
    <3>7. PICK u : u = Stored(a.s, a.ptr, cells) OBVIOUS
    <3>8. p \in Blocks /\ old = Len(s.mem[p]) /\ old > 0 /\ b # p BY <1>1, <1>2, <3>1
    <3>9. a.ptr = b /\ a.count = new /\ Stores(s, b, cells, u)
      BY <1>3, <2>3, <3>1, <3>6, <3>7, <3>8, CopyIs
    <3>10. Same(s, u, {b}) /\ u.mem[b] = cells /\ u.event = {} BY <3>9 DEF Stores
    <3> DEFINE cut == whole < new
    <3>11. PICK w : w = IF cut THEN Raised(u, "cut") ELSE u OBVIOUS
    <3>12. u \in State BY <3>10 DEF Same
    <3>13. Same(u, w, {}) /\ w.mem = u.mem /\ w.event = IF cut THEN {"cut"} ELSE {}
      <4>1. CASE cut
        <5>1. w = Raised(u, "cut") /\ "cut" \in Event BY <3>11, <4>1 DEF Event
        <5>2. Same(u, w, {}) /\ w.mem = u.mem /\ w.event = u.event \cup {"cut"} BY <3>12, <5>1, RaisedIs
        <5> QED BY <3>10, <4>1, <5>2
      <4>2. CASE ~cut BY <3>10, <3>11, <3>12, <4>2 DEF Same
      <4> QED BY <4>1, <4>2
    <3>14. h.s = Dealloc(w, p, old) /\ h.ptr = a.ptr /\ h.count = new
      <4>1. cells = [i \in 1..new |-> IF i <= whole THEN Cells(s, p)[i] ELSE Raw]
        BY <1>1, <3>1, <3>3, <3>4 DEF MovedTo
      <4>2. a.ptr # NoBlock BY <2>3, <3>1
      <4> QED BY <1>3, <2>1, <3>2, <3>7, <3>11, <4>1, <4>2 DEF CustomShrink, Handle, Stored, Flag, Raised
    <3>15. w \in State BY <3>13 DEF Same
    <3>16. PICK t : t = Dealloc(w, p, old) OBVIOUS
    <3>17. Freed(w, p, old, t) BY <3>15, <3>16, DeallocIs
    <3>18. Same(w, t, {p}) /\ IsFree(t, p) /\ t.event = w.event BY <3>8, <3>17 DEF Freed
    <3>19. Same(s, w, {b} \cup {}) BY <3>10, <3>13, SameTwice
    <3>20. Same(s, t, ({b} \cup {}) \cup {p}) BY <3>18, <3>19, SameTwice
    <3>21. Same(s, t, {p, b}) BY <3>20, SameMore
    <3>22. t.mem[b] = cells BY <3>8, <3>1, <3>10, <3>13, <3>18 DEF Same
    <3>23. t.event \subseteq {"cut"} /\ (t.event = {} => whole = new) BY <3>3, <3>13, <3>18
    <3>24. t.event = {} => t.mem[b] = MovedTo(s.mem[p], new, new) BY <3>4, <3>22, <3>23
    <3>25. s.elem # "class" BY <1>7
    <3>26. h.s = t BY <3>14, <3>16
    <3> QED BY <2>3, <3>1, <3>6, <3>8, <3>14, <3>18, <3>21, <3>22, <3>23, <3>24, <3>25, <3>26 DEF Shrunk
  <2> QED BY <2>2, <2>3
<1>8. CASE s.elem = "class"
  <2>1. h.s = Transfer(a.s, p, old, a.ptr, new, new) /\ h.ptr = a.ptr /\ h.count = new
    BY <1>3, <1>8 DEF ShrinkAlloc, Handle
  <2>2. CASE p = NoBlock
    <3>1. old = 0 /\ new = 0 /\ a.s = s /\ a.ptr = NoBlock BY <1>4, <2>2 DEF Allocated
    <3>2. Cells(s, p) = <<>> BY <2>2 DEF Cells
    <3>3. First(Cells(s, p), 0) = <<>> BY <3>2 DEF First
    <3>4. ~\E i \in 1..0 : Cells(s, p)[i] = Raw OBVIOUS
    <3>5. ConstructAll(s, a.ptr, <<>>) = s BY DEF ConstructAll
    <3>6. Destroy(s, p, 1, 0) = s BY DEF Destroy
    <3>7. Dealloc(s, p, old) = s BY <2>2 DEF Dealloc
    <3>8. Transfer(s, p, old, a.ptr, 0, 0) = s
      <4>1. ~(0 > Len(Cells(s, p))) /\ ~(0 > old) BY <3>1, <3>2
      <4> QED BY <3>3, <3>4, <3>5, <3>6, <3>7, <4>1 DEF Transfer, Flag
    <3>9. h.s = s /\ h.ptr = NoBlock BY <2>1, <3>1, <3>8
    <3>10. Same(s, h.s, {}) /\ h.s.mem = s.mem BY <3>9 DEF Same
    <3> QED BY <3>9, <3>10 DEF Shrunk
  <2>3. CASE p # NoBlock
    <3>1. p \in Blocks /\ old = Len(s.mem[p]) /\ old > 0 /\ b # p /\ ~SomeRaw(s.mem[p], 1, new) BY <1>1, <1>2, <2>3
    <3>2. /\ a.s \in State /\ a.s.elem = "class" /\ a.s.mem[p] = s.mem[p] /\ a.s.event = {}
          /\ a.ptr \in Blocks \cup {NoBlock} /\ a.ptr # p
          /\ a.ptr # NoBlock => a.s.mem[a.ptr] = RawCells(new) /\ a.ptr = b /\ new > 0
          /\ a.ptr = NoBlock => a.s = s
          /\ Same(s, a.s, {b})
      <4>1. CASE new = 0 \/ b = NoBlock BY <1>4, <1>8, <2>3, <4>1 DEF Same, Allocated
      <4>2. CASE new > 0 /\ b # NoBlock BY <1>2, <1>4, <1>8, <3>1, <4>2 DEF Same, Allocated
      <4> QED BY <4>1, <4>2
    <3>3. PICK t : t = Transfer(a.s, p, old, a.ptr, new, new) OBVIOUS
    <3>4. Transferred(a.s, p, a.ptr, new, new, t)
      <4>1. old = Len(a.s.mem[p]) BY <3>1, <3>2
      <4> QED BY <3>1, <3>2, <3>3, <4>1, TransferIs
    <3>5. /\ Same(a.s, t, {p, a.ptr}) /\ IsFree(t, p)
          /\ t.event = MoveEvents(s.mem[p], new, a.ptr, new)
          /\ a.ptr # NoBlock => t.mem[a.ptr] = MovedTo(s.mem[p], new, new)
      BY <3>2, <3>4 DEF Transferred
    <3>6. t.event = IF new = 0 THEN {} ELSE IF a.ptr = NoBlock THEN {"null"} ELSE {}
      BY <3>1, <3>5 DEF MoveEvents
    <3>7. CASE a.ptr = NoBlock
      <4>1. Same(s, t, {p})
        <5>1. Blocks \ {p} \subseteq Blocks \ {p, a.ptr} BY <3>7, AllocAssumption
        <5> QED BY <3>2, <3>5, <3>7, <5>1 DEF Same
      <4>2. t.event \subseteq {"null"} BY <3>6
      <4> QED BY <1>8, <2>1, <3>1, <3>3, <3>5, <3>7, <4>1, <4>2 DEF Shrunk
    <3>8. CASE a.ptr # NoBlock
      <4>1. a.ptr = b /\ new > 0 /\ b \in Blocks BY <3>2, <3>8
      <4>2. Same(s, t, {b} \cup {p, b}) BY <3>2, <3>5, <4>1, SameTwice
      <4>3. Same(s, t, {p, b}) BY <4>2, SameMore
      <4>4. t.event = {} BY <3>6, <3>8
      <4>5. t.mem[b] = MovedTo(s.mem[p], new, new) BY <3>5, <3>8, <4>1
      <4>6. Len(t.mem[b]) = new
        <5>1. new <= Len(s.mem[p]) /\ s.mem[p] \in Seq(Cell) BY <1>1, <3>1
        <5> QED BY ONLY <5>1, <4>5, new \in Nat, MovedToIs
      <4>7. s.elem # "trivial" BY <1>8
      <4> QED BY <1>8, <2>1, <3>1, <3>3, <3>5, <4>1, <4>3, <4>4, <4>5, <4>6, <4>7 DEF Shrunk
    <3> QED BY <3>7, <3>8
  <2> QED BY <2>2, <2>3
<1> QED BY <1>5, <1>7, <1>8

-----------------------------------------------------------------------------
(* The invariant.                                                          *)

\* The cells hold the siz elements xs, and of a class nothing else.
Full(elem, cells, siz, xs) ==
    /\ siz = Len(xs) /\ siz <= Len(cells) /\ \A i \in 1..siz : cells[i] = xs[i]
    /\ elem = "class" => \A i \in 1..Len(cells) : i > siz => cells[i] = Raw

\* Vector r holds xs in its buffer.
Carries(s, r, xs) ==
    /\ r \in Vec /\ r.cap = Len(Cells(s, r.start)) /\ (r.start # NoBlock => r.cap > 0)
    /\ Full(s.elem, Cells(s, r.start), r.siz, xs)

\* The vectors hold what they stand for in buffers of their own, and no other block is in use.
Holds(s, m) ==
    /\ \A v \in Vecs : Carries(s, s.vec[v], m[v])
    /\ \A v, w \in Vecs : v # w /\ s.vec[v].start # NoBlock => s.vec[v].start # s.vec[w].start
    /\ \A b \in Blocks : IsFree(s, b) \/ \E v \in Vecs : s.vec[v].start = b

\* What vectors may stand for.
Meaning == [Vecs -> Seq(Elements)]

\* What may go wrong in an operation, by Known.
Allowed(elem, op) == IF op \in DOMAIN Known[elem] THEN Known[elem][op] ELSE {}
LogIsKnown == \A e \in vecLog : e[1] \in DOMAIN Known[vs.elem] /\ e[2] \in Known[vs.elem][e[1]]

\* The inductive invariant, which holds between operations.
Inv == vs \in State /\ vs.event = {} /\ vecMeant \in Meaning /\ Holds(vs, vecMeant) /\ LogIsKnown

\* When every buffer is in order there is nothing to report at the end of an operation.
Leaks(s) == ~(InUse(s) \subseteq Owned(s)) \/ \E v \in Vecs : Forgotten(s, v)
Dangles(s) == \E v \in Vecs : Dangling(s, v)

\* The cells of a block, and of none.
LEMMA CellsIs ==
    ASSUME NEW s \in State, NEW p \in Blocks \cup {NoBlock}
    PROVE  /\ Cells(s, p) \in Seq(Cell) /\ Len(Cells(s, p)) \in Nat
           /\ p = NoBlock => Cells(s, p) = <<>>
           /\ p \in Blocks => Cells(s, p) = s.mem[p] /\ (IsFree(s, p) <=> Len(Cells(s, p)) = 0)
<1>1. CASE p = NoBlock BY <1>1, AllocAssumption DEF Cells
<1>2. CASE p \in Blocks BY <1>2, BlockCells, AllocAssumption
<1> QED BY <1>1, <1>2

\* Every vector has its type.
LEMMA VecIs ==
    ASSUME NEW s \in State, NEW v \in Vecs
    PROVE  /\ s.vec[v] \in Vec /\ s.vec[v].start \in Blocks \cup {NoBlock}
           /\ s.vec[v].cap \in Nat /\ s.vec[v].siz \in Nat
<1>1. s.vec[v] \in Vec BY StateParts
<1> QED BY <1>1 DEF Vec

\* Vectors in order neither leak nor dangle.
LEMMA HoldsClean ==
    ASSUME NEW s \in State, NEW m, Holds(s, m)
    PROVE  ~Leaks(s) /\ ~Dangles(s)
<1>1. ASSUME NEW b \in InUse(s) PROVE b \in Owned(s)
  <2>1. b \in Blocks /\ ~IsFree(s, b) BY <1>1 DEF InUse
  <2>2. PICK v \in Vecs : s.vec[v].start = b BY <2>1 DEF Holds
  <2>3. s.vec[v].cap = Len(Cells(s, b)) BY <2>2 DEF Holds, Carries
  <2>4. Cells(s, b) = s.mem[b] BY <2>1, BlockCells
  <2> QED BY <2>1, <2>2, <2>3, <2>4 DEF Owned
<1>2. ASSUME NEW v \in Vecs PROVE ~Forgotten(s, v)
  <2>1. PICK r : r = s.vec[v] OBVIOUS
  <2>2. r.siz \in Nat /\ Len(Cells(s, r.start)) \in Nat BY <2>1, VecIs, CellsIs
  <2>3. Full(s.elem, Cells(s, r.start), r.siz, m[v]) BY <2>1 DEF Holds, Carries
  <2>4. ASSUME s.elem = "class", NEW i \in r.siz + 1..Len(Cells(s, r.start))
        PROVE  Cells(s, r.start)[i] = Raw
    <3>1. i \in 1..Len(Cells(s, r.start)) /\ i > r.siz BY <2>2
    <3> QED BY <2>3, <2>4, <3>1 DEF Full
  <2> QED BY <2>1, <2>4 DEF Forgotten
<1>3. ASSUME NEW v \in Vecs PROVE ~Dangling(s, v)
  <2>1. PICK r : r = s.vec[v] OBVIOUS
  <2>2. r.start \in Blocks \cup {NoBlock} BY <2>1, VecIs
  <2>3. r.start # NoBlock => Len(Cells(s, r.start)) > 0 BY <2>1 DEF Holds, Carries
  <2>4. r.start # NoBlock => ~IsFree(s, r.start) BY <2>2, <2>3, CellsIs
  <2> QED BY <2>1, <2>4 DEF Dangling
<1> QED BY <1>1, <1>2, <1>3 DEF Leaks, Dangles

\* Cells are alike in states with the same memory.
LEMMA SameCells ==
    ASSUME NEW s, NEW t, NEW B, Same(s, t, B), NEW p \in Blocks \cup {NoBlock}, p \notin B
    PROVE  Cells(t, p) = Cells(s, p)
BY DEF Same, Cells

\* A vector whose buffer was not touched still carries its elements.
LEMMA CarriesOn ==
    ASSUME NEW s, NEW t, NEW B, Same(s, t, B), NEW r, NEW xs, Carries(s, r, xs), r.start \notin B
    PROVE  Carries(t, r, xs)
<1>1. r.start \in Blocks \cup {NoBlock} BY DEF Carries, Vec
<1>2. Cells(t, r.start) = Cells(s, r.start) BY <1>1, SameCells
<1>3. t.elem = s.elem BY DEF Same
<1> QED BY <1>2, <1>3 DEF Carries

\* One vector changes, in buffers that were its own or nobody's.
LEMMA ReplaceHolds ==
    ASSUME NEW s \in State, NEW m, Holds(s, m), NEW t \in State, NEW m2, NEW v \in Vecs, NEW B,
           t.elem = s.elem, \A c \in Blocks \ B : t.mem[c] = s.mem[c],
           \A w \in Vecs \ {v} : t.vec[w] = s.vec[w] /\ m2[w] = m[w],
           NoBlock \notin B,
           \A c \in B : c = s.vec[v].start \/ IsFree(s, c),
           \A c \in B \cup {s.vec[v].start} : c \in Blocks => c = t.vec[v].start \/ IsFree(t, c),
           t.vec[v].start \in B \cup {s.vec[v].start, NoBlock},
           Carries(t, t.vec[v], m2[v])
    PROVE  Holds(t, m2)
<1>1. \A w \in Vecs : s.vec[w].start \in Blocks \cup {NoBlock} /\ t.vec[w].start \in Blocks \cup {NoBlock}
  BY VecIs
<1>2. ASSUME NEW w \in Vecs \ {v} PROVE s.vec[w].start \notin B
  <2>1. ASSUME s.vec[w].start \in B PROVE FALSE
    <3>1. s.vec[w].start # NoBlock /\ s.vec[w].start \in Blocks BY <1>1, <2>1
    <3>2. s.vec[w].start # s.vec[v].start BY <3>1 DEF Holds
    <3>3. IsFree(s, s.vec[w].start) BY <2>1, <3>2
    <3>4. Len(Cells(s, s.vec[w].start)) > 0 BY <3>1 DEF Holds, Carries
    <3> QED BY <3>1, <3>3, <3>4, CellsIs
  <2> QED BY <2>1
<1>3. ASSUME NEW w \in Vecs \ {v} PROVE Carries(t, t.vec[w], m2[w])
  <2>1. PICK r : r = s.vec[w] OBVIOUS
  <2>2. Carries(s, r, m[w]) BY <2>1 DEF Holds
  <2>3. Cells(t, r.start) = Cells(s, r.start) BY <1>1, <1>2, <2>1 DEF Cells
  <2>4. Carries(t, r, m[w]) BY <2>2, <2>3 DEF Carries
  <2> QED BY <2>1, <2>4
<1>4. \A w \in Vecs : Carries(t, t.vec[w], m2[w]) BY <1>3
<1>5. ASSUME NEW w \in Vecs \ {v}, t.vec[w].start = t.vec[v].start, t.vec[w].start # NoBlock PROVE FALSE
  <2>1. s.vec[w].start = t.vec[v].start /\ s.vec[w].start \notin B BY <1>2, <1>5
  <2>2. s.vec[w].start = s.vec[v].start BY <1>5, <2>1
  <2> QED BY <1>5, <2>1, <2>2 DEF Holds
<1>6. \A u, w \in Vecs : u # w /\ t.vec[u].start # NoBlock => t.vec[u].start # t.vec[w].start
  <2> SUFFICES ASSUME NEW u \in Vecs, NEW w \in Vecs, u # w, t.vec[u].start # NoBlock,
                      t.vec[u].start = t.vec[w].start
               PROVE  FALSE
    OBVIOUS
  <2>1. CASE u = v BY <1>5, <2>1
  <2>2. CASE w = v BY <1>5, <2>2
  <2>3. CASE u # v /\ w # v
    <3>1. s.vec[u].start = s.vec[w].start /\ s.vec[u].start # NoBlock BY <2>3
    <3> QED BY <3>1 DEF Holds
  <2> QED BY <2>1, <2>2, <2>3
<1>7. ASSUME NEW b \in Blocks, ~IsFree(t, b) PROVE \E w \in Vecs : t.vec[w].start = b
  <2>1. CASE b \in B \cup {s.vec[v].start} BY <1>7, <2>1
  <2>2. CASE b \notin B \cup {s.vec[v].start}
    <3>1. ~IsFree(s, b) BY <1>7, <2>2 DEF IsFree
    <3>2. PICK w \in Vecs : s.vec[w].start = b BY <3>1 DEF Holds
    <3>3. w # v BY <2>2, <3>2
    <3> QED BY <3>2, <3>3
  <2> QED BY <2>1, <2>2
<1> QED BY <1>4, <1>6, <1>7 DEF Holds

\* One vector gets a buffer nobody used.
LEMMA FreshHolds ==
    ASSUME NEW e \in Elem
    PROVE  /\ Fresh(e) \in State /\ Fresh(e).event = {} /\ Fresh(e).elem = e
           /\ [v \in Vecs |-> <<>>] \in Meaning /\ Holds(Fresh(e), [v \in Vecs |-> <<>>])
<1>1. PICK f, g, m : f = [b \in Blocks |-> <<>>] /\ g = [v \in Vecs |-> NoVec] /\ m = [v \in Vecs |-> <<>>]
  OBVIOUS
<1>2. PICK s : s = Fresh(e) OBVIOUS
<1>3. s = [mem |-> f, vec |-> g, elem |-> e, event |-> {}] BY <1>1, <1>2 DEF Fresh
<1>4. s.mem = f /\ s.vec = g /\ s.elem = e /\ s.event = {} BY <1>3
<1>5. NoVec \in Vec BY DEF NoVec, Vec
<1>6. f \in [Blocks -> Seq(Cell)] /\ g \in [Vecs -> Vec] /\ m \in Meaning
  <2>1. <<>> \in Seq(Cell) /\ <<>> \in Seq(Elements) OBVIOUS
  <2> QED BY <1>1, <1>5, <2>1 DEF Meaning
<1>7. s \in State BY <1>3, <1>6 DEF State
<1>8. Holds(s, m)
  <2>1. ASSUME NEW v \in Vecs PROVE Carries(s, s.vec[v], m[v])
    <3>1. PICK r : r = s.vec[v] OBVIOUS
    <3>2. r = NoVec /\ r.start = NoBlock /\ r.cap = 0 /\ r.siz = 0 BY <1>1, <1>4, <3>1 DEF NoVec
    <3>3. Cells(s, r.start) = <<>> BY <3>2 DEF Cells
    <3>4. m[v] = <<>> BY <1>1
    <3>5. Full(s.elem, <<>>, 0, <<>>) BY DEF Full
    <3>6. Carries(s, r, m[v]) BY <1>5, <3>2, <3>3, <3>4, <3>5 DEF Carries
    <3> QED BY <3>1, <3>6
  <2>2. \A v \in Vecs : s.vec[v].start = NoBlock BY <1>1, <1>4 DEF NoVec
  <2>3. \A b \in Blocks : IsFree(s, b) BY <1>1, <1>4 DEF IsFree
  <2> QED BY <2>1, <2>2, <2>3 DEF Holds
<1> QED BY <1>1, <1>2, <1>4, <1>6, <1>7, <1>8

\* The end of an operation: it may go wrong only as Known says, and when nothing did the
\* vectors must hold what they stand for.
LEMMA FinishKeeps ==
    ASSUME Inv, NEW op, NEW t \in State, t.elem = vs.elem, NEW meant \in Meaning, Finish(op, t, meant),
           t.event \subseteq Allowed(vs.elem, op), Leaks(t) => "leak" \in Allowed(vs.elem, op),
           Dangles(t) => "dangling" \in Allowed(vs.elem, op),
           t.event = {} /\ ~Leaks(t) /\ ~Dangles(t) => Holds(t, meant)
    PROVE  Inv'
<1>1. PICK leak : leak = IF Leaks(t) THEN Raised(t, "leak") ELSE t OBVIOUS
<1>2. "leak" \in Event /\ "dangling" \in Event BY DEF Event
<1>3. Same(t, leak, {}) /\ leak.mem = t.mem /\ leak.event = t.event \cup (IF Leaks(t) THEN {"leak"} ELSE {})
  <2>1. CASE Leaks(t)
    <3>1. leak = Raised(t, "leak") BY <1>1, <2>1
    <3>2. Same(t, leak, {}) /\ leak.mem = t.mem /\ leak.event = t.event \cup {"leak"} BY <1>2, <3>1, RaisedIs
    <3> QED BY <2>1, <3>2
  <2>2. CASE ~Leaks(t) BY <1>1, <2>2 DEF Same
  <2> QED BY <2>1, <2>2
<1>4. leak \in State /\ leak.vec = t.vec /\ leak.elem = t.elem BY <1>3 DEF Same
<1>5. Dangles(leak) <=> Dangles(t) BY <1>3, <1>4 DEF Dangles, Dangling, IsFree
<1>6. PICK done : done = IF Dangles(t) THEN Raised(leak, "dangling") ELSE leak OBVIOUS
<1>7. Same(leak, done, {}) /\ done.mem = leak.mem
      /\ done.event = leak.event \cup (IF Dangles(t) THEN {"dangling"} ELSE {})
  <2>1. CASE Dangles(t)
    <3>1. done = Raised(leak, "dangling") BY <1>6, <2>1
    <3>2. Same(leak, done, {}) /\ done.mem = leak.mem /\ done.event = leak.event \cup {"dangling"}
      BY <1>2, <1>4, <3>1, RaisedIs
    <3> QED BY <2>1, <3>2
  <2>2. CASE ~Dangles(t) BY <1>4, <1>6, <2>2 DEF Same
  <2> QED BY <2>1, <2>2
<1>8. /\ vecLog' = {op} \X done.event
      /\ vs' = IF done.event = {} THEN done ELSE Fresh(t.elem)
      /\ vecMeant' = IF done.event = {} THEN meant ELSE [v \in Vecs |-> <<>>]
  <2>1. leak = Flag(t, ~(InUse(t) \subseteq Owned(t)) \/ \E v \in Vecs : Forgotten(t, v), "leak")
    BY <1>1 DEF Leaks, Flag, Raised
  <2>2. done = Flag(leak, \E v \in Vecs : Dangling(t, v), "dangling")
    BY <1>6 DEF Dangles, Flag, Raised
  <2>3. (\E v \in Vecs : Dangling(t, v)) <=> (\E v \in Vecs : Dangling(leak, v)) BY <1>5 DEF Dangles
  <2> QED BY <2>1, <2>2, <2>3 DEF Finish, Flag
<1>9. t.elem \in Elem BY StateParts
<1>10. vs'.elem = vs.elem
  <2>1. CASE done.event = {} BY <1>4, <1>7, <1>8, <2>1 DEF Same
  <2>2. CASE done.event # {} BY <1>8, <1>9, <2>2, FreshHolds
  <2> QED BY <2>1, <2>2
<1>11. LogIsKnown'
  <2>1. ASSUME NEW e \in vecLog' PROVE e[1] \in DOMAIN Known[vs'.elem] /\ e[2] \in Known[vs'.elem][e[1]]
    <3>1. e[1] = op /\ e[2] \in done.event BY <1>8, <2>1
    <3>2. e[2] \in Allowed(vs.elem, op) BY <1>3, <1>7, <3>1
    <3> QED BY <1>10, <3>1, <3>2 DEF Allowed
  <2> QED BY <2>1 DEF LogIsKnown
<1>12. CASE done.event = {}
  <2>1. t.event = {} /\ ~Leaks(t) /\ ~Dangles(t) BY <1>3, <1>7, <1>12
  <2>2. done = t BY <1>1, <1>6, <2>1
  <2> QED BY <1>8, <1>11, <1>12, <2>1, <2>2 DEF Inv
<1>13. CASE done.event # {} BY <1>8, <1>9, <1>11, <1>13, FreshHolds DEF Inv
<1> QED BY <1>12, <1>13

\* An operation that went well keeps the invariant.
LEMMA FinishGood ==
    ASSUME Inv, NEW op, NEW t \in State, t.elem = vs.elem, NEW meant \in Meaning, Finish(op, t, meant),
           t.event \subseteq Allowed(vs.elem, op), Holds(t, meant)
    PROVE  Inv'
BY HoldsClean, FinishKeeps

\* At first every vector is empty and every block free.
LEMMA InitInv == VectorInit => Inv
<1> SUFFICES ASSUME VectorInit PROVE Inv OBVIOUS
<1>1. PICK e \in Elem : vs = Fresh(e) BY DEF VectorInit
<1> QED BY <1>1, FreshHolds DEF VectorInit, Inv, LogIsKnown

-----------------------------------------------------------------------------
(* One vector.                                                             *)

\* t is s with another vector v.
Sets(s, v, start, cap, siz, t) ==
    /\ t \in State /\ t.mem = s.mem /\ t.elem = s.elem /\ t.event = s.event
    /\ t.vec[v] = [start |-> start, cap |-> cap, siz |-> siz]
    /\ \A w \in Vecs \ {v} : t.vec[w] = s.vec[w]

\* Set does what Sets says.
LEMMA SetIs ==
    ASSUME NEW s \in State, NEW v \in Vecs, NEW start \in Blocks \cup {NoBlock}, NEW cap \in Nat, NEW siz \in Nat,
           NEW t, t = Set(s, v, start, cap, siz)
    PROVE  Sets(s, v, start, cap, siz, t)
<1>1. PICK r : r = [start |-> start, cap |-> cap, siz |-> siz] OBVIOUS
<1>2. PICK f : f = [s.vec EXCEPT ![v] = r] OBVIOUS
<1>3. r \in Vec BY <1>1 DEF Vec
<1>4. f \in [Vecs -> Vec] /\ f[v] = r /\ \A w \in Vecs \ {v} : f[w] = s.vec[w]
  BY <1>2, <1>3, StateParts
<1>5. t = [mem |-> s.mem, vec |-> f, elem |-> s.elem, event |-> s.event]
  BY <1>1, <1>2, StateExcept DEF Set
<1>6. t.mem = s.mem /\ t.vec = f /\ t.elem = s.elem /\ t.event = s.event BY <1>5
<1>7. t \in State BY <1>4, <1>5, StateParts DEF State
<1> QED BY <1>1, <1>4, <1>6, <1>7 DEF Sets

\* A vector comes to stand for something else, and what vectors stand for keeps its type.
LEMMA MeansIs ==
    ASSUME Inv, NEW v \in Vecs, NEW xs \in Seq(Elements)
    PROVE  /\ Means(v, xs) \in Meaning /\ Means(v, xs)[v] = xs
           /\ \A w \in Vecs \ {v} : Means(v, xs)[w] = vecMeant[w]
           /\ xs = vecMeant[v] => Means(v, xs) = vecMeant
<1>1. vecMeant \in [Vecs -> Seq(Elements)] BY DEF Inv, Meaning
<1> QED BY <1>1 DEF Means, Meaning

\* What the invariant says of a vector.
Own(v, r, xs) ==
    /\ r = vs.vec[v] /\ xs = vecMeant[v] /\ xs \in Seq(Elements) /\ r \in Vec
    /\ r.start \in Blocks \cup {NoBlock} /\ r.cap \in Nat /\ r.siz \in Nat
    /\ r.cap = Len(Cells(vs, r.start)) /\ Cells(vs, r.start) \in Seq(Cell)
    /\ r.siz = Len(xs) /\ r.siz <= r.cap
    /\ \A i \in 1..r.siz : Cells(vs, r.start)[i] = xs[i] /\ xs[i] \in Elements /\ xs[i] # Raw
    /\ Full(vs.elem, Cells(vs, r.start), r.siz, xs)
    /\ IF r.start = NoBlock THEN r.cap = 0
       ELSE /\ r.start \in Blocks /\ r.cap > 0 /\ ~IsFree(vs, r.start) /\ Cells(vs, r.start) = vs.mem[r.start]

\* The invariant says it of every vector.
LEMMA OwnIs ==
    ASSUME Inv, NEW v \in Vecs
    PROVE  Own(v, vs.vec[v], vecMeant[v])
<1>1. PICK r, xs : r = vs.vec[v] /\ xs = vecMeant[v] OBVIOUS
<1>2. /\ r \in Vec /\ r.start \in Blocks \cup {NoBlock} /\ r.cap \in Nat /\ r.siz \in Nat
  BY <1>1, VecIs DEF Inv
<1>3. Carries(vs, r, xs) BY <1>1 DEF Inv, Holds
<1>4. xs \in Seq(Elements) BY <1>1 DEF Inv, Meaning
<1>5. vs \in State BY DEF Inv
<1>6. /\ Cells(vs, r.start) \in Seq(Cell)
      /\ r.start = NoBlock => Cells(vs, r.start) = <<>>
      /\ r.start \in Blocks => Cells(vs, r.start) = vs.mem[r.start] /\ (IsFree(vs, r.start) <=> Len(Cells(vs, r.start)) = 0)
  BY <1>2, <1>5, CellsIs
<1>7. /\ r.cap = Len(Cells(vs, r.start)) /\ (r.start # NoBlock => r.cap > 0)
      /\ Full(vs.elem, Cells(vs, r.start), r.siz, xs)
  BY <1>3 DEF Carries
<1>8. r.siz = Len(xs) /\ r.siz <= r.cap /\ \A i \in 1..r.siz : Cells(vs, r.start)[i] = xs[i]
  BY <1>7 DEF Full
<1>9. \A i \in 1..r.siz : xs[i] \in Elements /\ xs[i] # Raw BY <1>4, <1>8, VectorAssumption
<1>10. IF r.start = NoBlock THEN r.cap = 0
       ELSE /\ r.start \in Blocks /\ r.cap > 0 /\ ~IsFree(vs, r.start) /\ Cells(vs, r.start) = vs.mem[r.start]
  BY <1>2, <1>6, <1>7
<1> QED BY <1>1, <1>2, <1>4, <1>6, <1>7, <1>8, <1>9, <1>10 DEF Own

\* A good end of an operation on v: u is the memory, start, cap and siz the vector it leaves.
Leaves(v, u, B, start, cap, siz, xs) ==
    /\ Same(vs, u, B) /\ NoBlock \notin B /\ B \subseteq Blocks
    /\ \A c \in B : c = vs.vec[v].start \/ IsFree(vs, c)
    /\ \A c \in B \cup {vs.vec[v].start} : c = start \/ c = NoBlock \/ IsFree(u, c)
    /\ start \in B \cup {vs.vec[v].start, NoBlock} /\ cap \in Nat /\ siz \in Nat
    /\ cap = Len(Cells(u, start)) /\ (start # NoBlock => cap > 0)
    /\ Full(vs.elem, Cells(u, start), siz, xs)

\* The vectors are in order after a good end.
LEMMA LeavesHolds ==
    ASSUME Inv, NEW v \in Vecs, NEW u, NEW B, NEW start, NEW cap, NEW siz, NEW xs,
           Leaves(v, u, B, start, cap, siz, xs), NEW t, Sets(u, v, start, cap, siz, t),
           NEW m, m[v] = xs, \A w \in Vecs \ {v} : m[w] = vecMeant[w]
    PROVE  t \in State /\ t.elem = vs.elem /\ Holds(t, m)
<1>2. vs \in State /\ vs.vec[v].start \in Blocks \cup {NoBlock} BY VecIs DEF Inv
<1>7. t \in State /\ t.mem = u.mem /\ t.elem = u.elem /\ t.event = u.event BY DEF Sets
<1>8. t.vec[v] = [start |-> start, cap |-> cap, siz |-> siz] BY DEF Sets
<1>9. t.vec[v].start = start /\ t.vec[v].cap = cap /\ t.vec[v].siz = siz BY <1>8
<1>10. t.elem = vs.elem /\ \A c \in Blocks \ B : t.mem[c] = vs.mem[c] BY <1>7 DEF Leaves, Same
<1>11. \A w \in Vecs \ {v} : t.vec[w] = vs.vec[w] /\ m[w] = vecMeant[w] BY DEF Sets, Leaves, Same
<1>12. Carries(t, t.vec[v], m[v])
  <2>1. Cells(t, start) = Cells(u, start) BY <1>7 DEF Cells
  <2>2. t.vec[v] \in Vec BY <1>7, VecIs
  <2>3. cap = Len(Cells(u, start)) /\ (start # NoBlock => cap > 0) /\ Full(vs.elem, Cells(u, start), siz, xs)
    BY DEF Leaves
  <2> QED BY <1>9, <1>10, <2>1, <2>2, <2>3 DEF Carries
<1>13. \A c \in B \cup {vs.vec[v].start} : c \in Blocks => c = t.vec[v].start \/ IsFree(t, c)
  BY <1>7, <1>9, AllocAssumption DEF Leaves, IsFree
<1>14. /\ NoBlock \notin B /\ t.vec[v].start \in B \cup {vs.vec[v].start, NoBlock}
       /\ \A c \in B : c = vs.vec[v].start \/ IsFree(vs, c)
  BY <1>9 DEF Leaves
<1>15. Holds(vs, vecMeant) BY DEF Inv
<1>16. Holds(t, m) BY <1>2, <1>7, <1>10, <1>11, <1>12, <1>13, <1>14, <1>15, ReplaceHolds
<1> QED BY <1>7, <1>10, <1>16

\* Which changes only v and the blocks B.
LEMMA LeavesSets ==
    ASSUME Inv, NEW v \in Vecs, NEW u, NEW B, NEW start, NEW cap, NEW siz, NEW xs,
           Leaves(v, u, B, start, cap, siz, xs), NEW t, t = Set(u, v, start, cap, siz)
    PROVE  Sets(u, v, start, cap, siz, t)
<1>1. vs.vec[v].start \in Blocks \cup {NoBlock} BY VecIs DEF Inv
<1>2. u \in State /\ start \in Blocks \cup {NoBlock} /\ cap \in Nat /\ siz \in Nat
  BY <1>1 DEF Leaves, Same
<1> QED BY <1>2, SetIs

\* An operation with a good end keeps the invariant.
LEMMA StepGood ==
    ASSUME Inv, NEW v \in Vecs, NEW u, NEW B, NEW start, NEW cap, NEW siz, NEW xs \in Seq(Elements),
           Leaves(v, u, B, start, cap, siz, xs), NEW op, u.event \subseteq Allowed(vs.elem, op),
           Finish(op, Set(u, v, start, cap, siz), Means(v, xs))
    PROVE  Inv'
<1>1. PICK t : t = Set(u, v, start, cap, siz) OBVIOUS
<1>2. Sets(u, v, start, cap, siz, t) BY <1>1, LeavesSets
<1>3. PICK m : m = Means(v, xs) OBVIOUS
<1>4. m \in Meaning /\ m[v] = xs /\ \A w \in Vecs \ {v} : m[w] = vecMeant[w] BY <1>3, MeansIs
<1>5. t \in State /\ t.elem = vs.elem /\ Holds(t, m) BY <1>2, <1>4, LeavesHolds
<1>6. t.event = u.event BY <1>2 DEF Sets
<1> QED BY <1>1, <1>3, <1>4, <1>5, <1>6, FinishGood

\* Known, one operation at a time.
LEMMA KnownIs ==
    /\ Allowed("trivial", "copyAssign") = {"panic", "leak"}
    /\ Allowed("trivial", "moveAssign") = {"leak"} /\ Allowed("class", "moveAssign") = {"leak"}
    /\ Allowed("trivial", "shrink") = {"cut"} /\ Allowed("class", "shrink") = {"null", "dangling"}
    /\ Allowed("trivial", "insert") = {"dropped"} /\ Allowed("class", "insert") = {"null", "dangling", "dropped"}
    /\ Allowed("trivial", "pushOwn") = {"dangling"} /\ Allowed("class", "pushOwn") = {"null", "dangling"}
    /\ Allowed("trivial", "pop") = {"panic"} /\ Allowed("class", "pop") = {"panic"}
    /\ Allowed("class", "copyAssign") = {"raw", "null", "outside", "overwritten", "leak"}
    /\ Allowed("class", "reserve") = {"raw", "null", "dangling"}
    /\ Allowed("class", "push") = {"null", "dangling"}
BY DEF Allowed, Known

\* The allocator offers a free block, or null.
LEMMA OfferIs ==
    ASSUME Inv, NEW b \in Offer
    PROVE  Offered(vs, b)
<1>1. CASE InUse(vs) = Blocks BY <1>1 DEF Offer, Offered
<1>2. CASE InUse(vs) # Blocks
  <2>1. \E c \in Blocks : IsFree(vs, c) BY <1>2 DEF InUse
  <2>2. PICK d : d = CHOOSE c \in Blocks : IsFree(vs, c) OBVIOUS
  <2>3. d \in Blocks /\ IsFree(vs, d) BY <2>1, <2>2
  <2> QED BY <1>2, <2>2, <2>3 DEF Offer, Offered
<1> QED BY <1>1, <1>2

\* So it does to an operation that grows the buffer.
LEMMA BlockForIs ==
    ASSUME Inv, NEW v, NEW n, NEW b \in BlockFor(v, n)
    PROVE  Offered(vs, b)
<1>1. CASE n <= vs.vec[v].cap BY <1>1 DEF BlockFor, Offered
<1>2. CASE ~(n <= vs.vec[v].cap) BY <1>2, OfferIs DEF BlockFor
<1> QED BY <1>1, <1>2

\* Two states with the same parts are the same.
LEMMA SameNone ==
    ASSUME NEW s \in State, NEW t, Same(s, t, {}), t.event = s.event
    PROVE  t = s
<1>1. t \in State /\ t.vec = s.vec /\ t.elem = s.elem /\ \A c \in Blocks : t.mem[c] = s.mem[c]
  BY DEF Same
<1>2. t.mem = s.mem
  <2>1. t.mem \in [Blocks -> Seq(Cell)] /\ s.mem \in [Blocks -> Seq(Cell)] BY <1>1, StateParts
  <2> QED BY <1>1, <2>1
<1> QED BY ONLY <1>1, <1>2, s \in State, t.event = s.event, StateParts

\* An operation that does nothing.
LEMMA StepNone ==
    ASSUME Inv, NEW op, NEW t, t = vs, NEW meant, meant = vecMeant, Finish(op, t, meant)
    PROVE  Inv'
BY FinishGood DEF Inv

\* Buffers are freed by an operation that went wrong, and their vectors still point at them.
LEMMA StepBad ==
    ASSUME Inv, NEW t \in State, t.vec = vs.vec, t.elem = vs.elem,
           \A c \in Blocks : \/ IsFree(t, c)
                             \/ /\ Len(t.mem[c]) = Len(vs.mem[c])
                                /\ vs.elem = "class" => t.mem[c] = vs.mem[c],
           NEW op, t.event \subseteq Allowed(vs.elem, op),
           t.event # {} \/ Dangles(t),
           "dangling" \in Allowed(vs.elem, op) \/ \A c \in Blocks : IsFree(t, c) => IsFree(vs, c),
           NEW meant \in Meaning, Finish(op, t, meant)
    PROVE  Inv'
<1>1. Holds(vs, vecMeant) /\ vs \in State BY DEF Inv
<1>2. ~Leaks(vs) /\ ~Dangles(vs) BY <1>1, HoldsClean
<1>3. InUse(t) \subseteq Owned(t)
  <2>1. ASSUME NEW c \in InUse(t) PROVE c \in Owned(t)
    <3>1. c \in Blocks /\ ~IsFree(t, c) BY <2>1 DEF InUse
    <3>2. Len(t.mem[c]) = Len(vs.mem[c]) BY <3>1
    <3>3. ~IsFree(vs, c) BY <1>1, <3>1, <3>2, BlockCells
    <3>4. c \in Owned(vs) BY <1>2, <3>1, <3>3 DEF Leaks, InUse
    <3> QED BY <3>1, <3>2, <3>4 DEF Owned
  <2> QED BY <2>1
<1>4. ASSUME NEW v \in Vecs PROVE ~Forgotten(t, v)
  <2>1. CASE vs.elem # "class" BY <2>1 DEF Forgotten
  <2>2. CASE vs.elem = "class"
    <3>1. PICK r : r = t.vec[v] OBVIOUS
    <3>2. r = vs.vec[v] /\ r.start \in Blocks \cup {NoBlock} /\ r.siz \in Nat BY <3>1, VecIs
    <3>3. CASE Cells(t, r.start) = Cells(vs, r.start)
      <4>1. ~Forgotten(vs, v) BY <1>2 DEF Leaks
      <4> QED BY <2>2, <3>1, <3>2, <3>3, <4>1 DEF Forgotten
    <3>4. CASE Cells(t, r.start) # Cells(vs, r.start)
      <4>1. r.start \in Blocks BY <3>2, <3>4 DEF Cells
      <4>2. Cells(t, r.start) = t.mem[r.start] /\ Cells(vs, r.start) = vs.mem[r.start]
        BY <1>1, <4>1, CellsIs
      <4>3. IsFree(t, r.start) BY <2>2, <3>4, <4>1, <4>2
      <4>4. Len(Cells(t, r.start)) = 0 BY <4>1, <4>3, CellsIs
      <4>5. r.siz + 1..Len(Cells(t, r.start)) = {} BY <3>2, <4>4
      <4> QED BY <3>1, <4>5 DEF Forgotten
    <3> QED BY <3>3, <3>4
  <2> QED BY <2>1, <2>2
<1>5. ~Leaks(t) BY <1>3, <1>4 DEF Leaks
<1>6. Dangles(t) => "dangling" \in Allowed(vs.elem, op)
  <2> SUFFICES ASSUME Dangles(t), \A c \in Blocks : IsFree(t, c) => IsFree(vs, c) PROVE FALSE OBVIOUS
  <2>1. PICK v \in Vecs : Dangling(t, v) BY DEF Dangles
  <2>2. vs.vec[v].start \in Blocks /\ IsFree(t, vs.vec[v].start) BY <1>1, <2>1, VecIs DEF Dangling
  <2>3. Dangling(vs, v) BY <2>1, <2>2 DEF Dangling
  <2> QED BY <1>2, <2>3 DEF Dangles
<1> QED BY <1>5, <1>6, FinishKeeps

\* Placement of one object.
Put(cells, i, x) == [cells EXCEPT ![i] = x]

\* The placement keeps the cells a sequence of the same length.
LEMMA PutCells ==
    ASSUME NEW cells \in Seq(Cell), NEW i \in 1..Len(cells), NEW x \in Cell
    PROVE  /\ Put(cells, i, x) \in Seq(Cell) /\ Len(Put(cells, i, x)) = Len(cells)
           /\ \A j \in 1..Len(cells) : Put(cells, i, x)[j] = IF j = i THEN x ELSE cells[j]
BY DEF Put

\* Construction of one object in a raw cell does that and nothing else.
LEMMA ConstructIs ==
    ASSUME NEW s \in State, NEW p \in Blocks, NEW i \in 1..Len(s.mem[p]), NEW x \in Cell,
           s.elem = "class" => s.mem[p][i] = Raw, NEW t, t = Construct(s, p, i, x)
    PROVE  Stores(s, p, Put(s.mem[p], i, x), t)
<1>1. Cells(s, p) = s.mem[p] /\ s.mem[p] \in Seq(Cell) BY BlockCells
<1>2. PICK cells : cells = Put(s.mem[p], i, x) OBVIOUS
<1>3. cells \in Seq(Cell) BY <1>1, <1>2, PutCells
<1>4. ~(i > Len(Cells(s, p))) BY <1>1
<1>5. ~(s.elem = "class" /\ s.mem[p][i] # Raw) OBVIOUS
<1>6. t = Stored(s, p, cells) BY <1>2, <1>4, <1>5 DEF Construct, Flag, Stored, Put
<1> QED BY <1>2, <1>3, <1>6, PutIs

\* Sequences.
Inserted(xs, i, x, ys) ==
    /\ Len(ys) = Len(xs) + 1
    /\ \A j \in 1..Len(xs) + 1 : ys[j] = IF j < i THEN xs[j] ELSE IF j = i THEN x ELSE xs[j - 1]

\* The sequence with x inserted.
LEMMA InsertIs ==
    ASSUME NEW xs \in Seq(Elements), NEW i \in 1..Len(xs) + 1, NEW x \in Elements, NEW ys, ys = InsertAt(xs, i, x)
    PROVE  ys \in Seq(Elements) /\ Inserted(xs, i, x, ys)
<1>1. PICK a, b, c : a = SubSeq(xs, 1, i - 1) /\ b = <<x>> /\ c = SubSeq(xs, i, Len(xs)) OBVIOUS
<1>2. a \in Seq(Elements) /\ Len(a) = i - 1 /\ \A j \in 1..i - 1 : a[j] = xs[j] BY <1>1
<1>3. b \in Seq(Elements) /\ Len(b) = 1 /\ b[1] = x BY <1>1
<1>4. c \in Seq(Elements) /\ Len(c) = Len(xs) - i + 1 /\ \A j \in 1..Len(xs) - i + 1 : c[j] = xs[i + j - 1]
  BY <1>1
<1>5. InsertAt(xs, i, x) = (a \o b) \o c BY <1>1 DEF InsertAt
<1>6. PICK ab : ab = a \o b OBVIOUS
<1>7. ab \in Seq(Elements) /\ Len(ab) = i /\ \A j \in 1..i : ab[j] = IF j < i THEN xs[j] ELSE x
  <2>0. a \in Seq(Elements) /\ b \in Seq(Elements) BY <1>2, <1>3
  <2>4. ab \in Seq(Elements) /\ Len(ab) = Len(a) + Len(b) BY ONLY <2>0, <1>6
  <2>5. \A j \in 1..Len(a) + Len(b) : ab[j] = IF j <= Len(a) THEN a[j] ELSE b[j - Len(a)] BY ONLY <2>0, <1>6
  <2>1. ab \in Seq(Elements) /\ Len(ab) = i BY <1>2, <1>3, <2>4
  <2>2. ASSUME NEW j \in 1..i PROVE ab[j] = IF j < i THEN xs[j] ELSE x
    <3>1. CASE j < i BY <1>2, <1>3, <1>6, <3>1
    <3>2. CASE j = i
      <4>1. ab[j] = b[j - (i - 1)] /\ j - (i - 1) = 1 BY <1>2, <1>3, <2>5, <3>2
      <4> QED BY <1>3, <3>2, <4>1
    <3> QED BY <3>1, <3>2
  <2> QED BY <2>1, <2>2
<1>8. PICK abc : abc = ab \o c OBVIOUS
<1>9. abc \in Seq(Elements) /\ Len(abc) = Len(xs) + 1
  <2>1. ab \in Seq(Elements) /\ c \in Seq(Elements) BY <1>4, <1>7
  <2>2. abc \in Seq(Elements) BY ONLY <2>1, <1>8
  <2>3. Len(abc) = Len(ab) + Len(c) BY ONLY <2>1, <1>8
  <2> QED BY <1>4, <1>7, <2>2, <2>3
<1>10. ASSUME NEW j \in 1..Len(xs) + 1
       PROVE  abc[j] = IF j < i THEN xs[j] ELSE IF j = i THEN x ELSE xs[j - 1]
  <2>1. CASE j <= i BY <1>4, <1>7, <1>8, <2>1
  <2>2. CASE j > i
    <3>1. abc[j] = c[j - i] BY <1>4, <1>7, <1>8, <2>2
    <3>2. j - i \in 1..Len(xs) - i + 1 BY <2>2
    <3>3. c[j - i] = xs[i + (j - i) - 1] BY <1>4, <3>2
    <3>4. i + (j - i) - 1 = j - 1 OBVIOUS
    <3> QED BY <2>2, <3>1, <3>3, <3>4
  <2> QED BY <2>1, <2>2
<1> QED BY <1>5, <1>6, <1>8, <1>9, <1>10 DEF Inserted

\* The sequence without one element.
LEMMA RemoveIs ==
    ASSUME NEW S, NEW xs \in Seq(S), NEW i \in 1..Len(xs)
    PROVE  /\ RemoveAt(xs, i) \in Seq(S) /\ Len(RemoveAt(xs, i)) = Len(xs) - 1
           /\ \A j \in 1..Len(xs) - 1 : RemoveAt(xs, i)[j] = IF j < i THEN xs[j] ELSE xs[j + 1]
<1>1. PICK a, c : a = SubSeq(xs, 1, i - 1) /\ c = SubSeq(xs, i + 1, Len(xs)) OBVIOUS
<1>2. a \in Seq(S) /\ Len(a) = i - 1 /\ \A j \in 1..i - 1 : a[j] = xs[j] BY <1>1
<1>4. c \in Seq(S) /\ Len(c) = Len(xs) - i /\ \A j \in 1..Len(xs) - i : c[j] = xs[i + j] BY <1>1
<1>5. RemoveAt(xs, i) = a \o c BY <1>1 DEF RemoveAt
<1>8. PICK ac : ac = a \o c OBVIOUS
<1>9. ac \in Seq(S) /\ Len(ac) = Len(xs) - 1 BY <1>2, <1>4, <1>8
<1>10. ASSUME NEW j \in 1..Len(xs) - 1 PROVE  ac[j] = IF j < i THEN xs[j] ELSE xs[j + 1]
  <2>1. CASE j < i BY <1>2, <1>4, <1>8, <2>1
  <2>2. CASE j >= i
    <3>1. ac[j] = c[j - (i - 1)] BY <1>2, <1>4, <1>8, <2>2
    <3>2. j - (i - 1) \in 1..Len(xs) - i BY <2>2
    <3>3. c[j - (i - 1)] = xs[i + (j - (i - 1))] BY <1>4, <3>2
    <3>4. i + (j - (i - 1)) = j + 1 OBVIOUS
    <3> QED BY <2>2, <3>1, <3>3, <3>4
  <2> QED BY <2>1, <2>2
<1> QED BY <1>5, <1>8, <1>9, <1>10

\* The sequence without its last element.
LEMMA FrontIs ==
    ASSUME NEW S, NEW xs \in Seq(S), Len(xs) > 0
    PROVE  Front(xs) \in Seq(S) /\ Len(Front(xs)) = Len(xs) - 1 /\ \A j \in 1..Len(xs) - 1 : Front(xs)[j] = xs[j]
<1>1. PICK n \in Nat : n = Len(xs) - 1 OBVIOUS
<1>2. Front(xs) = SubSeq(xs, 1, n) BY <1>1 DEF Front
<1>3. n <= Len(xs) BY <1>1
<1>4. SubSeq(xs, 1, n) \in Seq(S) /\ Len(SubSeq(xs, 1, n)) = n BY <1>3
<1>5. \A j \in 1..n : SubSeq(xs, 1, n)[j] = xs[j] BY <1>3
<1> QED BY <1>1, <1>2, <1>4, <1>5

\* The sequence with one element more.
LEMMA AppendIs ==
    ASSUME NEW S, NEW xs \in Seq(S), NEW x \in S
    PROVE  /\ Append(xs, x) \in Seq(S) /\ Len(Append(xs, x)) = Len(xs) + 1
           /\ \A j \in 1..Len(xs) + 1 : Append(xs, x)[j] = IF j <= Len(xs) THEN xs[j] ELSE x
OBVIOUS

-----------------------------------------------------------------------------
(* The operations.                                                         *)

\* The empty vector.
LEMMA EmptyIs ==
    /\ <<>> \in Seq(Elements) /\ Len(<<>>) = 0
    /\ \A e : Full(e, <<>>, 0, <<>>)
BY DEF Full

\* clear: the elements are destroyed and the buffer given back.
LEMMA KeepsClear ==
    ASSUME Inv, NEW v \in Vecs, Clear(v)
    PROVE  Inv'
<1>1. PICK r, xs : r = vs.vec[v] /\ xs = vecMeant[v] OBVIOUS
<1>2. Own(v, r, xs) BY <1>1, OwnIs
<1>3. vs \in State /\ vs.event = {} BY DEF Inv
<1>4. PICK d, u, z : d = Destroy(vs, r.start, 1, r.siz) /\ u = Dealloc(d, r.start, r.cap) /\ z = <<>> OBVIOUS
<1>5. Finish("clear", Set(u, v, NoBlock, 0, 0), Means(v, z)) BY <1>1, <1>4 DEF Clear
<1>6. \E B : Leaves(v, u, B, NoBlock, 0, 0, z) /\ u.event = {}
  <2>1. z \in Seq(Elements) /\ Full(vs.elem, z, 0, z) /\ Len(z) = 0 BY <1>4, EmptyIs
  <2>2. Cells(u, NoBlock) = z BY <1>4 DEF Cells
  <2>3. CASE r.start = NoBlock
    <3>1. r.cap = 0 /\ r.siz = 0 BY <1>2, <2>3 DEF Own
    <3>2. d = vs BY <1>4, <3>1 DEF Destroy
    <3>3. u = vs BY <1>4, <3>1, <3>2 DEF Dealloc
    <3>4. Same(vs, u, {}) BY <1>3, <3>3 DEF Same
    <3>5. Leaves(v, u, {}, NoBlock, 0, 0, z) BY <1>1, <2>1, <2>2, <2>3, <3>4 DEF Leaves
    <3> QED BY <1>3, <3>3, <3>5
  <2>4. CASE r.start # NoBlock
    <3>1. /\ r.start \in Blocks /\ r.siz \in Nat /\ r.cap \in Nat /\ r.cap > 0 /\ r.siz <= r.cap
          /\ r.cap = Len(vs.mem[r.start]) /\ \A i \in 1..r.siz : vs.mem[r.start][i] # Raw
      BY <1>2, <2>4 DEF Own
    <3>2. Ended(vs, r.start, 1, r.siz, d) BY <1>3, <1>4, <3>1, DestroyIs
    <3>3. Same(vs, d, {r.start}) /\ d.event = {}
      <4>1. CASE 1 > r.siz BY <1>3, <3>2, <4>1 DEF Ended, Same
      <4>2. CASE 1 <= r.siz
        <5>1. ~SomeRaw(vs.mem[r.start], 1, r.siz) BY <3>1 DEF SomeRaw
        <5> QED BY <1>3, <3>2, <4>2, <5>1 DEF Ended
      <4> QED BY <3>1, <4>1, <4>2
    <3>4. d \in State BY <3>3 DEF Same
    <3>5. Freed(d, r.start, r.cap, u) BY <1>4, <3>1, <3>4, DeallocIs
    <3>6. Same(d, u, {r.start}) /\ IsFree(u, r.start) /\ u.event = d.event BY <3>1, <3>5 DEF Freed
    <3>7. Same(vs, u, {r.start} \cup {r.start}) BY <3>3, <3>6, SameTwice
    <3>8. Same(vs, u, {r.start}) BY <3>7, SameMore
    <3>9. Leaves(v, u, {r.start}, NoBlock, 0, 0, z)
      BY <1>1, <2>1, <2>2, <3>1, <3>6, <3>8, AllocAssumption DEF Leaves
    <3> QED BY <3>3, <3>6, <3>9
  <2> QED BY <2>3, <2>4
<1>7. PICK B : Leaves(v, u, B, NoBlock, 0, 0, z) /\ u.event = {} BY <1>6
<1>8. z \in Seq(Elements) BY <1>4, EmptyIs
<1> QED BY <1>5, <1>7, <1>8, StepGood

\* One element fewer: the last cell in use is destroyed after the cells became those of u.
LEMMA DropLast ==
    ASSUME Inv, NEW v \in Vecs, NEW r, NEW xs, Own(v, r, xs), r.siz > 0, NEW m, Same(vs, m, {r.start}), m.event = {},
           Len(m.mem[r.start]) = r.cap, m.mem[r.start][r.siz] # Raw,
           NEW ys \in Seq(Elements), Len(ys) = r.siz - 1,
           \A i \in 1..r.siz - 1 : m.mem[r.start][i] = ys[i],
           \A i \in 1..r.cap : i > r.siz => m.mem[r.start][i] = vs.mem[r.start][i],
           NEW op, Finish(op, Set(Destroy(m, r.start, r.siz, r.siz), v, r.start, r.cap, r.siz - 1), Means(v, ys))
    PROVE  Inv'
<1>1. /\ r = vs.vec[v] /\ r.siz \in Nat /\ r.cap \in Nat /\ r.siz <= r.cap
      /\ Full(vs.elem, Cells(vs, r.start), r.siz, xs) /\ r.start \in Blocks \cup {NoBlock}
  BY DEF Own
<1>2. /\ r.start \in Blocks /\ r.start # NoBlock /\ r.cap > 0 /\ ~IsFree(vs, r.start)
      /\ Cells(vs, r.start) = vs.mem[r.start] /\ r.cap = Len(vs.mem[r.start])
  BY <1>1 DEF Own
<1>3. PICK u : u = Destroy(m, r.start, r.siz, r.siz) OBVIOUS
<1>4. m \in State /\ m.elem = vs.elem BY DEF Same
<1>5. Ended(m, r.start, r.siz, r.siz, u) BY <1>1, <1>2, <1>3, <1>4, DestroyIs
<1>6. Same(m, u, {r.start}) /\ u.mem[r.start] = Wiped(m.mem[r.start], r.siz, r.siz) /\ u.event = {}
  <2>0. \A i \in r.siz..r.siz : i = r.siz BY <1>1
  <2>1. ~SomeRaw(m.mem[r.start], r.siz, r.siz) BY <2>0 DEF SomeRaw
  <2> QED BY <1>1, <1>5, <2>1 DEF Ended
<1>7. Same(vs, u, {r.start} \cup {r.start}) BY <1>6, SameTwice
<1>8. Same(vs, u, {r.start}) BY <1>7, SameMore
<1>9. PICK cells : cells = u.mem[r.start] OBVIOUS
<1>10. /\ cells \in Seq(Cell) /\ Len(cells) = r.cap
       /\ \A i \in 1..r.cap : cells[i] = IF i = r.siz THEN Raw ELSE m.mem[r.start][i]
  <2>1. m.mem[r.start] \in Seq(Cell) BY <1>2, <1>4, BlockCells
  <2>2. PICK before : before = m.mem[r.start] OBVIOUS
  <2>3. /\ Wiped(before, r.siz, r.siz) \in Seq(Cell) /\ Len(Wiped(before, r.siz, r.siz)) = Len(before)
        /\ \A i \in 1..Len(before) : Wiped(before, r.siz, r.siz)[i] = IF i \in r.siz..r.siz THEN Raw ELSE before[i]
    <3>1. PICK n : n = r.siz OBVIOUS
    <3>2. before \in Seq(Cell) /\ n \in Nat BY <1>1, <2>1, <2>2, <3>1
    <3>3. /\ Wiped(before, n, n) \in Seq(Cell) /\ Len(Wiped(before, n, n)) = Len(before)
          /\ \A i \in 1..Len(before) : Wiped(before, n, n)[i] = IF i \in n..n THEN Raw ELSE before[i]
      BY ONLY <3>2, WipedIs
    <3> QED BY <3>1, <3>3
  <2>4. Len(before) = r.cap BY <2>2
  <2>5. cells = Wiped(before, r.siz, r.siz) BY <1>6, <1>9, <2>2
  <2>6. \A i \in 1..r.cap : i \in r.siz..r.siz <=> i = r.siz BY <1>1
  <2>7. \A i \in 1..r.cap : cells[i] = IF i = r.siz THEN Raw ELSE before[i] BY ONLY <2>3, <2>4, <2>5, <2>6
  <2> QED BY <2>2, <2>3, <2>4, <2>5, <2>7
<1>11. Full(vs.elem, cells, r.siz - 1, ys)
  <2>1. \A i \in 1..r.siz - 1 : cells[i] = ys[i] BY <1>1, <1>10
  <2>2. ASSUME vs.elem = "class", NEW i \in 1..Len(cells), i > r.siz - 1 PROVE cells[i] = Raw
    <3>1. CASE i = r.siz BY <1>10, <3>1
    <3>2. CASE i > r.siz
      <4>1. vs.mem[r.start][i] = Raw BY <1>1, <1>2, <1>10, <2>2, <3>2 DEF Full
      <4> QED BY <1>10, <3>2, <4>1
    <3> QED BY <1>1, <1>10, <2>2, <3>1, <3>2
  <2> QED BY <1>1, <1>10, <2>1, <2>2 DEF Full
<1>12. Cells(u, r.start) = cells BY <1>2, <1>9 DEF Cells
<1>13. PICK n \in Nat : n = r.siz - 1 BY <1>1
<1>14. Leaves(v, u, {r.start}, r.start, r.cap, n, ys)
  BY <1>1, <1>2, <1>8, <1>10, <1>11, <1>12, <1>13, AllocAssumption DEF Leaves
<1>15. Finish(op, Set(u, v, r.start, r.cap, n), Means(v, ys)) BY <1>3, <1>13
<1>16. u.event \subseteq Allowed(vs.elem, op) BY <1>6
<1> QED BY <1>14, <1>15, <1>16, StepGood

\* pop_back, of an empty vector too.
LEMMA KeepsPop ==
    ASSUME Inv, NEW v \in Vecs, PopBack(v)
    PROVE  Inv'
<1>1. PICK r, xs : r = vs.vec[v] /\ xs = vecMeant[v] OBVIOUS
<1>2. Own(v, r, xs) BY <1>1, OwnIs
<1>3. vs \in State /\ vs.event = {} /\ vecMeant \in Meaning /\ Holds(vs, vecMeant) BY DEF Inv
<1>4. CASE r.siz = 0
  <2>1. PICK t : t = Raised(vs, "panic") OBVIOUS
  <2>2. "panic" \in Event BY DEF Event
  <2>3. Same(vs, t, {}) /\ t.mem = vs.mem /\ t.event = vs.event \cup {"panic"} BY <1>3, <2>1, <2>2, RaisedIs
  <2>4. t \in State /\ t.vec = vs.vec /\ t.elem = vs.elem BY <2>3 DEF Same
  <2>5. Finish("pop", t, vecMeant) BY <1>1, <1>4, <2>1 DEF PopBack, Flag, Raised
  <2>6. vs.elem \in {"trivial", "class"} BY <1>3, StateParts DEF Elem
  <2>7. t.event \subseteq Allowed(vs.elem, "pop") BY <1>3, <2>3, <2>6, KnownIs
  <2>8. Holds(t, vecMeant)
    <3>1. \A p : Cells(t, p) = Cells(vs, p) BY <2>3 DEF Cells
    <3>2. \A c : IsFree(t, c) <=> IsFree(vs, c) BY <2>3 DEF IsFree
    <3> QED BY <1>3, <2>4, <3>1, <3>2 DEF Holds, Carries
  <2> QED BY <1>3, <2>4, <2>5, <2>7, <2>8, FinishGood
<1>5. CASE r.siz # 0
  <2>1. PICK ys : ys = Front(xs) OBVIOUS
  <2>2. /\ xs \in Seq(Elements) /\ Len(xs) = r.siz /\ r.siz \in Nat /\ r.siz <= r.cap /\ r.cap \in Nat
        /\ r.start \in Blocks \cup {NoBlock} BY <1>2 DEF Own
  <2>3. /\ r.start \in Blocks /\ r.cap = Len(vs.mem[r.start])
        /\ \A i \in 1..r.siz : vs.mem[r.start][i] = xs[i] /\ xs[i] # Raw
    BY <1>2, <1>5, <2>2 DEF Own
  <2>4. /\ ys \in Seq(Elements) /\ Len(ys) = r.siz - 1 /\ \A j \in 1..r.siz - 1 : ys[j] = xs[j]
    <3>1. Len(xs) > 0 BY <1>5, <2>2
    <3> QED BY ONLY <3>1, <2>1, <2>2, FrontIs
  <2>5. Same(vs, vs, {r.start}) BY <1>3 DEF Same
  <2>6. Finish("pop", Set(Destroy(vs, r.start, r.siz, r.siz), v, r.start, r.cap, r.siz - 1), Means(v, ys))
    BY <1>1, <1>5, <2>1 DEF PopBack
  <2>7. r.siz > 0 /\ vs.mem[r.start][r.siz] # Raw /\ \A i \in 1..r.siz - 1 : vs.mem[r.start][i] = ys[i]
    <3>1. r.siz \in 1..r.siz /\ \A i \in 1..r.siz - 1 : i \in 1..r.siz BY <1>5, <2>2
    <3>2. vs.mem[r.start][r.siz] = xs[r.siz] /\ xs[r.siz] # Raw BY <2>3, <3>1
    <3>3. \A i \in 1..r.siz - 1 : vs.mem[r.start][i] = xs[i] /\ ys[i] = xs[i] BY <2>3, <2>4, <3>1
    <3>4. r.siz > 0 BY <1>5, <2>2
    <3> QED BY <3>2, <3>3, <3>4
  <2> QED BY <1>2, <1>3, <2>3, <2>4, <2>5, <2>6, <2>7, DropLast
<1> QED BY <1>4, <1>5

\* erase: the elements behind move down, and the last cell is destroyed.
LEMMA KeepsErase ==
    ASSUME Inv, NEW v \in Vecs, NEW i \in 1..MaxVec, Erase(v, i)
    PROVE  Inv'
<1>1. PICK r, xs : r = vs.vec[v] /\ xs = vecMeant[v] OBVIOUS
<1>2. Own(v, r, xs) BY <1>1, OwnIs
<1>3. vs \in State /\ vs.event = {} BY DEF Inv
<1>4. i \in Nat /\ 1 <= i /\ i <= r.siz BY <1>1, VectorAssumption DEF Erase
<1>5. /\ xs \in Seq(Elements) /\ Len(xs) = r.siz /\ r.siz \in Nat /\ r.siz <= r.cap /\ r.cap \in Nat
      /\ r.start \in Blocks \cup {NoBlock} BY <1>2 DEF Own
<1>6. /\ r.start \in Blocks /\ r.cap = Len(vs.mem[r.start])
      /\ \A j \in 1..r.siz : vs.mem[r.start][j] = xs[j] /\ xs[j] # Raw
  BY <1>2, <1>4, <1>5 DEF Own
<1>7. PICK ys, cells, m :
         /\ ys = RemoveAt(xs, i) /\ m = Stored(vs, r.start, cells)
         /\ cells = [j \in DOMAIN vs.mem[r.start] |->
                        IF j \in i..r.siz - 1 THEN vs.mem[r.start][j + 1] ELSE vs.mem[r.start][j]]
  OBVIOUS
<1>8. ys \in Seq(Elements) /\ Len(ys) = r.siz - 1 /\ \A j \in 1..r.siz - 1 : ys[j] = IF j < i THEN xs[j] ELSE xs[j + 1]
  <2>1. i \in 1..Len(xs) BY <1>4, <1>5
  <2> QED BY <1>5, <1>7, <2>1, RemoveIs
<1>9. /\ cells \in Seq(Cell) /\ Len(cells) = r.cap
      /\ \A j \in 1..r.cap : cells[j] = IF j \in i..r.siz - 1 THEN vs.mem[r.start][j + 1] ELSE vs.mem[r.start][j]
  <2>1. DOMAIN vs.mem[r.start] = 1..r.cap /\ \A j \in 1..r.cap : vs.mem[r.start][j] \in Cell
    BY <1>3, <1>6, BlockCells
  <2>2. \A j \in i..r.siz - 1 : j + 1 \in 1..r.cap BY <1>4, <1>5
  <2>3. cells \in [1..r.cap -> Cell] BY <1>7, <2>1, <2>2
  <2>4. \A j \in 1..r.cap : cells[j] = IF j \in i..r.siz - 1 THEN vs.mem[r.start][j + 1] ELSE vs.mem[r.start][j]
    BY <1>7, <2>1
  <2>5. r.cap \in Nat BY <1>5
  <2>6. cells \in Seq(Cell) /\ Len(cells) = r.cap BY ONLY <2>3, <2>5
  <2> QED BY <2>4, <2>6
<1>10. Stores(vs, r.start, cells, m) BY <1>3, <1>6, <1>7, <1>9, PutIs
<1>11. Same(vs, m, {r.start}) /\ m.mem[r.start] = cells /\ m.event = {} BY <1>3, <1>10 DEF Stores
<1>12. Finish("erase", Set(Destroy(m, r.start, r.siz, r.siz), v, r.start, r.cap, r.siz - 1), Means(v, ys))
  BY <1>1, <1>7 DEF Erase, Stored
<1>13. r.siz > 0 /\ cells[r.siz] # Raw
  <2>1. r.siz \notin i..r.siz - 1 /\ r.siz \in 1..r.cap BY <1>4, <1>5
  <2>2. cells[r.siz] = vs.mem[r.start][r.siz] BY <1>9, <2>1
  <2> QED BY <1>4, <1>5, <1>6, <2>2
<1>14. ASSUME NEW j \in 1..r.siz - 1 PROVE cells[j] = ys[j]
  <2>1. CASE j < i BY <1>4, <1>5, <1>6, <1>8, <1>9, <2>1
  <2>2. CASE j >= i
    <3>1. j + 1 \in 1..r.siz BY <1>5
    <3>2. j \in i..r.siz - 1 /\ j \in 1..r.cap BY <1>4, <1>5, <2>2
    <3>3. cells[j] = vs.mem[r.start][j + 1] BY <1>9, <3>2
    <3>4. ys[j] = xs[j + 1] BY <1>4, <1>8, <2>2
    <3> QED BY <1>6, <3>1, <3>3, <3>4
  <2> QED BY <1>4, <2>1, <2>2
<1>15. \A j \in 1..r.cap : j > r.siz => cells[j] = vs.mem[r.start][j] BY <1>5, <1>9
<1> QED BY <1>2, <1>8, <1>9, <1>11, <1>12, <1>13, <1>14, <1>15, DropLast

\* An operation that may lose buffers did.
LEMMA StepLeaks ==
    ASSUME Inv, NEW t \in State, t.elem = vs.elem, NEW op, t.event \subseteq Allowed(vs.elem, op),
           "leak" \in Allowed(vs.elem, op), ~Dangles(t), t.event # {} \/ Leaks(t),
           NEW meant \in Meaning, Finish(op, t, meant)
    PROVE  Inv'
BY FinishKeeps

\* What a vector in order shows is what it carries.
LEMMA ElemsIs ==
    ASSUME Inv, NEW v \in Vecs
    PROVE  Elems(vs, v) = vecMeant[v]
<1>1. PICK r, xs : r = vs.vec[v] /\ xs = vecMeant[v] OBVIOUS
<1>2. Own(v, r, xs) BY <1>1, OwnIs
<1>3. xs \in Seq(Elements) /\ Len(xs) = r.siz /\ \A i \in 1..r.siz : Cells(vs, r.start)[i] = xs[i]
  BY <1>2 DEF Own
<1>4. Elems(vs, v) = [i \in 1..r.siz |-> Cells(vs, r.start)[i]] BY <1>1 DEF Elems, First
<1>5. Elems(vs, v) = [i \in 1..r.siz |-> xs[i]] BY <1>3, <1>4
<1> QED BY <1>1, <1>3, <1>5

\* A new buffer of n cells with the elements xs.
Filled(v, b, n, h, xs, u) ==
    h.count = n /\ Leaves(v, u, {b}, h.ptr, n, Len(xs), xs) /\ u.event = {}

\* The buffer of a new vector, when there is memory for it.
LEMMA NewIs ==
    ASSUME Inv, NEW v \in Vecs, vs.vec[v].start = NoBlock, NEW n \in Nat, NEW b, Offered(vs, b),
           NEW h, h = AllocUninitialized(vs, n, b), h.ptr # NoBlock,
           NEW xs \in Seq(Elements), Len(xs) <= n, NEW u, u = ConstructAll(h.s, h.ptr, xs)
    PROVE  Filled(v, b, n, h, xs, u)
<1>1. vs \in State /\ vs.event = {} BY DEF Inv
<1>2. b \in Blocks \cup {NoBlock} BY DEF Offered
<1>3. Allocated(vs, n, b, h) BY <1>1, <1>2, AllocIs
<1>4. /\ n > 0 /\ b \in Blocks /\ b # NoBlock /\ h.ptr = b /\ h.count = n
      /\ Same(vs, h.s, {b}) /\ h.s.mem[b] = RawCells(n) /\ h.s.event = {}
  BY <1>1, <1>2, <1>3 DEF Allocated
<1>5. IsFree(vs, b) BY <1>4 DEF Offered
<1>6. h.s \in State /\ h.s.elem = vs.elem BY <1>4 DEF Same
<1>7. RawCells(n) \in Seq(Cell) /\ Len(RawCells(n)) = n /\ \A i \in 1..n : RawCells(n)[i] = Raw BY RawCellsIs
<1>8. xs \in Seq(Cell) /\ Len(xs) \in Nat /\ DOMAIN xs = 1..Len(xs) BY DEF Cell
<1>9. h.s \in State /\ h.ptr \in Blocks \cup {NoBlock} BY <1>2, <1>4, <1>6
<1>10. Placed(h.s, h.ptr, xs, u) BY ONLY <1>8, <1>9, u = ConstructAll(h.s, h.ptr, xs), ConstructAllIs
<1>11. PICK cells : cells = u.mem[b] OBVIOUS
<1>12. /\ Same(vs, u, {b}) /\ u.event = {} /\ Len(cells) = n
       /\ \A i \in 1..n : cells[i] = IF i <= Len(xs) THEN xs[i] ELSE Raw
  <2>1. CASE xs = <<>>
    <3>1. u = h.s /\ Len(xs) = 0 BY <1>10, <2>1 DEF Placed
    <3> QED BY <1>4, <1>7, <1>11, <3>1
  <2>2. CASE xs # <<>>
    <3>1. Len(xs) <= Len(h.s.mem[h.ptr]) BY <1>4, <1>7
    <3>2. ~\E i \in DOMAIN xs : h.s.mem[h.ptr][i] # Raw BY <1>4, <1>7, <1>8
    <3>3. /\ Same(h.s, u, {b}) /\ u.mem[b] = Over(h.s.mem[b], xs) /\ u.event = h.s.event
      BY <1>4, <1>10, <2>2, <3>1, <3>2 DEF Placed
    <3>4. Same(vs, u, {b} \cup {b}) BY <1>4, <3>3, SameTwice
    <3>5. Same(vs, u, {b}) BY <3>4, SameMore
    <3>6. PICK raws : raws = RawCells(n) OBVIOUS
    <3>7. raws \in Seq(Cell) /\ Len(raws) = n /\ \A i \in 1..n : raws[i] = Raw BY <1>7, <3>6
    <3>8. cells = Over(raws, xs) BY <1>4, <1>11, <3>3, <3>6
    <3>9. Len(cells) = n /\ \A i \in 1..n : cells[i] = IF i <= Len(xs) THEN xs[i] ELSE raws[i]
      BY ONLY <1>8, <3>7, <3>8, OverIs
    <3> QED BY <1>4, <3>3, <3>5, <3>7, <3>9
  <2> QED BY <2>1, <2>2
<1>13. Full(vs.elem, cells, Len(xs), xs)
  <2>1. \A i \in 1..Len(xs) : cells[i] = xs[i] BY <1>8, <1>12
  <2>2. \A i \in 1..Len(cells) : i > Len(xs) => cells[i] = Raw BY <1>8, <1>12
  <2> QED BY <1>12, <2>1, <2>2 DEF Full
<1>14. Cells(u, h.ptr) = cells BY <1>4, <1>11 DEF Cells
<1>15. Leaves(v, u, {b}, h.ptr, n, Len(xs), xs)
  BY <1>4, <1>5, <1>8, <1>12, <1>13, <1>14 DEF Leaves
<1> QED BY <1>4, <1>12, <1>15 DEF Filled

\* Or none.
LEMMA NewNone ==
    ASSUME Inv, NEW v \in Vecs, vs.vec[v].start = NoBlock, NEW z, z = <<>>
    PROVE  Leaves(v, vs, {}, NoBlock, 0, 0, z) /\ vs.event = {} /\ z \in Seq(Elements)
<1>1. vs \in State /\ vs.event = {} BY DEF Inv
<1>2. Same(vs, vs, {}) BY <1>1 DEF Same
<1>3. Cells(vs, NoBlock) = z BY DEF Cells
<1>4. z \in Seq(Elements) /\ Len(z) = 0 /\ Full(vs.elem, z, 0, z) BY EmptyIs
<1> QED BY <1>1, <1>2, <1>3, <1>4 DEF Leaves

\* An allocation that fails changes nothing.
LEMMA AllocNone ==
    ASSUME Inv, NEW n \in Nat, NEW b, Offered(vs, b), NEW h, h = AllocUninitialized(vs, n, b), h.ptr = NoBlock
    PROVE  h.s = vs
<1>1. vs \in State /\ b \in Blocks \cup {NoBlock} BY DEF Inv, Offered
<1>2. Allocated(vs, n, b, h) BY <1>1, AllocIs
<1> QED BY <1>2, <1>1, AllocAssumption DEF Allocated

\* A vector without a buffer is empty.
LEMMA NoVecIs ==
    ASSUME Inv, NEW v \in Vecs, vs.vec[v].start = NoBlock
    PROVE  vs.vec[v] = NoVec /\ vecMeant[v] = <<>>
<1>1. PICK r, xs : r = vs.vec[v] /\ xs = vecMeant[v] OBVIOUS
<1>2. Own(v, r, xs) BY <1>1, OwnIs
<1>3. r.cap = 0 /\ r.siz = 0 /\ Len(xs) = 0 /\ xs \in Seq(Elements) /\ r \in Vec BY <1>1, <1>2 DEF Own
<1>4. r = [start |-> r.start, cap |-> r.cap, siz |-> r.siz] BY <1>3 DEF Vec
<1> QED BY <1>1, <1>3, <1>4 DEF NoVec

\* The constructor that reserves.
LEMMA KeepsNewReserve ==
    ASSUME Inv, NEW v \in Vecs, NEW n \in VecSizes, NEW b \in BlockFor(v, n), NewReserve(v, n, b)
    PROVE  Inv'
<1>1. n \in Nat /\ Offered(vs, b) BY BlockForIs, VectorAssumption
<1>2. PICK h, z : h = AllocUninitialized(vs, n, b) /\ z = <<>> OBVIOUS
<1>3. vs.vec[v].start = NoBlock BY DEF NewReserve, NoVec
<1>4. Finish("withCapacity", Set(h.s, v, h.ptr, IF h.ptr = NoBlock THEN 0 ELSE h.count, 0), Means(v, z))
  BY <1>2 DEF NewReserve
<1>5. CASE h.ptr = NoBlock
  <2>1. h.s = vs BY <1>1, <1>2, <1>5, AllocNone
  <2>2. Leaves(v, vs, {}, NoBlock, 0, 0, z) /\ vs.event = {} /\ z \in Seq(Elements) BY <1>2, <1>3, NewNone
  <2>3. Finish("withCapacity", Set(vs, v, NoBlock, 0, 0), Means(v, z)) BY <1>4, <1>5, <2>1
  <2>4. vs.event \subseteq Allowed(vs.elem, "withCapacity") BY <2>2
  <2> QED BY <2>2, <2>3, <2>4, StepGood
<1>6. CASE h.ptr # NoBlock
  <2>1. z \in Seq(Elements) /\ Len(z) = 0 /\ Len(z) <= n BY <1>1, <1>2
  <2>2. PICK u : u = ConstructAll(h.s, h.ptr, z) OBVIOUS
  <2>3. u = h.s BY <1>2, <2>2 DEF ConstructAll
  <2>7. Filled(v, b, n, h, z, u) BY <1>1, <1>2, <1>3, <1>6, <2>1, <2>2, NewIs
  <2>4. h.count = n /\ Leaves(v, u, {b}, h.ptr, n, Len(z), z) /\ u.event = {}
    BY <2>7 DEF Filled
  <2>5. Finish("withCapacity", Set(u, v, h.ptr, n, Len(z)), Means(v, z)) BY <1>4, <1>6, <2>1, <2>3, <2>4
  <2>6. u.event \subseteq Allowed(vs.elem, "withCapacity") BY <2>4
  <2> QED BY <2>1, <2>4, <2>5, <2>6, StepGood
<1> QED BY <1>5, <1>6

\* The constructors that fill.
LEMMA KeepsNewFill ==
    ASSUME Inv, NEW v \in Vecs, NEW n \in VecSizes, NEW b \in BlockFor(v, n), NEW x \in Elements, NewFill(v, x, n, b)
    PROVE  Inv'
<1>1. n \in Nat /\ Offered(vs, b) BY BlockForIs, VectorAssumption
<1>2. PICK h, xs : h = AllocUninitialized(vs, n, b) /\ xs = [i \in 1..n |-> x] OBVIOUS
<1>3. vs.vec[v].start = NoBlock BY DEF NewFill, NoVec
<1>4. IF h.ptr = NoBlock THEN Finish("fill", h.s, Means(v, <<>>))
      ELSE Finish("fill", Set(ConstructAll(h.s, h.ptr, xs), v, h.ptr, h.count, n), Means(v, xs))
  BY <1>2 DEF NewFill
<1>5. CASE h.ptr = NoBlock
  <2>1. h.s = vs BY <1>1, <1>2, <1>5, AllocNone
  <2>2. Means(v, <<>>) = vecMeant BY <1>3, NoVecIs, MeansIs, EmptyIs
  <2> QED BY <1>4, <1>5, <2>1, <2>2, StepNone
<1>6. CASE h.ptr # NoBlock
  <2>1. xs \in Seq(Elements) /\ Len(xs) = n /\ Len(xs) <= n
    <3>1. xs \in [1..n -> Elements] BY <1>2
    <3> QED BY <1>1, <3>1
  <2>2. PICK u : u = ConstructAll(h.s, h.ptr, xs) OBVIOUS
  <2>7. Filled(v, b, n, h, xs, u) BY <1>1, <1>2, <1>3, <1>6, <2>1, <2>2, NewIs
  <2>4. h.count = n /\ Leaves(v, u, {b}, h.ptr, n, Len(xs), xs) /\ u.event = {}
    BY <2>7 DEF Filled
  <2>5. Finish("fill", Set(u, v, h.ptr, n, Len(xs)), Means(v, xs)) BY <1>4, <1>6, <2>1, <2>2, <2>4
  <2>6. u.event \subseteq Allowed(vs.elem, "fill") BY <2>4
  <2> QED BY <2>1, <2>4, <2>5, <2>6, StepGood
<1> QED BY <1>5, <1>6

\* The copy constructor.
LEMMA KeepsNewCopy ==
    ASSUME Inv, NEW v \in Vecs, NEW w \in Vecs, NEW b \in BlockFor(v, vs.vec[w].cap), NewCopy(v, w, b)
    PROVE  Inv'
<1>1. PICK h, xs, r : h = AllocUninitialized(vs, vs.vec[w].cap, b) /\ xs = vecMeant[w] /\ r = vs.vec[w] OBVIOUS
<1>2. Offered(vs, b) BY BlockForIs
<1>3. vs.vec[v].start = NoBlock BY DEF NewCopy, NoVec
<1>7. Elems(vs, w) = xs BY <1>1, ElemsIs
<1>8. Own(w, r, xs) BY <1>1, OwnIs
<1>9. r.cap \in Nat /\ xs \in Seq(Elements) /\ Len(xs) = r.siz /\ Len(xs) <= r.cap BY <1>8 DEF Own
<1>4. IF h.ptr = NoBlock THEN Finish("copy", h.s, Means(v, <<>>))
      ELSE Finish("copy", Set(ConstructAll(h.s, h.ptr, xs), v, h.ptr, r.cap, r.siz), Means(v, xs))
  BY <1>1, <1>7 DEF NewCopy
<1>5. CASE h.ptr = NoBlock
  <2>1. h.s = vs BY <1>1, <1>2, <1>5, <1>9, AllocNone
  <2>2. Means(v, <<>>) = vecMeant BY <1>3, NoVecIs, MeansIs, EmptyIs
  <2> QED BY <1>4, <1>5, <2>1, <2>2, StepNone
<1>6. CASE h.ptr # NoBlock
  <2>2. PICK u : u = ConstructAll(h.s, h.ptr, xs) OBVIOUS
  <2>3. h = AllocUninitialized(vs, r.cap, b) BY <1>1
  <2>7. Filled(v, b, r.cap, h, xs, u) BY <1>2, <1>3, <1>6, <1>9, <2>2, <2>3, NewIs
  <2>4. Leaves(v, u, {b}, h.ptr, r.cap, Len(xs), xs) /\ u.event = {} BY <2>7 DEF Filled
  <2>5. Finish("copy", Set(u, v, h.ptr, r.cap, Len(xs)), Means(v, xs)) BY <1>4, <1>6, <1>9, <2>2
  <2>6. u.event \subseteq Allowed(vs.elem, "copy") BY <2>4
  <2> QED BY <1>9, <2>4, <2>5, <2>6, StepGood
<1> QED BY <1>5, <1>6

\* The buffer of w becomes that of v, which had none.
LEMMA MovedHolds ==
    ASSUME Inv, NEW v \in Vecs, NEW w \in Vecs, v # w, vs.vec[v].start = NoBlock,
           NEW t \in State, t.mem = vs.mem, t.elem = vs.elem, t.vec[v] = vs.vec[w], t.vec[w] = NoVec,
           \A u \in Vecs \ {v, w} : t.vec[u] = vs.vec[u], NEW m, m[v] = vecMeant[w], m[w] = <<>>,
           \A u \in Vecs \ {v, w} : m[u] = vecMeant[u]
    PROVE  Holds(t, m)
<1>1. Holds(vs, vecMeant) /\ vs \in State BY DEF Inv
<1>2. NoVec.start = NoBlock BY DEF NoVec
<1>3. vs.vec[v] = NoVec /\ vecMeant[v] = <<>> BY NoVecIs
<1>4. \A r, xs : Carries(vs, r, xs) => Carries(t, r, xs) BY DEF Carries, Cells
<1>5. ASSUME NEW u \in Vecs PROVE Carries(t, t.vec[u], m[u])
  <2>1. CASE u = v BY <1>1, <1>4, <2>1 DEF Holds
  <2>2. CASE u = w
    <3>1. Carries(vs, vs.vec[v], vecMeant[v]) BY <1>1 DEF Holds
    <3>2. Carries(vs, NoVec, <<>>) BY <1>3, <3>1
    <3>3. Carries(t, NoVec, <<>>) BY <1>4, <3>2
    <3>4. t.vec[u] = NoVec /\ m[u] = <<>> BY <2>2
    <3> QED BY <3>3, <3>4
  <2>3. CASE u \notin {v, w} BY <1>1, <1>4, <2>3 DEF Holds
  <2> QED BY <2>1, <2>2, <2>3
<1>6. \A u, x \in Vecs : u # x /\ t.vec[u].start # NoBlock => t.vec[u].start # t.vec[x].start
  <2> SUFFICES ASSUME NEW u \in Vecs, NEW x \in Vecs, u # x, t.vec[u].start # NoBlock,
                      t.vec[u].start = t.vec[x].start
               PROVE  FALSE
    OBVIOUS
  <2> DEFINE from(y) == IF y = v THEN w ELSE y
  <2>1. u # w /\ x # w BY <1>2
  <2>2. from(u) \in Vecs /\ from(x) \in Vecs /\ from(u) # from(x) BY <2>1
  <2>3. t.vec[u] = vs.vec[from(u)] /\ t.vec[x] = vs.vec[from(x)] BY <2>1
  <2> HIDE DEF from
  <2> QED BY <1>1, <2>2, <2>3 DEF Holds
<1>7. ASSUME NEW c \in Blocks, ~IsFree(t, c) PROVE \E u \in Vecs : t.vec[u].start = c
  <2>1. ~IsFree(vs, c) BY <1>7 DEF IsFree
  <2>2. PICK u \in Vecs : vs.vec[u].start = c BY <1>1, <2>1 DEF Holds
  <2>3. u # v BY <2>2, AllocAssumption
  <2>4. CASE u = w BY <2>2, <2>4
  <2>5. CASE u # w BY <2>2, <2>3, <2>5
  <2> QED BY <2>4, <2>5
<1> QED BY <1>5, <1>6, <1>7 DEF Holds

\* v comes to stand for what w did, and w for nothing.
MeansMoved(v, w, m) ==
    /\ m \in Meaning /\ m[v] = vecMeant[w] /\ m[w] = <<>>
    /\ \A u \in Vecs \ {v, w} : m[u] = vecMeant[u]

\* Which keeps its type.
LEMMA MovedMeaning ==
    ASSUME Inv, NEW v \in Vecs, NEW w \in Vecs, v # w, NEW m, m = [vecMeant EXCEPT ![v] = vecMeant[w], ![w] = <<>>]
    PROVE  MeansMoved(v, w, m)
<1>1. vecMeant \in [Vecs -> Seq(Elements)] BY DEF Inv, Meaning
<1>2. PICK z \in Seq(Elements) : z = <<>> BY EmptyIs
<1>3. PICK y \in Seq(Elements) : y = vecMeant[w] BY <1>1
<1>4. m = [vecMeant EXCEPT ![v] = y, ![w] = z] BY <1>2, <1>3
<1>5. m \in [Vecs -> Seq(Elements)] /\ m[v] = y /\ m[w] = z /\ \A u \in Vecs \ {v, w} : m[u] = vecMeant[u]
  BY ONLY <1>1, <1>4, y \in Seq(Elements), z \in Seq(Elements), v \in Vecs, w \in Vecs, v # w
<1> QED BY <1>2, <1>3, <1>5 DEF Meaning, MeansMoved

\* The record of a vector.
LEMMA VecRecord ==
    ASSUME NEW r \in Vec
    PROVE  r = [start |-> r.start, cap |-> r.cap, siz |-> r.siz]
BY DEF Vec

\* Two vectors are set.
SetsBoth(s, v, w, r, q, t) ==
    /\ t \in State /\ t.mem = s.mem /\ t.elem = s.elem /\ t.event = s.event
    /\ t.vec[v] = r /\ t.vec[w] = q /\ \A u \in Vecs \ {v, w} : t.vec[u] = s.vec[u]

\* Set, twice, does what SetsBoth says.
LEMMA SetTwice ==
    ASSUME NEW s \in State, NEW v \in Vecs, NEW w \in Vecs, v # w, NEW r \in Vec, NEW q \in Vec,
           NEW t, t = Set(Set(s, v, r.start, r.cap, r.siz), w, q.start, q.cap, q.siz)
    PROVE  SetsBoth(s, v, w, r, q, t)
<1>1. /\ r.start \in Blocks \cup {NoBlock} /\ r.cap \in Nat /\ r.siz \in Nat
      /\ q.start \in Blocks \cup {NoBlock} /\ q.cap \in Nat /\ q.siz \in Nat
  BY DEF Vec
<1>2. PICK a : a = Set(s, v, r.start, r.cap, r.siz) OBVIOUS
<1>3. Sets(s, v, r.start, r.cap, r.siz, a) BY <1>1, <1>2, SetIs
<1>4. a \in State BY <1>3 DEF Sets
<1>5. t = Set(a, w, q.start, q.cap, q.siz) BY <1>2
<1>6. Sets(a, w, q.start, q.cap, q.siz, t) BY <1>1, <1>4, <1>5, SetIs
<1>7. a.vec[v] = r /\ t.vec[w] = q BY <1>3, <1>6, VecRecord DEF Sets
<1> QED BY <1>3, <1>6, <1>7 DEF Sets, SetsBoth

\* The move constructor.
LEMMA KeepsNewMove ==
    ASSUME Inv, NEW v \in Vecs, NEW w \in Vecs, NewMove(v, w)
    PROVE  Inv'
<1>1. PICK t : t = [vs EXCEPT !.vec[v] = vs.vec[w], !.vec[w] = NoVec] OBVIOUS
<1>2. PICK m : m = [vecMeant EXCEPT ![v] = vecMeant[w], ![w] = <<>>] OBVIOUS
<1>3. v # w /\ vs.vec[v] = NoVec /\ Finish("move", t, m) BY <1>1, <1>2 DEF NewMove
<1>4. vs \in State /\ vs.event = {} BY DEF Inv
<1>5. vs.vec[w] \in Vec /\ NoVec \in Vec BY <1>4, VecIs DEF NoVec, Vec
<1>6. PICK r, q : r = vs.vec[w] /\ q = NoVec OBVIOUS
<1>7. r = [start |-> r.start, cap |-> r.cap, siz |-> r.siz] /\ q = [start |-> q.start, cap |-> q.cap, siz |-> q.siz]
      /\ r \in Vec /\ q \in Vec
  BY <1>5, <1>6, VecRecord
<1>8. t = Set(Set(vs, v, r.start, r.cap, r.siz), w, q.start, q.cap, q.siz)
  <2>1. Set(Set(vs, v, r.start, r.cap, r.siz), w, q.start, q.cap, q.siz) = [[vs EXCEPT !.vec[v] = r] EXCEPT !.vec[w] = q]
    BY <1>7 DEF Set
  <2>2. t = [[vs EXCEPT !.vec[v] = r] EXCEPT !.vec[w] = q] BY <1>1, <1>6
  <2> QED BY <2>1, <2>2
<1>9. /\ t \in State /\ t.mem = vs.mem /\ t.elem = vs.elem /\ t.event = vs.event
      /\ t.vec[v] = r /\ t.vec[w] = q /\ \A u \in Vecs \ {v, w} : t.vec[u] = vs.vec[u]
  <2>1. SetsBoth(vs, v, w, r, q, t) BY <1>3, <1>4, <1>7, <1>8, SetTwice
  <2> QED BY <2>1 DEF SetsBoth
<1>10. m \in Meaning /\ m[v] = vecMeant[w] /\ m[w] = <<>> /\ \A u \in Vecs \ {v, w} : m[u] = vecMeant[u]
  <2>1. MeansMoved(v, w, m) BY <1>2, <1>3, MovedMeaning
  <2> QED BY <2>1 DEF MeansMoved
<1>11. vs.vec[v].start = NoBlock BY <1>3 DEF NoVec
<1>12. Holds(t, m) BY <1>3, <1>6, <1>9, <1>10, <1>11, MovedHolds
<1>13. t.event \subseteq Allowed(vs.elem, "move") BY <1>4, <1>9
<1> QED BY <1>3, <1>9, <1>10, <1>12, <1>13, FinishGood

\* No vector dangles when only the buffer of v was touched, and v has none or one in use.
LEMMA NotDangling ==
    ASSUME Inv, NEW v \in Vecs, NEW t \in State, NEW B, \A c \in Blocks \ B : t.mem[c] = vs.mem[c],
           \A c \in B : c = vs.vec[v].start \/ IsFree(vs, c),
           \A u \in Vecs \ {v} : t.vec[u] = vs.vec[u],
           t.vec[v].start = NoBlock \/ ~IsFree(t, t.vec[v].start)
    PROVE  ~Dangles(t)
<1>1. vs \in State /\ Holds(vs, vecMeant) BY DEF Inv
<1>2. ASSUME NEW u \in Vecs, Dangling(t, u) PROVE FALSE
  <2>1. u # v BY <1>2 DEF Dangling
  <2>2. PICK c : c = vs.vec[u].start OBVIOUS
  <2>3. c \in Blocks /\ c # NoBlock /\ IsFree(t, c) BY <1>1, <1>2, <2>1, <2>2, VecIs DEF Dangling
  <2>4. ~IsFree(vs, c) BY <1>1, <2>2, <2>3, HoldsClean DEF Dangles, Dangling
  <2>5. c # vs.vec[v].start BY <1>1, <2>1, <2>2, <2>3 DEF Holds
  <2>6. c \notin B BY <2>4, <2>5
  <2> QED BY <2>3, <2>4, <2>6 DEF IsFree
<1> QED BY <1>2 DEF Dangles

\* The buffer of v is in use, and no vector can free it.
LEMMA Lost ==
    ASSUME Inv, NEW v \in Vecs, NEW t \in State, vs.vec[v].start # NoBlock, ~IsFree(t, vs.vec[v].start),
           \A u \in Vecs : t.vec[u].start = vs.vec[v].start => t.vec[u].cap = 0
    PROVE  Leaks(t)
<1>1. PICK p : p = vs.vec[v].start OBVIOUS
<1>2. p \in Blocks BY <1>1, VecIs DEF Inv
<1>3. p \in InUse(t) BY <1>1, <1>2 DEF InUse
<1>4. Len(t.mem[p]) # 0 BY <1>1, <1>2, BlockCells
<1>5. p \notin Owned(t) BY <1>1, <1>4 DEF Owned
<1> QED BY <1>3, <1>5 DEF Leaks

\* A block in use is not free.
LEMMA InUseIs ==
    ASSUME Inv, NEW v \in Vecs, vs.vec[v].start # NoBlock
    PROVE  /\ vs.vec[v].start \in Blocks /\ ~IsFree(vs, vs.vec[v].start)
           /\ \A u \in Vecs \ {v} : vs.vec[u].start # vs.vec[v].start
<1>1. Own(v, vs.vec[v], vecMeant[v]) BY OwnIs
<1>2. vs.vec[v].start \in Blocks /\ ~IsFree(vs, vs.vec[v].start) BY <1>1 DEF Own
<1>3. \A u \in Vecs \ {v} : vs.vec[u].start # vs.vec[v].start BY DEF Inv, Holds
<1> QED BY <1>2, <1>3

\* Move assignment: the buffer v had is lost.
LEMMA KeepsMoveAssign ==
    ASSUME Inv, NEW v \in Vecs, NEW w \in Vecs, MoveAssign(v, w)
    PROVE  Inv'
<1>1. vs \in State /\ vs.event = {} /\ vecMeant \in Meaning BY DEF Inv
<1>2. vs.elem \in {"trivial", "class"} BY <1>1, StateParts DEF Elem
<1>3. "leak" \in Allowed(vs.elem, "moveAssign") BY <1>2, KnownIs
<1>4. PICK p : p = vs.vec[v].start OBVIOUS
<1>5. p \in Blocks \cup {NoBlock} BY <1>1, <1>4, VecIs
<1>6. CASE v = w
  <2>1. PICK z, t : z = <<>> /\ t = Set(vs, v, p, 0, 0) OBVIOUS
  <2>2. Finish("moveAssign", t, Means(v, z)) BY <1>4, <1>6, <2>1 DEF MoveAssign
  <2>3. CASE p = NoBlock
    <3>1. Leaves(v, vs, {}, NoBlock, 0, 0, z) /\ z \in Seq(Elements) BY <1>4, <2>1, <2>3, NewNone
    <3>2. vs.event \subseteq Allowed(vs.elem, "moveAssign") BY <1>1
    <3>3. Finish("moveAssign", Set(vs, v, NoBlock, 0, 0), Means(v, z)) BY <2>1, <2>2, <2>3
    <3> QED BY <3>1, <3>2, <3>3, StepGood
  <2>4. CASE p # NoBlock
    <3>1. Sets(vs, v, p, 0, 0, t) BY <1>1, <1>5, <2>1, SetIs
    <3>2. /\ t \in State /\ t.mem = vs.mem /\ t.elem = vs.elem /\ t.event = vs.event
          /\ t.vec[v].start = p /\ t.vec[v].cap = 0 /\ \A u \in Vecs \ {v} : t.vec[u] = vs.vec[u]
      BY <3>1 DEF Sets
    <3>3. ~IsFree(vs, p) /\ \A u \in Vecs \ {v} : vs.vec[u].start # p BY <1>4, <2>4, InUseIs
    <3>4. ~IsFree(t, p) BY <3>2, <3>3 DEF IsFree
    <3>5. Leaks(t) BY <1>4, <2>4, <3>2, <3>3, <3>4, Lost
    <3>6. ~Dangles(t)
      <4>1. PICK B : B = {} OBVIOUS
      <4>2. \A c \in Blocks \ B : t.mem[c] = vs.mem[c] BY <3>2
      <4>3. \A c \in B : c = vs.vec[v].start \/ IsFree(vs, c) BY <4>1
      <4>4. t.vec[v].start = NoBlock \/ ~IsFree(t, t.vec[v].start) BY <3>2, <3>4
      <4> QED BY <3>2, <4>2, <4>3, <4>4, NotDangling
    <3>7. Means(v, z) \in Meaning BY <2>1, EmptyIs, MeansIs
    <3>8. t.event \subseteq Allowed(vs.elem, "moveAssign") BY <1>1, <3>2
    <3> QED BY <1>3, <2>2, <3>2, <3>5, <3>6, <3>7, <3>8, StepLeaks
  <2> QED BY <2>3, <2>4
<1>7. CASE v # w
  <2>1. PICK r, q : r = vs.vec[w] /\ q = [start |-> p, cap |-> 0, siz |-> 0] OBVIOUS
  <2>2. r \in Vec /\ q \in Vec /\ q.start = p /\ q.cap = 0 /\ q.siz = 0 BY <1>1, <1>5, <2>1, VecIs DEF Vec
  <2>3. PICK t : t = Set(Set(vs, v, r.start, r.cap, r.siz), w, q.start, q.cap, q.siz) OBVIOUS
  <2>4. PICK m : m = [vecMeant EXCEPT ![v] = vecMeant[w], ![w] = <<>>] OBVIOUS
  <2>5. Finish("moveAssign", t, m) BY <1>4, <1>7, <2>1, <2>2, <2>3, <2>4 DEF MoveAssign
  <2>6. /\ t \in State /\ t.mem = vs.mem /\ t.elem = vs.elem /\ t.event = vs.event
        /\ t.vec[v] = r /\ t.vec[w] = q /\ \A u \in Vecs \ {v, w} : t.vec[u] = vs.vec[u]
    <3>1. SetsBoth(vs, v, w, r, q, t) BY <1>1, <1>7, <2>2, <2>3, SetTwice
    <3> QED BY <3>1 DEF SetsBoth
  <2>7. m \in Meaning /\ m[v] = vecMeant[w] /\ m[w] = <<>> /\ \A u \in Vecs \ {v, w} : m[u] = vecMeant[u]
    <3>1. MeansMoved(v, w, m) BY <1>7, <2>4, MovedMeaning
    <3> QED BY <3>1 DEF MeansMoved
  <2>8. t.event \subseteq Allowed(vs.elem, "moveAssign") BY <1>1, <2>6
  <2>9. CASE p = NoBlock
    <3>1. q = NoVec BY <2>1, <2>9 DEF NoVec
    <3>2. Holds(t, m) BY <1>4, <1>7, <2>1, <2>6, <2>7, <2>9, <3>1, MovedHolds
    <3> QED BY <2>5, <2>6, <2>7, <2>8, <3>2, FinishGood
  <2>10. CASE p # NoBlock
    <3>1. ~IsFree(vs, p) /\ \A u \in Vecs \ {v} : vs.vec[u].start # p BY <1>4, <2>10, InUseIs
    <3>2. ~IsFree(t, p) BY <2>6, <3>1 DEF IsFree
    <3>3. \A u \in Vecs : t.vec[u].start = p => t.vec[u].cap = 0
      <4> SUFFICES ASSUME NEW u \in Vecs, t.vec[u].start = p PROVE t.vec[u].cap = 0 OBVIOUS
      <4>1. CASE u = v BY <1>7, <2>1, <2>6, <3>1, <4>1
      <4>2. CASE u = w BY <2>2, <2>6, <4>2
      <4>3. CASE u \notin {v, w} BY <2>6, <3>1, <4>3
      <4> QED BY <4>1, <4>2, <4>3
    <3>4. Leaks(t) BY <1>4, <2>6, <2>10, <3>2, <3>3, Lost
    <3>5. ~Dangles(t)
      <4>1. ASSUME NEW u \in Vecs, Dangling(t, u) PROVE FALSE
        <5>1. \A c : IsFree(t, c) <=> IsFree(vs, c) BY <2>6 DEF IsFree
        <5>2. t.vec[u].start # NoBlock /\ IsFree(vs, t.vec[u].start) BY <4>1, <5>1 DEF Dangling
        <5>3. CASE u = w BY <2>2, <2>6, <3>1, <5>2, <5>3
        <5>4. CASE u # w
          <6>1. PICK x \in Vecs : t.vec[u] = vs.vec[x] BY <2>1, <2>6, <5>4
          <6> QED BY <5>2, <6>1, InUseIs
        <5> QED BY <5>3, <5>4
      <4> QED BY <4>1 DEF Dangles
    <3> QED BY <1>3, <2>5, <2>6, <2>7, <2>8, <3>4, <3>5, StepLeaks
  <2> QED BY <2>9, <2>10
<1> QED BY <1>6, <1>7

\* An operation that went wrong in one of the ways Known lists keeps the invariant.
LEMMA StepCut ==
    ASSUME Inv, NEW v \in Vecs, NEW u, NEW B, NEW start, NEW cap, NEW siz, NEW xs,
           Leaves(v, u, B, start, cap, siz, xs), NEW op, u.event \subseteq Allowed(vs.elem, op), u.event # {},
           NEW t, t = Set(u, v, start, cap, siz), NEW meant \in Meaning, Finish(op, t, meant)
    PROVE  Inv'
<1>1. Sets(u, v, start, cap, siz, t) BY LeavesSets
<1>2. PICK m : m = [w \in Vecs |-> IF w = v THEN xs ELSE vecMeant[w]] OBVIOUS
<1>3. m[v] = xs /\ \A w \in Vecs \ {v} : m[w] = vecMeant[w] BY <1>2
<1>4. t \in State /\ t.elem = vs.elem /\ Holds(t, m) BY <1>1, <1>3, LeavesHolds
<1>5. ~Leaks(t) /\ ~Dangles(t) BY <1>4, HoldsClean
<1>6. t.event = u.event BY <1>1 DEF Sets
<1> QED BY <1>4, <1>5, <1>6, FinishKeeps

\* shrink_to_fit.
LEMMA KeepsShrink ==
    ASSUME Inv, NEW v \in Vecs, NEW b \in Offer, ShrinkToFit(v, b)
    PROVE  Inv'
<1>1. PICK r, xs : r = vs.vec[v] /\ xs = vecMeant[v] OBVIOUS
<1>2. Own(v, r, xs) BY <1>1, OwnIs
<1>3. vs \in State /\ vs.event = {} /\ vecMeant \in Meaning BY DEF Inv
<1>4. PICK h : h = ShrinkAlloc(vs, r.start, r.cap, r.siz, r.siz, b) OBVIOUS
<1>5. Finish("shrink", IF h.ptr = NoBlock THEN h.s ELSE Set(h.s, v, h.ptr, h.count, r.siz), vecMeant)
  BY <1>1, <1>4 DEF ShrinkToFit
<1>6. Offered(vs, b) BY OfferIs
<1>7. /\ r.start \in Blocks \cup {NoBlock} /\ r.cap \in Nat /\ r.siz \in Nat /\ r.siz <= r.cap
      /\ xs \in Seq(Elements) /\ Len(xs) = r.siz
  BY <1>2 DEF Own
<1>8. /\ r.start = NoBlock => r.cap = 0
      /\ r.start # NoBlock =>
            /\ r.cap = Len(vs.mem[r.start]) /\ r.cap > 0 /\ ~IsFree(vs, r.start)
            /\ \A i \in 1..r.siz : vs.mem[r.start][i] = xs[i] /\ xs[i] # Raw
  BY <1>2 DEF Own
<1>9. r.start # NoBlock => ~SomeRaw(vs.mem[r.start], 1, r.siz) BY <1>8 DEF SomeRaw
<1>10. Shrunk(vs, r.start, r.siz, b, h) BY <1>3, <1>4, <1>6, <1>7, <1>8, <1>9, ShrinkAllocIs
<1>11. vs.elem \in {"trivial", "class"} BY <1>3, StateParts DEF Elem
<1>12. CASE h.ptr = NoBlock /\ Same(vs, h.s, {}) /\ h.s.mem = vs.mem /\ h.s.event = {}
  <2>1. h.s = vs BY <1>3, <1>12, SameNone
  <2> QED BY <1>5, <1>12, <2>1, StepNone
<1>13. CASE /\ h.ptr = NoBlock /\ vs.elem = "class" /\ r.start \in Blocks /\ Same(vs, h.s, {r.start})
            /\ IsFree(h.s, r.start) /\ h.s.event \subseteq {"null"}
  <2>1. PICK t : t = h.s OBVIOUS
  <2>2. t \in State /\ t.vec = vs.vec /\ t.elem = vs.elem /\ \A c \in Blocks \ {r.start} : t.mem[c] = vs.mem[c]
    BY <1>13, <2>1 DEF Same
  <2>3. \A c \in Blocks : IsFree(t, c) \/ t.mem[c] = vs.mem[c] BY <1>13, <2>1, <2>2
  <2>4. Dangles(t) BY <1>1, <1>13, <2>1, <2>2, AllocAssumption DEF Dangles, Dangling
  <2>5. t.event \subseteq Allowed(vs.elem, "shrink") /\ "dangling" \in Allowed(vs.elem, "shrink")
    BY <1>13, <2>1, KnownIs
  <2>6. Finish("shrink", t, vecMeant) BY <1>5, <1>13, <2>1
  <2> QED BY <1>3, <2>2, <2>3, <2>4, <2>5, <2>6, StepBad
<1>14. CASE /\ h.ptr = b /\ b \in Blocks /\ r.start \in Blocks /\ h.count = r.siz /\ r.siz > 0
            /\ Same(vs, h.s, {r.start, b}) /\ IsFree(h.s, r.start) /\ Len(h.s.mem[b]) = r.siz
            /\ h.s.event = {} => h.s.mem[b] = MovedTo(vs.mem[r.start], r.siz, r.siz)
            /\ vs.elem = "trivial" => h.s.event \subseteq {"cut"}
            /\ vs.elem = "class" => h.s.event = {}
  <2>1. PICK u, cells, old : u = h.s /\ cells = u.mem[b] /\ old = vs.mem[r.start] OBVIOUS
  <2>2. b # NoBlock /\ r.start # NoBlock /\ IsFree(vs, b) BY <1>6, <1>14, AllocAssumption DEF Offered
  <2>3. u \in State BY <1>14, <2>1 DEF Same
  <2>4. Cells(u, b) = cells /\ cells \in Seq(Cell) /\ Len(cells) = r.siz BY <1>14, <2>1, <2>2, <2>3, BlockCells
  <2>5. Finish("shrink", Set(u, v, b, r.siz, r.siz), vecMeant) BY <1>5, <1>14, <2>1, <2>2
  <2>6. ASSUME NEW ys, Full(vs.elem, cells, r.siz, ys) PROVE Leaves(v, u, {r.start, b}, b, r.siz, r.siz, ys)
    BY <1>1, <1>7, <1>14, <2>1, <2>2, <2>4, <2>6, AllocAssumption DEF Leaves
  <2>7. CASE u.event = {}
    <3>1. cells = MovedTo(old, r.siz, r.siz) BY <1>14, <2>1, <2>7
    <3>2. old \in Seq(Cell) /\ r.siz <= Len(old) BY <1>3, <1>7, <1>8, <1>14, <2>1, <2>2, BlockCells
    <3>3. \A i \in 1..r.siz : cells[i] = IF i <= r.siz THEN old[i] ELSE Raw
      <4>1. PICK n : n = r.siz OBVIOUS
      <4>2. n \in Nat /\ n <= n /\ old \in Seq(Cell) /\ n <= Len(old) BY <1>7, <3>2, <4>1
      <4>3. n <= n => \A i \in 1..n : MovedTo(old, n, n)[i] = IF i <= n THEN old[i] ELSE Raw
        BY ONLY <4>2, MovedToIs
      <4> QED BY <3>1, <4>1, <4>2, <4>3
    <3>4. \A i \in 1..r.siz : cells[i] = xs[i] BY <1>7, <1>8, <2>1, <2>2, <3>3
    <3>5. Full(vs.elem, cells, r.siz, xs) BY <1>7, <2>4, <3>4 DEF Full
    <3>6. Leaves(v, u, {r.start, b}, b, r.siz, r.siz, xs) BY <2>6, <3>5
    <3>7. Means(v, xs) = vecMeant BY <1>1, <1>7, MeansIs
    <3>8. u.event \subseteq Allowed(vs.elem, "shrink") BY <2>7
    <3> QED BY <1>7, <2>5, <3>6, <3>7, <3>8, StepGood
  <2>8. CASE u.event # {}
    <3>1. vs.elem = "trivial" /\ u.event \subseteq Allowed(vs.elem, "shrink") BY <1>11, <1>14, <2>1, <2>8, KnownIs
    <3>2. Full(vs.elem, cells, r.siz, cells) BY <1>7, <2>4, <3>1 DEF Full
    <3>3. Leaves(v, u, {r.start, b}, b, r.siz, r.siz, cells) BY <2>6, <3>2
    <3> QED BY <1>3, <2>5, <2>8, <3>1, <3>3, StepCut
  <2> QED BY <2>7, <2>8
<1> QED BY <1>10, <1>12, <1>13, <1>14 DEF Shrunk

\* A grown capacity is larger.
LEMMA GrowthIs ==
    ASSUME NEW cap \in Nat
    PROVE  Growth(cap) \in Nat /\ Growth(cap) > cap
<1>1. FirstCap \in Nat /\ FirstCap >= 2 BY VectorAssumption
<1>2. CASE cap < FirstCap BY <1>1, <1>2 DEF Growth
<1>3. CASE ~(cap < FirstCap)
  <2>1. PICK q \in Int : q = cap \div 2 OBVIOUS
  <2>2. q >= 1 BY <1>1, <1>3, <2>1
  <2>3. Growth(cap) = cap + q BY <1>3, <2>1 DEF Growth
  <2> QED BY <2>2, <2>3
<1> QED BY <1>2, <1>3

\* What goes wrong does not touch the vectors.
LEMMA RaisedHolds ==
    ASSUME NEW s, NEW m, Holds(s, m), NEW t, t.mem = s.mem, t.vec = s.vec, t.elem = s.elem
    PROVE  Holds(t, m)
<1>1. \A p : Cells(t, p) = Cells(s, p) BY DEF Cells
<1>2. \A c : IsFree(t, c) <=> IsFree(s, c) BY DEF IsFree
<1> QED BY <1>1, <1>2 DEF Holds, Carries

\* v is left in t with a buffer of cap cells, of which the first are xs, and nothing went wrong.
Settled(v, t, start, cap, siz, xs) ==
    \E u, B : /\ Leaves(v, u, B, start, cap, siz, xs) /\ u.event = {} /\ Sets(u, v, start, cap, siz, t)
              /\ start \in Blocks

\* Of these, the part about the buffer.
HasBuffer(v, t, start, cap, siz, xs) ==
    /\ t \in State /\ t.elem = vs.elem /\ start \in Blocks
    /\ t.vec[v] = [start |-> start, cap |-> cap, siz |-> siz] /\ cap \in Nat /\ siz \in Nat
    /\ cap = Len(t.mem[start]) /\ t.mem[start] \in Seq(Cell) /\ Full(vs.elem, t.mem[start], siz, xs)

\* A settled vector has such a buffer.
LEMMA SettledIs ==
    ASSUME Inv, NEW v \in Vecs, NEW t, NEW start, NEW cap, NEW siz, NEW xs, Settled(v, t, start, cap, siz, xs)
    PROVE  t \in State /\ t.event = {} /\ HasBuffer(v, t, start, cap, siz, xs)
<1>1. PICK u, B : /\ Leaves(v, u, B, start, cap, siz, xs) /\ u.event = {} /\ Sets(u, v, start, cap, siz, t)
                  /\ start \in Blocks
  BY DEF Settled
<1>2. /\ t \in State /\ t.mem = u.mem /\ t.elem = u.elem /\ t.event = {}
      /\ t.vec[v] = [start |-> start, cap |-> cap, siz |-> siz]
  BY <1>1 DEF Sets
<1>3. cap \in Nat /\ siz \in Nat /\ cap = Len(Cells(u, start)) /\ Full(vs.elem, Cells(u, start), siz, xs) /\ u.elem = vs.elem
  BY <1>1 DEF Leaves, Same
<1>4. Cells(u, start) = t.mem[start] BY <1>1, <1>2, AllocAssumption DEF Cells
<1>5. t.mem[start] \in Seq(Cell) BY <1>1, <1>2, BlockCells
<1> QED BY <1>1, <1>2, <1>3, <1>4, <1>5 DEF HasBuffer

\* An operation that leaves v settled keeps the invariant.
LEMMA StepSettled ==
    ASSUME Inv, NEW v \in Vecs, NEW t, NEW start, NEW cap, NEW siz, NEW xs \in Seq(Elements),
           Settled(v, t, start, cap, siz, xs), NEW t2, Same(t, t2, {}), t2.mem = t.mem,
           NEW op, t2.event \subseteq Allowed(vs.elem, op), Finish(op, t2, Means(v, xs))
    PROVE  Inv'
<1>1. PICK u, B : Leaves(v, u, B, start, cap, siz, xs) /\ Sets(u, v, start, cap, siz, t) BY DEF Settled
<1>3. PICK m : m = Means(v, xs) OBVIOUS
<1>4. m \in Meaning /\ m[v] = xs /\ \A w \in Vecs \ {v} : m[w] = vecMeant[w] BY <1>3, MeansIs
<1>5. t \in State /\ t.elem = vs.elem /\ Holds(t, m) BY <1>1, <1>4, LeavesHolds
<1>6. t2 \in State /\ t2.vec = t.vec /\ t2.elem = t.elem BY DEF Same
<1>7. Holds(t2, m) BY <1>5, <1>6, RaisedHolds
<1> QED BY <1>3, <1>4, <1>5, <1>6, <1>7, FinishGood

\* The content of the buffer changes, and how much of it is in use.
LEMMA PutMem ==
    ASSUME NEW s \in State, NEW t \in State, t.mem = s.mem, NEW b, NEW x
    PROVE  Stored(s, b, x).mem = Stored(t, b, x).mem
<1>1. PICK f : f = [s.mem EXCEPT ![b] = x] OBVIOUS
<1>2. Stored(s, b, x) = [mem |-> f, vec |-> s.vec, elem |-> s.elem, event |-> s.event]
  BY <1>1, StateExcept DEF Stored
<1>3. Stored(t, b, x) = [mem |-> f, vec |-> t.vec, elem |-> t.elem, event |-> t.event]
  BY <1>1, StateExcept DEF Stored
<1> QED BY <1>2, <1>3

\* A vector settled with other cells is settled still.
LEMMA Rewrites ==
    ASSUME Inv, NEW v \in Vecs, NEW t, NEW start, NEW cap, NEW siz, NEW xs, Settled(v, t, start, cap, siz, xs),
           NEW cells \in Seq(Cell), Len(cells) = cap, NEW n \in Nat, NEW ys, Full(vs.elem, cells, n, ys),
           NEW c, c = Stored(t, start, cells),
           NEW d, (d = c /\ n = siz) \/ d = Set(c, v, start, cap, n)
    PROVE  Settled(v, d, start, cap, n, ys)
<1>1. PICK u, B : /\ Leaves(v, u, B, start, cap, siz, xs) /\ u.event = {} /\ Sets(u, v, start, cap, siz, t)
                  /\ start \in Blocks
  BY DEF Settled
<1>2. t \in State /\ u \in State /\ t.mem = u.mem /\ t.elem = u.elem /\ t.event = u.event
  BY <1>1 DEF Sets, Leaves, Same
<1>3. PICK w : w = Stored(u, start, cells) OBVIOUS
<1>4. Stores(u, start, cells, w) BY <1>1, <1>2, <1>3, PutIs
<1>5. Stores(t, start, cells, c) BY <1>1, <1>2, PutIs
<1>6. Same(u, w, {start}) /\ w.mem[start] = cells /\ w.event = {} BY <1>1, <1>4 DEF Stores
<1>7. Same(t, c, {start}) /\ c.event = {} BY <1>1, <1>2, <1>5 DEF Stores
<1>8. c.mem = w.mem BY <1>2, <1>3, PutMem
<1>9. Sets(w, v, start, cap, siz, c) BY <1>1, <1>2, <1>6, <1>7, <1>8 DEF Sets, Same
<1>10. Sets(w, v, start, cap, n, d)
  <2>1. CASE d = c /\ n = siz BY <1>9, <2>1
  <2>2. CASE d = Set(c, v, start, cap, n)
    <3>1. c \in State /\ start \in Blocks \cup {NoBlock} /\ cap \in Nat BY <1>1, <1>7 DEF Same, Leaves
    <3>2. Sets(c, v, start, cap, n, d) BY <2>2, <3>1, SetIs
    <3> QED BY <1>9, <3>2 DEF Sets
  <2> QED BY <2>1, <2>2
<1>11. Leaves(v, w, B \cup {start}, start, cap, n, ys)
  <2>1. Same(vs, w, B \cup {start}) BY <1>1, <1>6, SameTwice DEF Leaves
  <2>2. Cells(w, start) = cells /\ start # NoBlock BY <1>1, <1>6, AllocAssumption DEF Cells
  <2>3. \A e \in Blocks \ {start} : w.mem[e] = u.mem[e] BY <1>6 DEF Same
  <2>4. NoBlock \notin B /\ B \subseteq Blocks /\ vs.vec[v].start \in Blocks \cup {NoBlock} BY <1>1, VecIs DEF Leaves, Inv
  <2>5. \A e \in (B \cup {start}) \cup {vs.vec[v].start} : e = start \/ e = NoBlock \/ IsFree(w, e)
    BY <1>1, <2>3, <2>4 DEF Leaves, IsFree
  <2>6. \A e \in B \cup {start} : e = vs.vec[v].start \/ IsFree(vs, e) BY <1>1, <2>2 DEF Leaves
  <2>7. cap \in Nat /\ cap > 0 BY <1>1, <2>2 DEF Leaves
  <2> QED BY <1>1, <2>1, <2>2, <2>4, <2>5, <2>6, <2>7 DEF Leaves
<1> QED BY <1>1, <1>6, <1>10, <1>11 DEF Settled

\* What grow_alloc leaves of a buffer that is not made smaller.
LEMMA GrownLeaves ==
    ASSUME Inv, NEW v \in Vecs, NEW r, NEW xs, Own(v, r, xs), NEW p, p = r.start, p # NoBlock,
           NEW new \in Nat, r.cap <= new, new > 0, NEW b \in Blocks, Offered(vs, b),
           NEW u, Same(vs, u, {p, b}), IsFree(u, p), u.mem[b] = MovedTo(vs.mem[p], r.cap, new)
    PROVE  Leaves(v, u, {p, b}, b, new, r.siz, xs)
<1>1. /\ r = vs.vec[v] /\ p \in Blocks /\ r.cap \in Nat /\ r.siz \in Nat /\ r.siz <= r.cap
      /\ r.cap = Len(vs.mem[p]) /\ Full(vs.elem, vs.mem[p], r.siz, xs) /\ ~IsFree(vs, p)
  BY DEF Own
<1>2. b # NoBlock /\ IsFree(vs, b) BY AllocAssumption DEF Offered
<1>3. PICK cells, old : cells = u.mem[b] /\ old = vs.mem[p] OBVIOUS
<1>4. vs \in State /\ old \in Seq(Cell) BY <1>1, <1>3, BlockCells DEF Inv
<1>5. Len(cells) = new /\ \A i \in 1..new : cells[i] = IF i <= r.cap THEN old[i] ELSE Raw
  <2>1. cells = MovedTo(old, r.cap, new) /\ r.cap <= Len(old) BY <1>1, <1>3
  <2>2. PICK c, m : c = r.cap /\ m = new OBVIOUS
  <2>3. c \in Nat /\ m \in Nat /\ c <= m /\ c <= Len(old) /\ cells = MovedTo(old, c, m) BY <1>1, <2>1, <2>2
  <2>5. old \in Seq(Cell) /\ c \in Nat /\ m \in Nat /\ c <= Len(old) BY <1>4, <2>3
  <2>6. Len(MovedTo(old, c, m)) = m BY ONLY <2>5, MovedToIs
  <2>7. c <= m => \A i \in 1..m : MovedTo(old, c, m)[i] = IF i <= c THEN old[i] ELSE Raw
    BY ONLY <2>5, MovedToIs
  <2>4. /\ Len(MovedTo(old, c, m)) = m
        /\ c <= m => \A i \in 1..m : MovedTo(old, c, m)[i] = IF i <= c THEN old[i] ELSE Raw
    BY <2>6, <2>7
  <2> QED BY <2>2, <2>3, <2>4
<1>6. Full(vs.elem, cells, r.siz, xs)
  <2>1. r.siz = Len(xs) /\ \A i \in 1..r.siz : old[i] = xs[i] BY <1>1, <1>3 DEF Full
  <2>2. \A i \in 1..r.siz : cells[i] = xs[i] BY <1>1, <1>5, <2>1
  <2>3. ASSUME vs.elem = "class", NEW i \in 1..Len(cells), i > r.siz PROVE cells[i] = Raw
    <3>1. CASE i <= r.cap
      <4>1. old[i] = Raw BY <1>1, <1>3, <2>3, <3>1 DEF Full
      <4> QED BY <1>5, <2>3, <3>1, <4>1
    <3>2. CASE i > r.cap BY <1>1, <1>5, <2>3, <3>2
    <3> QED BY <1>1, <1>5, <2>3, <3>1, <3>2
  <2> QED BY <1>1, <1>5, <2>1, <2>2, <2>3 DEF Full
<1>7. Cells(u, b) = cells BY <1>2, <1>3 DEF Cells
<1> QED BY <1>1, <1>2, <1>5, <1>6, <1>7, AllocAssumption DEF Leaves

\* The buffer of v was freed, and v still points at it.
Gone(v, t) ==
    /\ vs.elem = "class" /\ vs.vec[v].start \in Blocks /\ Same(vs, t, {vs.vec[v].start})
    /\ IsFree(t, vs.vec[v].start) /\ t.event = {"null"}

\* Pairs of a state and a truth value.
LEMMA PairTrue ==
    ASSUME NEW f, NEW s, f = <<s, TRUE>>
    PROVE  f[1] = s /\ f[2] = TRUE
OBVIOUS

LEMMA PairFalse ==
    ASSUME NEW f, NEW s, f = <<s, FALSE>>
    PROVE  f[1] = s /\ f[2] = FALSE
OBVIOUS

\* Or nothing was done.
Kept(v, t) == t = vs /\ (vs.elem # "class" \/ vs.vec[v].start = NoBlock)

\* What ensure_can_fit(siz + 1) leaves.
Roomy(v, siz, xs, f) ==
    \/ ~f[2] /\ (Kept(v, f[1]) \/ Gone(v, f[1]))
    \/ f[2] /\ \E start, cap : Settled(v, f[1], start, cap, siz, xs) /\ siz < cap

\* ensure_can_fit leaves one of the three.
LEMMA EnsureIs ==
    ASSUME Inv, NEW v \in Vecs, NEW r, NEW xs, Own(v, r, xs), NEW b, Offered(vs, b),
           NEW f, f = EnsureCanFit(vs, v, r.siz + 1, b)
    PROVE  Roomy(v, r.siz, xs, f)
<1>1. /\ r = vs.vec[v] /\ r.start \in Blocks \cup {NoBlock} /\ r.cap \in Nat /\ r.siz \in Nat /\ r.siz <= r.cap
      /\ r.cap = Len(Cells(vs, r.start)) /\ Full(vs.elem, Cells(vs, r.start), r.siz, xs)
      /\ xs \in Seq(Elements) /\ Len(xs) = r.siz /\ r \in Vec /\ xs = vecMeant[v]
  BY DEF Own
<1>2. /\ r.start = NoBlock => r.cap = 0
      /\ r.start # NoBlock =>
            /\ r.start \in Blocks /\ r.cap = Len(vs.mem[r.start]) /\ r.cap > 0 /\ ~IsFree(vs, r.start)
            /\ Cells(vs, r.start) = vs.mem[r.start]
            /\ \A i \in 1..r.siz : vs.mem[r.start][i] # Raw
  BY DEF Own
<1>3. vs \in State /\ vs.event = {} BY DEF Inv
<1>4. CASE r.siz + 1 <= r.cap
  <2>1. f = <<vs, TRUE>> BY <1>1, <1>4 DEF EnsureCanFit
  <2>2. f[1] = vs /\ f[2] = TRUE BY ONLY <2>1, PairTrue
  <2>3. r.start # NoBlock BY <1>1, <1>2, <1>4
  <2>4. Same(vs, vs, {}) BY <1>3 DEF Same
  <2>5. Leaves(v, vs, {}, r.start, r.cap, r.siz, xs) BY <1>1, <1>2, <2>3, <2>4 DEF Leaves
  <2>6. r = [start |-> r.start, cap |-> r.cap, siz |-> r.siz] BY <1>1, VecRecord
  <2>7. Sets(vs, v, r.start, r.cap, r.siz, vs) BY <1>1, <1>3, <2>6 DEF Sets
  <2>8. Settled(v, vs, r.start, r.cap, r.siz, xs) BY <1>2, <1>3, <2>3, <2>5, <2>7 DEF Settled
  <2>9. r.siz < r.cap BY <1>1, <1>4
  <2> QED BY <2>2, <2>8, <2>9 DEF Roomy
<1>5. CASE ~(r.siz + 1 <= r.cap)
  <2>1. r.siz = r.cap BY <1>1, <1>5
  <2>2. PICK new : new = Growth(r.cap) OBVIOUS
  <2>3. new \in Nat /\ new > r.cap BY <1>1, <2>2, GrowthIs
  <2>4. PICK h : h = ReallocBuffer(vs, v, r.cap, new, b) OBVIOUS
  <2>5. f = IF h.ptr = NoBlock THEN <<h.s, FALSE>> ELSE <<Set(h.s, v, h.ptr, h.count, r.siz), TRUE>>
    BY <1>1, <1>5, <2>2, <2>4 DEF EnsureCanFit
  <2>6. ASSUME h.ptr # NoBlock, h.count = new, NEW B, Leaves(v, h.s, B, h.ptr, new, r.siz, xs), h.s.event = {},
               h.ptr \in Blocks
        PROVE  Roomy(v, r.siz, xs, f)
    <3>1. PICK t : t = Set(h.s, v, h.ptr, new, r.siz) OBVIOUS
    <3>2. f = <<t, TRUE>> BY <2>5, <2>6, <3>1
    <3>3. f[1] = t /\ f[2] = TRUE BY ONLY <3>2, PairTrue
    <3>4. Sets(h.s, v, h.ptr, new, r.siz, t) BY <2>6, <3>1, LeavesSets
    <3>5. Settled(v, t, h.ptr, new, r.siz, xs) BY <2>6, <3>4 DEF Settled
    <3>6. r.siz < new BY <2>1, <2>3
    <3> QED BY <3>3, <3>5, <3>6 DEF Roomy
  <2>7. ASSUME h.ptr = NoBlock, Kept(v, h.s) \/ Gone(v, h.s) PROVE Roomy(v, r.siz, xs, f)
    <3>1. f = <<h.s, FALSE>> BY <2>5, <2>7
    <3>2. f[1] = h.s /\ f[2] = FALSE BY ONLY <3>1, PairFalse
    <3> QED BY <2>7, <3>2 DEF Roomy
  <2>8. CASE r.start = NoBlock
    <3>1. h = AllocUninitialized(vs, new, b) BY <1>1, <2>4, <2>8 DEF ReallocBuffer
    <3>2. CASE h.ptr = NoBlock
      <4>1. h.s = vs BY <2>3, <3>1, <3>2, AllocNone
      <4>2. Kept(v, h.s) BY <1>1, <2>8, <4>1 DEF Kept
      <4> QED BY <2>7, <3>2, <4>2
    <3>3. CASE h.ptr # NoBlock
      <4>7. Len(xs) = 0 /\ Len(xs) <= new BY <1>1, <1>2, <2>1, <2>3, <2>8
      <4>1. xs = <<>> /\ Len(xs) <= new BY <1>1, <4>7
      <4>2. PICK u : u = ConstructAll(h.s, h.ptr, xs) OBVIOUS
      <4>3. u = h.s BY <4>1, <4>2 DEF ConstructAll
      <4>4. Filled(v, b, new, h, xs, u) BY <1>1, <2>3, <2>8, <3>1, <3>3, <4>1, <4>2, NewIs
      <4>5. h.count = new /\ Leaves(v, h.s, {b}, h.ptr, new, r.siz, xs) /\ h.s.event = {}
        BY <1>1, <4>3, <4>4 DEF Filled
      <4>6. h.ptr \in Blocks BY <2>8, <1>1, <3>3, <4>5 DEF Leaves
      <4> QED BY <2>6, <3>3, <4>5, <4>6
    <3> QED BY <3>2, <3>3
  <2>9. CASE r.start # NoBlock
    <3>1. h = GrowAlloc(vs, r.start, r.cap, new, r.cap, b) BY <1>1, <2>4, <2>9 DEF ReallocBuffer
    <3>2. Grown(vs, r.start, r.cap, new, b, h) BY <1>1, <1>2, <1>3, <2>3, <2>9, <3>1, GrowAllocIs
    <3>3. ~(r.cap > new) /\ r.cap <= new /\ new > 0 BY <1>1, <2>3
    <3>4. Raws(vs.mem[r.start], r.cap) = {} BY <1>2, <2>1, <2>9 DEF Raws, SomeRaw
    <3>5. CASE /\ h.ptr = NoBlock /\ vs.elem = "trivial" /\ Same(vs, h.s, {}) /\ h.s.mem = vs.mem
               /\ h.s.event = IF r.cap > new THEN {"panic"} ELSE {}
      <4>1. h.s = vs BY <1>3, <3>3, <3>5, SameNone
      <4>2. Kept(v, h.s) BY <3>5, <4>1 DEF Kept
      <4> QED BY <2>7, <3>5, <4>2
    <3>6. CASE /\ h.ptr = NoBlock /\ vs.elem = "class" /\ Same(vs, h.s, {r.start}) /\ IsFree(h.s, r.start)
               /\ h.s.event = {"null"} \cup Raws(vs.mem[r.start], r.cap)
      <4>1. Gone(v, h.s) BY <1>1, <1>2, <2>9, <3>4, <3>6 DEF Gone
      <4> QED BY <2>7, <3>6, <4>1
    <3>7. CASE /\ h.ptr = b /\ b \in Blocks /\ h.count = new /\ new > 0
               /\ Same(vs, h.s, {r.start, b}) /\ IsFree(h.s, r.start) /\ h.s.mem[b] = MovedTo(vs.mem[r.start], r.cap, new)
               /\ vs.elem = "trivial" => r.cap <= new /\ h.s.event = {}
               /\ vs.elem = "class" =>
                     h.s.event = Raws(vs.mem[r.start], r.cap) \cup (IF r.cap > new THEN {"outside"} ELSE {})
      <4>1. PICK u, p : u = h.s /\ p = r.start OBVIOUS
      <4>2. Leaves(v, u, {p, b}, b, new, r.siz, xs) BY <2>3, <2>9, <3>3, <3>7, <4>1, GrownLeaves
      <4>3. u.event = {}
        <5>1. vs.elem \in {"trivial", "class"} BY <1>3, StateParts DEF Elem
        <5> QED BY <3>3, <3>4, <3>7, <4>1, <5>1
      <4>4. b # NoBlock BY <3>7, AllocAssumption
      <4> QED BY <2>6, <3>7, <4>1, <4>2, <4>3, <4>4
    <3> QED BY <3>2, <3>5, <3>6, <3>7 DEF Grown
  <2> QED BY <2>8, <2>9
<1> QED BY <1>4, <1>5

\* And emplace_back.
Pushed(v, n, ys, e) ==
    \/ e[2] = FALSE /\ (Kept(v, e[1]) \/ Gone(v, e[1]))
    \/ e[2] = TRUE /\ \E start, cap : Settled(v, e[1], start, cap, n, ys)

\* emplace_back leaves one of the three.
LEMMA EmplaceIs ==
    ASSUME Inv, NEW v \in Vecs, NEW r, NEW xs, Own(v, r, xs), NEW b, Offered(vs, b), NEW x \in Elements,
           NEW ys, ys = Append(xs, x), NEW e, e = EmplaceBack(vs, v, x, b)
    PROVE  Pushed(v, r.siz + 1, ys, e)
<1>1. PICK f : f = EnsureCanFit(vs, v, r.siz + 1, b) OBVIOUS
<1>2. Roomy(v, r.siz, xs, f) BY <1>1, EnsureIs
<1>3. r = vs.vec[v] /\ r.siz \in Nat /\ xs \in Seq(Elements) /\ Len(xs) = r.siz BY DEF Own
<1>4. e = IF ~f[2] THEN <<f[1], FALSE>>
          ELSE <<Set(Construct(f[1], f[1].vec[v].start, f[1].vec[v].siz + 1, x), v,
                     f[1].vec[v].start, f[1].vec[v].cap, f[1].vec[v].siz + 1), TRUE>>
  BY <1>1, <1>3 DEF EmplaceBack
<1>5. CASE ~f[2] /\ (Kept(v, f[1]) \/ Gone(v, f[1]))
  <2>1. e = <<f[1], FALSE>> BY <1>4, <1>5
  <2>2. e[1] = f[1] /\ e[2] = FALSE BY ONLY <2>1, PairFalse
  <2> QED BY <1>5, <2>2 DEF Pushed
<1>6. CASE f[2] /\ \E start, cap : Settled(v, f[1], start, cap, r.siz, xs) /\ r.siz < cap
  <2>1. PICK start, cap : Settled(v, f[1], start, cap, r.siz, xs) /\ r.siz < cap BY <1>6
  <2>2. PICK t : t = f[1] OBVIOUS
  <2>3. /\ t \in State /\ t.elem = vs.elem /\ start \in Blocks
        /\ t.vec[v] = [start |-> start, cap |-> cap, siz |-> r.siz] /\ cap \in Nat
        /\ cap = Len(t.mem[start]) /\ t.mem[start] \in Seq(Cell) /\ Full(vs.elem, t.mem[start], r.siz, xs)
    <3>1. HasBuffer(v, t, start, cap, r.siz, xs) BY <2>1, <2>2, SettledIs
    <3> QED BY <3>1 DEF HasBuffer
  <2>4. t.vec[v].start = start /\ t.vec[v].cap = cap /\ t.vec[v].siz = r.siz BY <2>3
  <2>5. PICK i \in Nat : i = r.siz + 1 BY <1>3
  <2>6. i \in 1..cap
    <3>1. PICK k : k = r.siz OBVIOUS
    <3>2. k \in Nat /\ cap \in Nat /\ k < cap /\ i = k + 1 BY <1>3, <2>1, <2>3, <2>5, <3>1
    <3> QED BY ONLY <3>2
  <2>7. PICK old, cells, c, d : /\ old = t.mem[start] /\ cells = Put(old, i, x)
                                /\ c = Construct(t, start, i, x) /\ d = Set(c, v, start, cap, i)
    OBVIOUS
  <2>8. e = <<d, TRUE>> BY <1>4, <1>6, <2>2, <2>4, <2>5, <2>7
  <2>9. e[1] = d /\ e[2] = TRUE BY ONLY <2>8, PairTrue
  <2>10. x \in Cell BY DEF Cell
  <2>11. t.elem = "class" => t.mem[start][i] = Raw BY <1>3, <2>3, <2>5, <2>6 DEF Full
  <2>12. i \in 1..Len(t.mem[start]) BY <2>3, <2>6
  <2>13. Stores(t, start, cells, c) BY <2>3, <2>7, <2>10, <2>11, <2>12, ConstructIs
  <2>14. c = Stored(t, start, cells)
    <3>1. Cells(t, start) = t.mem[start] BY <2>3, BlockCells
    <3>2. ~(i > Len(Cells(t, start))) BY <2>3, <2>6, <3>1
    <3>3. ~(t.elem = "class" /\ t.mem[start][i] # Raw) BY <2>11
    <3> QED BY <2>7, <3>2, <3>3 DEF Construct, Flag, Stored, Put
  <2>15. /\ cells \in Seq(Cell) /\ Len(cells) = cap
         /\ \A j \in 1..cap : cells[j] = IF j = i THEN x ELSE old[j]
    <3>1. old \in Seq(Cell) /\ Len(old) = cap /\ i \in 1..Len(old) BY <2>3, <2>6, <2>7
    <3>2. cells = Put(old, i, x) BY <2>7
    <3>3. /\ Put(old, i, x) \in Seq(Cell) /\ Len(Put(old, i, x)) = Len(old)
          /\ \A j \in 1..Len(old) : Put(old, i, x)[j] = IF j = i THEN x ELSE old[j]
      BY ONLY <2>10, <3>1, PutCells
    <3> QED BY <3>1, <3>2, <3>3
  <2>16. /\ ys \in Seq(Elements) /\ Len(ys) = i
         /\ \A j \in 1..i : ys[j] = IF j <= r.siz THEN xs[j] ELSE x
    BY <1>3, <2>5, AppendIs
  <2>17. Full(vs.elem, cells, i, ys)
    <3>1. ASSUME NEW j \in 1..i PROVE cells[j] = ys[j]
      <4>1. CASE j = i BY <1>3, <2>5, <2>6, <2>15, <2>16, <4>1
      <4>2. CASE j < i
        <5>1. j \in 1..r.siz /\ j \in 1..cap BY <1>3, <2>3, <2>5, <2>6, <4>2
        <5>2. old[j] = xs[j] BY <2>3, <2>7, <5>1 DEF Full
        <5> QED BY <1>3, <2>15, <2>16, <4>2, <5>1, <5>2
      <4>3. j = i \/ j < i BY ONLY j \in 1..i, i \in Nat
      <4> QED BY <4>1, <4>2, <4>3
    <3>2. ASSUME vs.elem = "class", NEW j \in 1..Len(cells), j > i PROVE cells[j] = Raw
      <4>1. j \in 1..cap /\ j > r.siz BY <1>3, <2>5, <2>15, <3>2
      <4>2. old[j] = Raw BY <2>3, <2>7, <3>2, <4>1 DEF Full
      <4> QED BY <2>15, <3>2, <4>1, <4>2
    <3>3. i <= Len(cells) BY <2>6, <2>15
    <3> QED BY <2>16, <3>1, <3>2, <3>3 DEF Full
  <2>18. Settled(v, t, start, cap, r.siz, xs) BY <2>1, <2>2
  <2>19. Settled(v, d, start, cap, i, ys) BY <2>7, <2>14, <2>15, <2>17, <2>18, Rewrites
  <2> QED BY <2>5, <2>9, <2>19 DEF Pushed
<1> QED BY <1>2, <1>5, <1>6 DEF Roomy

\* There is no memory for a class: the objects are written to address 0, and the buffer is freed.
LEMMA GoneIs ==
    ASSUME Inv, NEW v \in Vecs, NEW t, Gone(v, t)
    PROVE  /\ t \in State /\ t.vec = vs.vec /\ t.elem = vs.elem /\ vs.elem = "class" /\ t.event = {"null"}
           /\ \A c \in Blocks : IsFree(t, c) \/ t.mem[c] = vs.mem[c]
BY DEF Gone, Same

\* An operation that left v gone keeps the invariant, for Known lists it.
LEMMA StepGone ==
    ASSUME Inv, NEW v \in Vecs, NEW t, Gone(v, t), NEW op, {"null", "dangling"} \subseteq Allowed("class", op),
           NEW t2, Same(t, t2, {}), t2.mem = t.mem, t2.event \subseteq Allowed("class", op), t2.event # {},
           NEW meant \in Meaning, Finish(op, t2, meant)
    PROVE  Inv'
<1>1. /\ t \in State /\ t.vec = vs.vec /\ t.elem = vs.elem /\ vs.elem = "class" /\ t.event = {"null"}
      /\ \A c \in Blocks : IsFree(t, c) \/ t.mem[c] = vs.mem[c]
  BY GoneIs
<1>2. t2 \in State /\ t2.vec = vs.vec /\ t2.elem = vs.elem BY <1>1 DEF Same
<1>3. \A c \in Blocks : IsFree(t2, c) \/ t2.mem[c] = vs.mem[c] BY <1>1 DEF IsFree
<1>4. t2.event \subseteq Allowed(vs.elem, op) /\ "dangling" \in Allowed(vs.elem, op) BY <1>1
<1> QED BY <1>2, <1>3, <1>4, StepBad

\* push_back of a value.
LEMMA KeepsPush ==
    ASSUME Inv, NEW v \in Vecs, NEW b \in BlockFor(v, vs.vec[v].siz + 1), NEW x \in Elements, PushBack(v, x, b)
    PROVE  Inv'
<1>1. PICK r, xs, e : r = vs.vec[v] /\ xs = vecMeant[v] /\ e = EmplaceBack(vs, v, x, b) OBVIOUS
<1>2. Own(v, r, xs) BY <1>1, OwnIs
<1>3. Offered(vs, b) BY BlockForIs
<1>4. PICK ys : ys = Append(xs, x) OBVIOUS
<1>5. ys \in Seq(Elements) BY <1>2, <1>4, AppendIs DEF Own
<1>6. Pushed(v, r.siz + 1, ys, e) BY <1>1, <1>2, <1>3, <1>4, EmplaceIs
<1>7. Finish("push", e[1], IF e[2] THEN Means(v, ys) ELSE vecMeant) BY <1>1, <1>4 DEF PushBack
<1>8. vecMeant \in Meaning BY DEF Inv
<1>9. CASE e[2] = FALSE /\ (Kept(v, e[1]) \/ Gone(v, e[1]))
  <2>1. Finish("push", e[1], vecMeant) BY <1>7, <1>9
  <2>2. CASE Kept(v, e[1])
    <3>1. e[1] = vs BY <2>2 DEF Kept
    <3> QED BY <2>1, <3>1, StepNone
  <2>3. CASE Gone(v, e[1])
    <3>1. PICK t : t = e[1] OBVIOUS
    <3>2. t \in State /\ t.event = {"null"} BY <2>3, <3>1, GoneIs
    <3>3. Same(t, t, {}) BY <3>2 DEF Same
    <3>4. {"null", "dangling"} \subseteq Allowed("class", "push") BY KnownIs
    <3> QED BY <1>8, <2>1, <2>3, <3>1, <3>2, <3>3, <3>4, StepGone
  <2> QED BY <1>9, <2>2, <2>3
<1>10. CASE e[2] = TRUE /\ \E start, cap : Settled(v, e[1], start, cap, r.siz + 1, ys)
  <2>1. PICK start, cap, t, n : Settled(v, t, start, cap, n, ys) /\ t = e[1] BY <1>10
  <2>2. Finish("push", t, Means(v, ys)) BY <1>7, <1>10, <2>1
  <2>3. t \in State /\ t.event = {} BY <2>1, SettledIs
  <2>4. Same(t, t, {}) BY <2>3 DEF Same
  <2>5. t.event \subseteq Allowed(vs.elem, "push") BY <2>3
  <2> QED BY <1>5, <2>1, <2>2, <2>4, <2>5, StepSettled
<1> QED BY <1>6, <1>9, <1>10 DEF Pushed

\* A flag raised or not.
Flagged(s, cond, what, t) ==
    Same(s, t, {}) /\ t.mem = s.mem /\ t.event = s.event \cup (IF cond THEN {what} ELSE {})

\* A flag touches nothing else.
LEMMA FlagIs ==
    ASSUME NEW s \in State, NEW cond \in BOOLEAN, NEW what \in Event, NEW t, t = Flag(s, cond, what)
    PROVE  Flagged(s, cond, what, t)
<1>1. CASE cond
  <2>1. t = Raised(s, what) BY <1>1 DEF Flag, Raised
  <2>2. Same(s, t, {}) /\ t.mem = s.mem /\ t.event = s.event \cup {what} BY <2>1, RaisedIs
  <2> QED BY <1>1, <2>2 DEF Flagged
<1>2. CASE ~cond BY <1>2 DEF Flag, Same, Flagged
<1> QED BY <1>1, <1>2

\* push_back of an element of the vector itself.
LEMMA KeepsPushOwn ==
    ASSUME Inv, NEW v \in Vecs, NEW b \in BlockFor(v, vs.vec[v].siz + 1), NEW i \in 1..MaxVec, PushOwn(v, i, b)
    PROVE  Inv'
<1>1. PICK r, xs, x : r = vs.vec[v] /\ xs = vecMeant[v] /\ x = xs[i] OBVIOUS
<1>2. Own(v, r, xs) BY <1>1, OwnIs
<1>3. Offered(vs, b) BY BlockForIs
<1>4. PICK ys, e : ys = Append(xs, x) /\ e = EmplaceBack(vs, v, x, b) OBVIOUS
<1>5. i \in 1..r.siz BY <1>1, VectorAssumption DEF PushOwn
<1>6. xs \in Seq(Elements) /\ Len(xs) = r.siz /\ x \in Elements BY <1>1, <1>2, <1>5 DEF Own
<1>7. ys \in Seq(Elements) BY <1>4, <1>6, AppendIs
<1>8. Elems(vs, v)[i] = x BY <1>1, ElemsIs
<1>9. Pushed(v, r.siz + 1, ys, e) BY <1>2, <1>3, <1>4, <1>6, EmplaceIs
<1>10. PICK t : t = Flag(e[1], e[2] /\ r.siz = r.cap, "dangling") OBVIOUS
<1>11. Finish("pushOwn", t, IF e[2] THEN Means(v, ys) ELSE vecMeant)
  BY <1>1, <1>4, <1>8, <1>10 DEF PushOwn
<1>12. vecMeant \in Meaning /\ vs \in State BY DEF Inv
<1>13. vs.elem \in {"trivial", "class"} BY <1>12, StateParts DEF Elem
<1>14. CASE e[2] = FALSE /\ (Kept(v, e[1]) \/ Gone(v, e[1]))
  <2>1. t = e[1] BY <1>10, <1>14 DEF Flag
  <2>2. Finish("pushOwn", t, vecMeant) BY <1>11, <1>14
  <2>3. CASE Kept(v, e[1])
    <3>1. t = vs BY <2>1, <2>3 DEF Kept
    <3> QED BY <2>2, <3>1, StepNone
  <2>4. CASE Gone(v, e[1])
    <3>2. t \in State /\ t.event = {"null"} /\ Gone(v, t) BY <2>1, <2>4, GoneIs
    <3>3. Same(t, t, {}) BY <3>2 DEF Same
    <3>4. {"null", "dangling"} \subseteq Allowed("class", "pushOwn") BY KnownIs
    <3> QED BY <1>12, <2>2, <3>2, <3>3, <3>4, StepGone
  <2> QED BY <1>14, <2>3, <2>4
<1>15. CASE e[2] = TRUE /\ \E start, cap : Settled(v, e[1], start, cap, r.siz + 1, ys)
  <2>1. PICK start, cap, s, n : Settled(v, s, start, cap, n, ys) /\ s = e[1] BY <1>15
  <2>2. Finish("pushOwn", t, Means(v, ys)) BY <1>11, <1>15
  <2>3. s \in State /\ s.event = {} BY <2>1, SettledIs
  <2>4. PICK full \in BOOLEAN : full <=> r.siz = r.cap OBVIOUS
  <2>5. t = Flag(s, full, "dangling")
    <3>1. CASE r.siz = r.cap BY <1>10, <1>15, <2>1, <2>4, <3>1 DEF Flag
    <3>2. CASE r.siz # r.cap BY <1>10, <1>15, <2>1, <2>4, <3>2 DEF Flag
    <3> QED BY <3>1, <3>2
  <2>6. "dangling" \in Event BY DEF Event
  <2>7. Same(s, t, {}) /\ t.mem = s.mem /\ t.event = s.event \cup (IF full THEN {"dangling"} ELSE {})
    <3>1. Flagged(s, full, "dangling", t) BY <2>3, <2>5, <2>6, FlagIs
    <3> QED BY <3>1 DEF Flagged
  <2>8. t.event \subseteq {"dangling"} BY <2>3, <2>7
  <2>9. t.event \subseteq Allowed(vs.elem, "pushOwn")
    <3>1. "dangling" \in Allowed(vs.elem, "pushOwn") BY <1>13, KnownIs
    <3> QED BY <2>8, <3>1
  <2> QED BY <1>7, <2>1, <2>2, <2>7, <2>9, StepSettled
<1> QED BY <1>9, <1>14, <1>15 DEF Pushed

\* reserve.
LEMMA KeepsReserve ==
    ASSUME Inv, NEW v \in Vecs, NEW n \in VecSizes, NEW b \in BlockFor(v, n), Reserve(v, n, b)
    PROVE  Inv'
<1>1. PICK r, xs : r = vs.vec[v] /\ xs = vecMeant[v] OBVIOUS
<1>2. Own(v, r, xs) BY <1>1, OwnIs
<1>3. n \in Nat /\ Offered(vs, b) BY BlockForIs, VectorAssumption
<1>4. PICK h : h = IF r.start = NoBlock THEN AllocUninitialized(vs, n, b)
                   ELSE GrowAlloc(vs, r.start, r.cap, n, r.cap, b)
  OBVIOUS
<1>5. Finish("reserve", IF r.cap >= n THEN vs ELSE IF h.ptr = NoBlock THEN h.s ELSE Set(h.s, v, h.ptr, h.count, r.siz),
             vecMeant)
  BY <1>1, <1>4 DEF Reserve
<1>6. vs \in State /\ vs.event = {} /\ vecMeant \in Meaning BY DEF Inv
<1>7. vs.elem \in {"trivial", "class"} BY <1>6, StateParts DEF Elem
<1>8. /\ r.start \in Blocks \cup {NoBlock} /\ r.cap \in Nat /\ r.siz \in Nat /\ r.siz <= r.cap
      /\ xs \in Seq(Elements) /\ Len(xs) = r.siz
  BY <1>2 DEF Own
<1>9. /\ r.start = NoBlock => r.cap = 0
      /\ r.start # NoBlock => r.start \in Blocks /\ r.cap = Len(vs.mem[r.start]) /\ r.cap > 0
  BY <1>2 DEF Own
<1>10. Means(v, xs) = vecMeant BY <1>1, <1>8, MeansIs
<1>11. CASE r.cap >= n
  <2>1. Finish("reserve", vs, vecMeant) BY <1>5, <1>11
  <2> QED BY <2>1, StepNone
<1>12. CASE ~(r.cap >= n) /\ r.start = NoBlock
  <2>1. h = AllocUninitialized(vs, n, b) BY <1>4, <1>12
  <2>2. CASE h.ptr = NoBlock
    <3>1. h.s = vs BY <1>3, <2>1, <2>2, AllocNone
    <3>2. Finish("reserve", vs, vecMeant) BY <1>5, <1>12, <2>2, <3>1
    <3> QED BY <3>2, StepNone
  <2>3. CASE h.ptr # NoBlock
    <3>1. Len(xs) = 0 /\ Len(xs) <= n /\ vs.vec[v].start = NoBlock BY <1>1, <1>3, <1>8, <1>9, <1>12
    <3>2. xs = <<>> BY <1>8, <3>1
    <3>3. PICK u : u = ConstructAll(h.s, h.ptr, xs) OBVIOUS
    <3>4. u = h.s BY <3>2, <3>3 DEF ConstructAll
    <3>5. Filled(v, b, n, h, xs, u) BY <1>3, <1>8, <2>1, <2>3, <3>1, <3>3, NewIs
    <3>6. h.count = n /\ Leaves(v, u, {b}, h.ptr, n, Len(xs), xs) /\ u.event = {} BY <3>5 DEF Filled
    <3>7. Finish("reserve", Set(u, v, h.ptr, n, Len(xs)), Means(v, xs))
      BY <1>5, <1>8, <1>10, <1>12, <2>3, <3>4, <3>6
    <3>8. u.event \subseteq Allowed(vs.elem, "reserve") BY <3>6
    <3> QED BY <1>8, <3>6, <3>7, <3>8, StepGood
  <2> QED BY <2>2, <2>3
<1>13. CASE ~(r.cap >= n) /\ r.start # NoBlock
  <2>1. h = GrowAlloc(vs, r.start, r.cap, n, r.cap, b) BY <1>4, <1>13
  <2>2. Grown(vs, r.start, r.cap, n, b, h) BY <1>3, <1>6, <1>8, <1>9, <1>13, <2>1, GrowAllocIs
  <2>3. ~(r.cap > n) /\ r.cap <= n BY <1>3, <1>8, <1>13
  <2>4. Raws(vs.mem[r.start], r.cap) \subseteq {"raw"} BY DEF Raws
  <2>5. CASE /\ h.ptr = NoBlock /\ vs.elem = "trivial" /\ Same(vs, h.s, {}) /\ h.s.mem = vs.mem
             /\ h.s.event = IF r.cap > n THEN {"panic"} ELSE {}
    <3>1. h.s = vs BY <1>6, <2>3, <2>5, SameNone
    <3>2. Finish("reserve", vs, vecMeant) BY <1>5, <1>13, <2>5, <3>1
    <3> QED BY <3>2, StepNone
  <2>6. CASE /\ h.ptr = NoBlock /\ vs.elem = "class" /\ Same(vs, h.s, {r.start}) /\ IsFree(h.s, r.start)
             /\ h.s.event = {"null"} \cup Raws(vs.mem[r.start], r.cap)
    <3>1. PICK t : t = h.s OBVIOUS
    <3>2. t \in State /\ t.vec = vs.vec /\ t.elem = vs.elem /\ \A c \in Blocks : IsFree(t, c) \/ t.mem[c] = vs.mem[c]
      BY <2>6, <3>1 DEF Same
    <3>3. t.event # {} /\ t.event \subseteq {"null", "raw"} BY <2>4, <2>6, <3>1
    <3>4. {"null", "raw", "dangling"} \subseteq Allowed(vs.elem, "reserve") BY <2>6, KnownIs
    <3>5. t.event \subseteq Allowed(vs.elem, "reserve") /\ "dangling" \in Allowed(vs.elem, "reserve")
      BY <3>3, <3>4
    <3>6. Finish("reserve", t, vecMeant) BY <1>5, <1>13, <2>6, <3>1
    <3> QED BY <1>6, <3>2, <3>3, <3>5, <3>6, StepBad
  <2>7. CASE /\ h.ptr = b /\ b \in Blocks /\ h.count = n /\ n > 0
             /\ Same(vs, h.s, {r.start, b}) /\ IsFree(h.s, r.start) /\ h.s.mem[b] = MovedTo(vs.mem[r.start], r.cap, n)
             /\ vs.elem = "trivial" => r.cap <= n /\ h.s.event = {}
             /\ vs.elem = "class" =>
                   h.s.event = Raws(vs.mem[r.start], r.cap) \cup (IF r.cap > n THEN {"outside"} ELSE {})
    <3>1. PICK u, p : u = h.s /\ p = r.start OBVIOUS
    <3>2. Leaves(v, u, {p, b}, b, n, r.siz, xs) BY <1>2, <1>3, <1>13, <2>3, <2>7, <3>1, GrownLeaves
    <3>3. u.event \subseteq Allowed(vs.elem, "reserve")
      <4>1. CASE vs.elem = "trivial" BY <2>7, <3>1, <4>1
      <4>2. CASE vs.elem = "class"
        <5>1. u.event \subseteq {"raw"} BY <2>3, <2>4, <2>7, <3>1, <4>2
        <5> QED BY <4>2, <5>1, KnownIs
      <4> QED BY <1>7, <4>1, <4>2
    <3>4. b # NoBlock BY <2>7, AllocAssumption
    <3>5. Finish("reserve", Set(u, v, b, n, r.siz), Means(v, xs)) BY <1>5, <1>10, <1>13, <2>7, <3>1, <3>4
    <3> QED BY <1>8, <3>2, <3>3, <3>5, StepGood
  <2> QED BY <2>2, <2>5, <2>6, <2>7 DEF Grown
<1> QED BY <1>11, <1>12, <1>13

\* The cells after the elements from i on moved up by one and x was put at i.
MovedUp(cells, i, n, x, c) ==
    /\ Len(c) = Len(cells)
    /\ \A j \in 1..Len(cells) :
          c[j] = IF j = i THEN x ELSE IF j > i /\ j <= n THEN cells[j - 1] ELSE cells[j]

\* The shift of insert makes these cells.
LEMMA ShiftedIs ==
    ASSUME NEW cells \in Seq(Cell), NEW i \in Nat, i >= 1, NEW n \in Nat, n <= Len(cells), NEW x \in Cell,
           NEW d, d = Shifted(cells, i, n, x)
    PROVE  d \in Seq(Cell) /\ MovedUp(cells, i, n, x, d)
<1>1. DOMAIN cells = 1..Len(cells) /\ \A j \in 1..Len(cells) : cells[j] \in Cell OBVIOUS
<1>2. PICK m \in Nat : m = Len(cells) OBVIOUS
<1>3. PICK c : c = [j \in 1..m |-> IF j = i THEN x ELSE IF j > i /\ j <= n THEN cells[j - 1] ELSE cells[j]] OBVIOUS
<1>4. Shifted(cells, i, n, x) = c
  <2>1. \A j \in 1..m : j \in i + 1..n <=> j > i /\ j <= n BY <1>2
  <2>2. \A j \in 1..m :
           (CASE j = i -> x [] j \in i + 1..n -> cells[j - 1] [] OTHER -> cells[j])
             = (IF j = i THEN x ELSE IF j > i /\ j <= n THEN cells[j - 1] ELSE cells[j])
    <3> SUFFICES ASSUME NEW j \in 1..m
                 PROVE  (CASE j = i -> x [] j \in i + 1..n -> cells[j - 1] [] OTHER -> cells[j])
                          = (IF j = i THEN x ELSE IF j > i /\ j <= n THEN cells[j - 1] ELSE cells[j])
      OBVIOUS
    <3>1. CASE j = i
      <4>1. ~(j \in i + 1..n) BY <3>1
      <4> QED BY <3>1, <4>1
    <3>2. CASE j # i /\ j \in i + 1..n BY <2>1, <3>2
    <3>3. CASE j # i /\ j \notin i + 1..n BY <2>1, <3>3
    <3> QED BY <3>1, <3>2, <3>3
  <2> QED BY <1>1, <1>2, <1>3, <2>2 DEF Shifted
<1>5. ASSUME NEW j \in 1..m PROVE c[j] \in Cell
  <2>1. CASE j = i BY <1>3, <2>1
  <2>2. CASE j # i /\ j > i /\ j <= n
    <3>1. j - 1 \in 1..m BY <1>2, <2>2
    <3> QED BY <1>1, <1>2, <1>3, <2>2, <3>1
  <2>3. CASE j # i /\ ~(j > i /\ j <= n) BY <1>1, <1>2, <1>3, <2>3
  <2> QED BY <2>1, <2>2, <2>3
<1>6. c \in [1..m -> Cell] BY <1>3, <1>5
<1>7. c \in Seq(Cell) /\ Len(c) = m BY <1>6
<1>8. d = c BY <1>4
<1> QED BY <1>2, <1>3, <1>7, <1>8 DEF MovedUp

\* The elements from i on move up by one.
LEMMA ShiftedFull ==
    ASSUME NEW elem, NEW cells \in Seq(Cell), NEW xs \in Seq(Elements), NEW n \in Nat, n = Len(xs) + 1, n <= Len(cells),
           NEW d \in Elements, Full(elem, cells, n, Append(xs, d)), NEW i \in 1..Len(xs), NEW x \in Elements
    PROVE  Full(elem, Shifted(cells, i, n, x), n, InsertAt(xs, i, x))
<1>1. PICK c, ys, zs : c = Shifted(cells, i, n, x) /\ ys = InsertAt(xs, i, x) /\ zs = Append(xs, d) OBVIOUS
<1>2. Len(xs) \in Nat /\ i \in Nat /\ i >= 1 /\ i < n /\ x \in Cell BY DEF Cell
<1>3. Len(c) = Len(cells) /\ \A j \in 1..Len(cells) :
         c[j] = IF j = i THEN x ELSE IF j > i /\ j <= n THEN cells[j - 1] ELSE cells[j]
  <2>1. MovedUp(cells, i, n, x, c) BY <1>1, <1>2, ShiftedIs
  <2> QED BY <2>1 DEF MovedUp
<1>4. Len(ys) = n /\ \A j \in 1..n : ys[j] = IF j < i THEN xs[j] ELSE IF j = i THEN x ELSE xs[j - 1]
  <2>1. i \in 1..Len(xs) + 1 BY <1>2
  <2>2. Inserted(xs, i, x, ys) BY <1>1, <2>1, InsertIs
  <2> QED BY <2>2 DEF Inserted
<1>5. \A j \in 1..Len(xs) : cells[j] = xs[j]
  <2>1. \A j \in 1..Len(xs) : zs[j] = xs[j] BY <1>1, AppendIs
  <2>2. \A j \in 1..n : cells[j] = zs[j] BY <1>1 DEF Full
  <2>3. \A j \in 1..Len(xs) : j \in 1..n BY <1>2
  <2> QED BY <2>1, <2>2, <2>3
<1>6. ASSUME NEW j \in 1..n PROVE c[j] = ys[j]
  <2>1. j \in 1..Len(cells) /\ j \in Nat BY <1>2
  <2>2. CASE j = i BY <1>3, <1>4, <2>1, <2>2
  <2>3. CASE j > i
    <3>1. j - 1 \in 1..Len(xs) /\ j <= n /\ j # i /\ ~(j < i) BY <1>2, <2>3
    <3>2. c[j] = cells[j - 1] BY <1>3, <2>1, <2>3, <3>1
    <3>3. ys[j] = xs[j - 1] BY <1>4, <3>1
    <3> QED BY <1>5, <3>1, <3>2, <3>3
  <2>4. CASE j < i
    <3>1. j \in 1..Len(xs) /\ j # i /\ ~(j > i) BY <1>2, <2>4
    <3> QED BY <1>3, <1>4, <1>5, <2>1, <2>4, <3>1
  <2> QED BY <1>2, <2>1, <2>2, <2>3, <2>4
<1>7. ASSUME elem = "class", NEW j \in 1..Len(c), j > n PROVE c[j] = Raw
  <2>1. j \in 1..Len(cells) /\ j # i /\ ~(j <= n) BY <1>2, <1>3, <1>7
  <2>2. cells[j] = Raw BY <1>7, <2>1 DEF Full
  <2> QED BY <1>3, <2>1, <2>2
<1> QED BY <1>1, <1>3, <1>4, <1>6, <1>7 DEF Full

\* insert.
LEMMA KeepsInsert ==
    ASSUME Inv, NEW v \in Vecs, NEW b \in BlockFor(v, vs.vec[v].siz + 1), NEW i \in 1..MaxVec + 1, NEW x \in Elements,
           Insert(v, i, x, b)
    PROVE  Inv'
<1>1. PICK r, xs, atEnd : r = vs.vec[v] /\ xs = vecMeant[v] /\ atEnd = (i = r.siz + 1) OBVIOUS
<1>2. Own(v, r, xs) BY <1>1, OwnIs
<1>3. Offered(vs, b) BY BlockForIs
<1>4. PICK y, e : y = (IF i = r.siz + 1 THEN x ELSE Default) /\ e = EmplaceBack(vs, v, y, b) OBVIOUS
<1>5. i \in Nat /\ i >= 1 /\ i <= r.siz + 1 BY <1>1, VectorAssumption DEF Insert
<1>6. /\ xs \in Seq(Elements) /\ Len(xs) = r.siz /\ r.siz \in Nat /\ r.cap \in Nat /\ r.siz <= r.cap
      /\ r.start \in Blocks \cup {NoBlock}
  BY <1>2 DEF Own
<1>7. y \in Elements BY <1>4, VectorAssumption
<1>8. PICK zs, ys : zs = Append(xs, y) /\ ys = InsertAt(xs, i, x) OBVIOUS
<1>9. Pushed(v, r.siz + 1, zs, e) BY <1>2, <1>3, <1>4, <1>7, <1>8, EmplaceIs
<1>10. vs \in State /\ vs.event = {} /\ vecMeant \in Meaning BY DEF Inv
<1>11. vs.elem \in {"trivial", "class"} BY <1>10, StateParts DEF Elem
<1>12. PICK s : s = IF i = r.siz + 1 THEN e[1]
                    ELSE [e[1] EXCEPT !.mem[e[1].vec[v].start] = Shifted(@, i, e[1].vec[v].siz, x)]
  OBVIOUS
<1>13. PICK t : t = Flag(s, ~e[2] /\ ~(i = r.siz + 1), "dropped") OBVIOUS
<1>14. Finish("insert", t, IF e[2] THEN Means(v, ys)
                           ELSE IF i = r.siz + 1 THEN vecMeant ELSE Means(v, Front(ys)))
  BY <1>1, <1>4, <1>8, <1>12, <1>13 DEF Insert
<1>15. ys \in Seq(Elements) /\ Len(ys) = r.siz + 1
  <2>1. i \in 1..Len(xs) + 1 BY <1>5, <1>6
  <2>2. ys \in Seq(Elements) /\ Inserted(xs, i, x, ys) BY <1>6, <1>8, <2>1, InsertIs
  <2> QED BY <1>6, <2>2 DEF Inserted
<1>16. "dropped" \in Event BY DEF Event
<1>17. CASE i = r.siz + 1
  <2>1. s = e[1] /\ y = x BY <1>4, <1>12, <1>17
  <2>2. t = e[1] BY <1>13, <1>17, <2>1 DEF Flag
  <2>3. ys = zs
    <3>1. \A j \in 1..r.siz + 1 : ys[j] = IF j < i THEN xs[j] ELSE IF j = i THEN x ELSE xs[j - 1]
      <4>1. i \in 1..Len(xs) + 1 BY <1>5, <1>6
      <4>2. Inserted(xs, i, x, ys) BY <1>6, <1>8, <4>1, InsertIs
      <4> QED BY <1>6, <4>2 DEF Inserted
    <3>2. zs \in Seq(Elements) /\ Len(zs) = r.siz + 1 /\ \A j \in 1..r.siz + 1 : zs[j] = IF j <= r.siz THEN xs[j] ELSE x
      <4>1. /\ Append(xs, x) \in Seq(Elements) /\ Len(Append(xs, x)) = Len(xs) + 1
            /\ \A j \in 1..Len(xs) + 1 : Append(xs, x)[j] = IF j <= Len(xs) THEN xs[j] ELSE x
        BY ONLY <1>6, x \in Elements, AppendIs
      <4> QED BY <1>6, <1>8, <2>1, <4>1
    <3>3. \A j \in 1..r.siz + 1 : ys[j] = zs[j] BY <1>6, <1>17, <3>1, <3>2
    <3>4. \A j \in 1..Len(ys) : ys[j] = zs[j] BY <1>15, <3>3
    <3>5. Len(ys) = Len(zs) BY <1>15, <3>2
    <3> QED BY ONLY <1>15, <3>2, <3>4, <3>5
  <2>4. CASE e[2] = FALSE /\ (Kept(v, e[1]) \/ Gone(v, e[1]))
    <3>1. Finish("insert", t, vecMeant) BY <1>14, <1>17, <2>4
    <3>2. CASE Kept(v, e[1])
      <4>1. t = vs BY <2>2, <3>2 DEF Kept
      <4> QED BY <3>1, <4>1, StepNone
    <3>3. CASE Gone(v, e[1])
      <4>1. t \in State /\ t.event = {"null"} /\ Gone(v, t) BY <2>2, <3>3, GoneIs
      <4>2. Same(t, t, {}) BY <4>1 DEF Same
      <4>3. {"null", "dangling"} \subseteq Allowed("class", "insert") BY KnownIs
      <4> QED BY <1>10, <3>1, <4>1, <4>2, <4>3, StepGone
    <3> QED BY <2>4, <3>2, <3>3
  <2>5. CASE e[2] = TRUE /\ \E start, cap : Settled(v, e[1], start, cap, r.siz + 1, zs)
    <3>1. PICK start, cap, n : Settled(v, t, start, cap, n, ys) BY <2>2, <2>3, <2>5
    <3>2. Finish("insert", t, Means(v, ys)) BY <1>14, <2>5
    <3>3. t \in State /\ t.event = {} BY <3>1, SettledIs
    <3>4. Same(t, t, {}) BY <3>3 DEF Same
    <3>5. t.event \subseteq Allowed(vs.elem, "insert") BY <3>3
    <3> QED BY <1>15, <3>1, <3>2, <3>4, <3>5, StepSettled
  <2> QED BY <1>9, <2>4, <2>5 DEF Pushed
<1>18. CASE i # r.siz + 1
  <2>1. i \in 1..r.siz /\ i \in 1..Len(xs) /\ r.siz > 0 BY <1>5, <1>6, <1>18
  <2>2. /\ r.start \in Blocks /\ r.start # NoBlock /\ r.cap = Len(vs.mem[r.start]) /\ ~IsFree(vs, r.start)
    BY <1>2, <1>6, <2>1 DEF Own
  <2>3. PICK old, cells : old = e[1].mem[e[1].vec[v].start] /\ cells = Shifted(old, i, e[1].vec[v].siz, x) OBVIOUS
  <2>4. s = Stored(e[1], e[1].vec[v].start, cells) BY <1>12, <1>18, <2>3 DEF Stored
  <2>5. CASE e[2] = TRUE /\ \E start, cap : Settled(v, e[1], start, cap, r.siz + 1, zs)
    <3>1. PICK start, cap, n, w : Settled(v, w, start, cap, n, zs) /\ n = r.siz + 1 /\ w = e[1] BY <2>5
    <3>2. HasBuffer(v, w, start, cap, n, zs) BY <3>1, SettledIs
    <3>3. /\ w \in State /\ start \in Blocks /\ w.vec[v] = [start |-> start, cap |-> cap, siz |-> n] /\ cap \in Nat
          /\ cap = Len(w.mem[start]) /\ w.mem[start] \in Seq(Cell) /\ Full(vs.elem, w.mem[start], n, zs)
      BY <3>2 DEF HasBuffer
    <3>4. w.vec[v].start = start /\ w.vec[v].siz = n BY <3>3
    <3>5. old = w.mem[start] /\ cells = Shifted(old, i, n, x) /\ s = Stored(w, start, cells) BY <2>3, <2>4, <3>1, <3>4
    <3>6. n \in Nat /\ n = Len(xs) + 1 BY <1>6, <3>1
    <3>7. n <= Len(old) BY <3>3, <3>5 DEF Full
    <3>8. old \in Seq(Cell) /\ Full(vs.elem, old, n, Append(xs, y)) BY <1>8, <3>3, <3>5
    <3>9. Full(vs.elem, cells, n, ys)
      <4>1. Full(vs.elem, Shifted(old, i, n, x), n, InsertAt(xs, i, x))
        BY <1>6, <1>7, <2>1, <3>6, <3>7, <3>8, ShiftedFull
      <4> QED BY <1>8, <3>5, <4>1
    <3>10. cells \in Seq(Cell) /\ Len(cells) = cap
      <4>1. x \in Cell BY DEF Cell
      <4>2. cells \in Seq(Cell) /\ MovedUp(old, i, n, x, cells)
        BY <1>5, <3>5, <3>6, <3>7, <3>8, <4>1, ShiftedIs
      <4> QED BY <3>3, <3>5, <4>2 DEF MovedUp
    <3>11. Settled(v, s, start, cap, n, ys) BY <3>1, <3>5, <3>6, <3>9, <3>10, Rewrites
    <3>12. t = s BY <1>13, <2>5 DEF Flag
    <3>13. Finish("insert", s, Means(v, ys)) BY <1>14, <2>5, <3>12
    <3>14. s \in State /\ s.event = {} BY <3>11, SettledIs
    <3>15. Same(s, s, {}) BY <3>14 DEF Same
    <3>16. s.event \subseteq Allowed(vs.elem, "insert") BY <3>14
    <3> QED BY <1>15, <3>11, <3>13, <3>15, <3>16, StepSettled
  <2>6. CASE e[2] = FALSE /\ (Kept(v, e[1]) \/ Gone(v, e[1]))
    <3>1. PICK w : w = e[1] OBVIOUS
    <3>2. w \in State /\ w.vec = vs.vec /\ w.elem = vs.elem /\ w.event \subseteq {"null"}
          /\ \A c \in Blocks : IsFree(w, c) \/ w.mem[c] = vs.mem[c]
      <4>1. CASE w = vs BY <1>10, <4>1
      <4>2. CASE Gone(v, w) BY <4>2, GoneIs
      <4> QED BY <2>6, <3>1, <4>1, <4>2 DEF Kept
    <3>3. (w = vs /\ vs.elem # "class") \/ Gone(v, w)
      <4>1. vs.vec[v].start # NoBlock BY <1>1, <2>2
      <4> QED BY <2>6, <3>1, <4>1 DEF Kept
    <3>4. old = w.mem[r.start] /\ cells = Shifted(old, i, r.siz, x) /\ s = Stored(w, r.start, cells)
      BY <1>1, <2>3, <2>4, <3>1, <3>2
    <3>5. cells \in Seq(Cell) /\ Len(cells) = Len(old)
      <4>1. CASE w = vs
        <5>1. old \in Seq(Cell) /\ r.siz <= Len(old) BY <1>6, <1>10, <2>2, <3>4, <4>1, BlockCells
        <5>2. x \in Cell BY DEF Cell
        <5>3. PICK n : n = r.siz OBVIOUS
        <5>4. n \in Nat /\ n <= Len(old) /\ cells = Shifted(old, i, n, x) BY <1>6, <3>4, <5>1, <5>3
        <5>5. cells \in Seq(Cell) /\ MovedUp(old, i, n, x, cells) BY <1>5, <5>1, <5>2, <5>4, ShiftedIs
        <5> QED BY <5>5 DEF MovedUp
      <4>2. CASE Gone(v, w)
        <5>1. old = <<>> BY <1>1, <3>4, <4>2 DEF Gone, IsFree
        <5>2. cells = <<>> BY <3>4, <5>1 DEF Shifted
        <5> QED BY <5>1, <5>2
      <4> QED BY <3>3, <4>1, <4>2
    <3>6. Stores(w, r.start, cells, s) BY <2>2, <3>2, <3>4, <3>5, PutIs
    <3>7. Same(w, s, {r.start}) /\ s.mem[r.start] = cells /\ s.event = w.event BY <3>6 DEF Stores
    <3>8. s \in State /\ s.vec = vs.vec /\ s.elem = vs.elem /\ \A c \in Blocks \ {r.start} : s.mem[c] = w.mem[c]
      BY <3>2, <3>7 DEF Same
    <3>9. Same(s, t, {}) /\ t.mem = s.mem /\ t.event = s.event \cup {"dropped"}
      <4>1. t = Raised(s, "dropped") BY <1>13, <1>18, <2>6 DEF Flag, Raised
      <4> QED BY <1>16, <3>8, <4>1, RaisedIs
    <3>10. t \in State /\ t.vec = vs.vec /\ t.elem = vs.elem BY <3>8, <3>9 DEF Same
    <3>11. t.event # {} /\ t.event \subseteq Allowed(vs.elem, "insert")
      <4>1. CASE w = vs
        <5>1. t.event = {"dropped"} BY <1>10, <3>7, <3>9, <4>1
        <5> QED BY <1>11, <5>1, KnownIs
      <4>2. CASE Gone(v, w)
        <5>1. t.event \subseteq {"null", "dropped"} /\ t.event # {} /\ vs.elem = "class"
          BY <3>2, <3>7, <3>9, <4>2 DEF Gone
        <5> QED BY <5>1, KnownIs
      <4> QED BY <3>3, <4>1, <4>2
    <3>12. "dangling" \in Allowed(vs.elem, "insert") \/ \A c \in Blocks : IsFree(t, c) => IsFree(vs, c)
      <4>1. CASE w = vs
        <5>1. ~IsFree(t, r.start)
          <6>1. Len(t.mem[r.start]) # 0 BY <1>6, <2>1, <2>2, <3>4, <3>5, <3>7, <3>9, <4>1
          <6> QED BY <6>1, <2>2, <3>10, BlockCells
        <5> QED BY <3>8, <3>9, <4>1, <5>1 DEF IsFree
      <4>2. CASE Gone(v, w) BY <4>2, KnownIs DEF Gone
      <4> QED BY <3>3, <4>1, <4>2
    <3>13. ASSUME NEW c \in Blocks
           PROVE  \/ IsFree(t, c)
                  \/ /\ Len(t.mem[c]) = Len(vs.mem[c])
                     /\ vs.elem = "class" => t.mem[c] = vs.mem[c]
      <4>1. CASE c # r.start BY <3>2, <3>8, <3>9, <4>1 DEF IsFree
      <4>2. CASE c = r.start /\ Gone(v, w)
        <5>1. old = <<>> BY <1>1, <3>4, <4>2 DEF Gone, IsFree
        <5>2. Len(t.mem[c]) = 0 BY <3>5, <3>7, <3>9, <4>2, <5>1
        <5> QED BY <3>10, <5>2, BlockCells
      <4>3. CASE c = r.start /\ w = vs /\ vs.elem # "class" BY <3>4, <3>5, <3>7, <3>9, <4>3
      <4> QED BY <3>3, <4>1, <4>2, <4>3
    <3>14. Front(ys) \in Seq(Elements)
      <4>1. Len(ys) > 0 BY <1>6, <1>15
      <4> QED BY ONLY <1>15, <4>1, FrontIs
    <3>15. Means(v, Front(ys)) \in Meaning BY <3>14, MeansIs
    <3>16. Finish("insert", t, Means(v, Front(ys))) BY <1>14, <1>18, <2>6
    <3> QED BY <3>10, <3>11, <3>12, <3>13, <3>15, <3>16, StepBad
  <2> QED BY <1>9, <2>5, <2>6 DEF Pushed
<1> QED BY <1>17, <1>18

\* Copy assignment: the buffer is made to fit, and the elements are copied over what it holds.
LEMMA KeepsCopyAssign ==
    ASSUME Inv, NEW v \in Vecs, NEW w \in Vecs, NEW b \in Offer, CopyAssign(v, w, b)
    PROVE  Inv'
<1>1. PICK r, q, ys : r = vs.vec[v] /\ q = vs.vec[w] /\ ys = vecMeant[w] OBVIOUS
<1>2. Own(v, r, vecMeant[v]) /\ Own(w, q, ys) BY <1>1, OwnIs
<1>3. Offered(vs, b) BY OfferIs
<1>4. PICK h : h = ReallocBuffer(vs, v, r.cap, q.cap, b) OBVIOUS
<1>5. PICK from : from = IF v = w THEN h.ptr ELSE q.start OBVIOUS
<1>6. PICK xs : xs = First(Cells(h.s, from), q.siz) OBVIOUS
<1>7. PICK z : z = <<>> OBVIOUS
<1>8. IF h.ptr = NoBlock THEN Finish("copyAssign", Set(h.s, v, NoBlock, 0, 0), Means(v, z))
      ELSE Finish("copyAssign", Set(ConstructAll(h.s, h.ptr, xs), v, h.ptr, h.count, q.siz), Means(v, ys))
  BY <1>1, <1>4, <1>5, <1>6, <1>7 DEF CopyAssign
<1>9. vs \in State /\ vs.event = {} BY DEF Inv
<1>10. vs.elem \in {"trivial", "class"} BY <1>9, StateParts DEF Elem
<1>11. /\ r.start \in Blocks \cup {NoBlock} /\ r.cap \in Nat /\ r.siz \in Nat /\ r.siz <= r.cap
       /\ q.start \in Blocks \cup {NoBlock} /\ q.cap \in Nat /\ q.siz \in Nat /\ q.siz <= q.cap
       /\ ys \in Seq(Elements) /\ Len(ys) = q.siz
  BY <1>2 DEF Own
<1>12. /\ r.start = NoBlock => r.cap = 0
       /\ r.start # NoBlock => /\ r.start \in Blocks /\ r.cap = Len(vs.mem[r.start]) /\ r.cap > 0
                               /\ ~IsFree(vs, r.start) /\ Full(vs.elem, vs.mem[r.start], r.siz, vecMeant[v])
  BY <1>2 DEF Own
<1>13. /\ q.start = NoBlock => q.cap = 0
       /\ q.start # NoBlock => /\ q.start \in Blocks /\ q.cap = Len(vs.mem[q.start]) /\ q.cap > 0
                               /\ ~IsFree(vs, q.start) /\ \A i \in 1..q.siz : vs.mem[q.start][i] = ys[i]
  BY <1>2 DEF Own
<1>14. "leak" \in Allowed(vs.elem, "copyAssign") BY <1>10, KnownIs
<1>15. Means(v, z) \in Meaning /\ Means(v, ys) \in Meaning BY <1>7, <1>11, EmptyIs, MeansIs
<1>16. CASE r.start = NoBlock
  <2>1. h = AllocUninitialized(vs, q.cap, b) BY <1>1, <1>4, <1>16 DEF ReallocBuffer
  <2>2. CASE h.ptr = NoBlock
    <3>1. h.s = vs BY <1>3, <1>11, <2>1, <2>2, AllocNone
    <3>2. Leaves(v, vs, {}, NoBlock, 0, 0, z) /\ z \in Seq(Elements) BY <1>1, <1>7, <1>16, NewNone
    <3>3. Finish("copyAssign", Set(vs, v, NoBlock, 0, 0), Means(v, z)) BY <1>8, <2>2, <3>1
    <3>4. vs.event \subseteq Allowed(vs.elem, "copyAssign") BY <1>9
    <3> QED BY <3>2, <3>3, <3>4, StepGood
  <2>3. CASE h.ptr # NoBlock
    <3>1. Allocated(vs, q.cap, b, h) BY <1>3, <1>9, <1>11, <2>1, AllocIs DEF Offered
    <3>2. q.cap > 0 /\ b # NoBlock /\ h.ptr = b /\ Same(vs, h.s, {b}) BY <1>11, <2>3, <3>1 DEF Allocated
    <3>3. q.start # NoBlock /\ q.start # r.start /\ v # w BY <1>1, <1>13, <1>16, <3>2
    <3>4. b \in Blocks /\ IsFree(vs, b) /\ q.start # b BY <1>3, <1>13, <3>2, <3>3 DEF Offered
    <3>5. from = q.start /\ Cells(h.s, from) = vs.mem[q.start] BY <1>5, <1>13, <3>2, <3>3, <3>4 DEF Cells, Same
    <3>6. xs = ys
      <4>1. xs = [i \in 1..q.siz |-> vs.mem[q.start][i]] BY <1>6, <3>5 DEF First
      <4>2. xs = [i \in 1..q.siz |-> ys[i]] BY <1>13, <3>3, <4>1
      <4> QED BY <1>11, <4>2
    <3>7. PICK u : u = ConstructAll(h.s, h.ptr, ys) OBVIOUS
    <3>8. PICK n : n = q.cap OBVIOUS
    <3>9. n \in Nat /\ Len(ys) <= n /\ h = AllocUninitialized(vs, n, b) BY <1>11, <2>1, <3>8
    <3>10. vs.vec[v].start = NoBlock BY <1>1, <1>16
    <3>11. Filled(v, b, n, h, ys, u) BY <1>3, <1>11, <2>3, <3>7, <3>9, <3>10, NewIs
    <3>12. h.count = n /\ Leaves(v, u, {b}, h.ptr, n, Len(ys), ys) /\ u.event = {} BY <3>11 DEF Filled
    <3>13. Finish("copyAssign", Set(u, v, h.ptr, n, Len(ys)), Means(v, ys)) BY <1>8, <1>11, <2>3, <3>6, <3>7, <3>12
    <3>14. u.event \subseteq Allowed(vs.elem, "copyAssign") BY <3>12
    <3> QED BY <1>11, <3>12, <3>13, <3>14, StepGood
  <2> QED BY <2>2, <2>3
<1>17. CASE r.start # NoBlock
  <2>1. PICK p, old : p = r.start /\ old = vs.mem[p] OBVIOUS
  <2>2. /\ p \in Blocks /\ p # NoBlock /\ r.cap = Len(old) /\ r.cap > 0 /\ ~IsFree(vs, p) /\ p = vs.vec[v].start
        /\ \A c \in Vecs \ {v} : vs.vec[c].start # p
    BY <1>1, <1>12, <1>17, <2>1, InUseIs
  <2>3. old \in Seq(Cell) BY <1>9, <2>1, <2>2, BlockCells
  <2>4. h = GrowAlloc(vs, p, r.cap, q.cap, r.cap, b) BY <1>1, <1>4, <1>17, <2>1 DEF ReallocBuffer
  <2>5. Grown(vs, p, r.cap, q.cap, b, h) BY <1>3, <1>9, <1>11, <2>1, <2>2, <2>4, GrowAllocIs
  <2>6. Raws(old, r.cap) \subseteq {"raw"} BY DEF Raws
  <2>7. ASSUME NEW u, u = h.s, h.ptr = NoBlock, NEW B, Same(vs, u, B), B \subseteq {p},
               u.event \subseteq Allowed(vs.elem, "copyAssign"), u.event # {} \/ u.mem = vs.mem
        PROVE  Inv'
    <3>1. PICK t : t = Set(u, v, NoBlock, 0, 0) OBVIOUS
    <3>2. Finish("copyAssign", t, Means(v, z)) BY <1>8, <2>7, <3>1
    <3>3. u \in State /\ u.elem = vs.elem /\ u.vec = vs.vec BY <2>7 DEF Same
    <3>4. Sets(u, v, NoBlock, 0, 0, t) BY <3>1, <3>3, SetIs
    <3>5. /\ t \in State /\ t.mem = u.mem /\ t.elem = vs.elem /\ t.event = u.event
          /\ t.vec[v].start = NoBlock /\ t.vec[v].cap = 0 /\ \A c \in Vecs \ {v} : t.vec[c] = vs.vec[c]
      BY <3>3, <3>4 DEF Sets
    <3>6. ~Dangles(t)
      <4>1. \A c \in Blocks \ B : t.mem[c] = vs.mem[c] BY <2>7, <3>5 DEF Same
      <4>2. \A c \in B : c = vs.vec[v].start \/ IsFree(vs, c) BY <2>2, <2>7
      <4> QED BY <3>5, <4>1, <4>2, NotDangling
    <3>7. t.event # {} \/ Leaks(t)
      <4>1. CASE u.event # {} BY <3>5, <4>1
      <4>2. CASE u.mem = vs.mem
        <5>1. ~IsFree(t, p) BY <2>2, <3>5, <4>2 DEF IsFree
        <5>2. \A c \in Vecs : t.vec[c].start = p => t.vec[c].cap = 0 BY <2>2, <3>5
        <5>3. Leaks(t) BY <2>2, <3>5, <5>1, <5>2, Lost
        <5> QED BY <5>3
      <4> QED BY <2>7, <4>1, <4>2
    <3>8. t.event \subseteq Allowed(vs.elem, "copyAssign") BY <2>7, <3>5
    <3> QED BY <1>14, <1>15, <3>2, <3>5, <3>6, <3>7, <3>8, StepLeaks
  <2>8. CASE /\ h.ptr = NoBlock /\ vs.elem = "trivial" /\ Same(vs, h.s, {}) /\ h.s.mem = vs.mem
             /\ h.s.event = IF r.cap > q.cap THEN {"panic"} ELSE {}
    <3>1. PICK u, B : u = h.s /\ B = {} OBVIOUS
    <3>2. h.s.event \subseteq {"panic"} BY <2>8
    <3>3. u.event \subseteq Allowed(vs.elem, "copyAssign") BY <2>8, <3>1, <3>2, KnownIs
    <3>4. Same(vs, u, B) /\ B \subseteq {p} /\ u.mem = vs.mem BY <2>8, <3>1
    <3> QED BY <2>7, <2>8, <3>1, <3>3, <3>4
  <2>9. CASE /\ h.ptr = NoBlock /\ vs.elem = "class" /\ Same(vs, h.s, {p}) /\ IsFree(h.s, p)
             /\ h.s.event = {"null"} \cup Raws(vs.mem[p], r.cap)
    <3>1. PICK u, B : u = h.s /\ B = {p} OBVIOUS
    <3>2. u.event \subseteq {"null", "raw"} /\ u.event # {} BY <2>1, <2>6, <2>9, <3>1
    <3>3. u.event \subseteq Allowed(vs.elem, "copyAssign") BY <2>9, <3>2, KnownIs
    <3>4. Same(vs, u, B) /\ B \subseteq {p} BY <2>9, <3>1
    <3> QED BY <2>7, <2>9, <3>1, <3>2, <3>3, <3>4
  <2>10. CASE /\ h.ptr = b /\ b \in Blocks /\ h.count = q.cap /\ q.cap > 0
              /\ Same(vs, h.s, {p, b}) /\ IsFree(h.s, p) /\ h.s.mem[b] = MovedTo(vs.mem[p], r.cap, q.cap)
              /\ vs.elem = "trivial" => r.cap <= q.cap /\ h.s.event = {}
              /\ vs.elem = "class" =>
                    h.s.event = Raws(vs.mem[p], r.cap) \cup (IF r.cap > q.cap THEN {"outside"} ELSE {})
    <3>1. PICK s, moved, m, c : s = h.s /\ moved = h.s.mem[b] /\ m = q.cap /\ c = r.cap OBVIOUS
    <3>2. /\ c \in Nat /\ m \in Nat /\ m > 0 /\ c > 0 /\ c = Len(old) /\ q.siz <= m /\ moved = MovedTo(old, c, m)
      BY <1>11, <2>1, <2>2, <2>10, <3>1
    <3>3. /\ moved \in Seq(Cell) /\ Len(moved) = m
          /\ c <= m => \A i \in 1..m : moved[i] = IF i <= c THEN old[i] ELSE Raw
      <4>1. c \in Nat /\ m \in Nat /\ c <= Len(old) BY <3>2
      <4>2. MovedTo(old, c, m) \in Seq(Cell) BY ONLY <2>3, <4>1, MovedToIs
      <4>3. /\ Len(MovedTo(old, c, m)) = m
            /\ c <= m => \A i \in 1..m : MovedTo(old, c, m)[i] = IF i <= c THEN old[i] ELSE Raw
        BY ONLY <2>3, <4>1, MovedToIs
      <4> QED BY <3>2, <4>2, <4>3
    <3>4. b # NoBlock /\ IsFree(vs, b) /\ b # p BY <1>3, <2>2, <2>10, AllocAssumption DEF Offered
    <3>5. s \in State /\ s.elem = vs.elem /\ Same(vs, s, {p, b}) /\ s.mem[b] = moved BY <2>10, <3>1 DEF Same
    <3>6. PICK source : source = Cells(s, from) OBVIOUS
    <3>7. /\ source \in Seq(Cell) /\ q.siz <= Len(source)
          /\ v = w => source = moved
          /\ v # w => \A i \in 1..q.siz : source[i] = ys[i]
      <4>1. CASE v = w
        <5>1. source = moved BY <1>5, <2>10, <3>1, <3>4, <3>6, <4>1 DEF Cells
        <5> QED BY <3>2, <3>3, <4>1, <5>1
      <4>2. CASE v # w /\ q.start = NoBlock
        <5>1. source = <<>> /\ q.siz = 0 BY <1>5, <1>11, <1>13, <3>6, <4>2 DEF Cells
        <5> QED BY <4>2, <5>1
      <4>3. CASE v # w /\ q.start # NoBlock
        <5>1. q.start # p /\ q.start # b /\ q.start \in Blocks BY <1>1, <1>13, <2>2, <3>4, <4>3
        <5>2. source = vs.mem[q.start] BY <1>5, <3>5, <3>6, <4>3, <5>1 DEF Cells, Same
        <5>3. vs.mem[q.start] \in Seq(Cell) BY <1>9, <5>1, BlockCells
        <5> QED BY <1>11, <1>13, <4>3, <5>2, <5>3
      <4> QED BY <4>1, <4>2, <4>3
    <3>8. /\ xs \in Seq(Cell) /\ Len(xs) = q.siz /\ \A i \in 1..q.siz : xs[i] = source[i]
      <4>1. PICK n : n = q.siz OBVIOUS
      <4>2. n \in Nat /\ n <= Len(source) /\ xs = First(source, n) BY <1>6, <1>11, <3>1, <3>6, <3>7, <4>1
      <4>3. /\ First(source, n) \in Seq(Cell) /\ Len(First(source, n)) = n
            /\ \A i \in 1..n : First(source, n)[i] = source[i]
        BY ONLY <3>7, <4>2, FirstIs
      <4> QED BY <4>1, <4>2, <4>3
    <3>9. PICK u : u = ConstructAll(s, b, xs) OBVIOUS
    <3>10. b \in Blocks \cup {NoBlock} BY <2>10
    <3>11. Placed(s, b, xs, u) BY <3>5, <3>8, <3>9, <3>10, ConstructAllIs
    <3>12. PICK cells : cells = u.mem[b] OBVIOUS
    <3>13. /\ Same(s, u, {b}) /\ Len(cells) = m
           /\ \A i \in 1..m : cells[i] = IF i <= q.siz THEN xs[i] ELSE moved[i]
           /\ u.event = s.event \cup (IF vs.elem = "class" /\ \E i \in 1..q.siz : moved[i] # Raw
                                      THEN {"overwritten"} ELSE {})
      <4>1. CASE xs = <<>>
        <5>1. u = s /\ q.siz = 0 BY <3>8, <3>11, <4>1 DEF Placed
        <5>2. ~(vs.elem = "class" /\ \E i \in 1..q.siz : moved[i] # Raw) BY <5>1
        <5> QED BY <3>3, <3>5, <3>12, <5>1, <5>2 DEF Same
      <4>2. CASE xs # <<>>
        <5>1. Len(xs) <= Len(s.mem[b]) /\ DOMAIN xs = 1..q.siz BY <1>11, <3>2, <3>3, <3>5, <3>8
        <5>2. /\ Same(s, u, {b}) /\ u.mem[b] = Over(s.mem[b], xs)
              /\ u.event = s.event \cup
                    (IF s.elem = "class" /\ \E i \in DOMAIN xs : s.mem[b][i] # Raw THEN {"overwritten"} ELSE {})
          BY <3>4, <3>11, <4>2, <5>1 DEF Placed
        <5>3. cells = Over(moved, xs) BY <3>5, <3>12, <5>2
        <5>4. /\ Len(Over(moved, xs)) = Len(moved)
              /\ \A i \in 1..Len(moved) : Over(moved, xs)[i] = IF i <= Len(xs) THEN xs[i] ELSE moved[i]
          BY ONLY <3>3, <3>8, OverIs
        <5> QED BY <3>3, <3>5, <3>8, <5>1, <5>2, <5>3, <5>4
      <4> QED BY <4>1, <4>2
    <3>14. Same(vs, u, {p, b})
      <4>1. Same(vs, u, {p, b} \cup {b}) BY <3>5, <3>13, SameTwice
      <4> QED BY <4>1, SameMore
    <3>15. IsFree(u, p) BY <2>2, <2>10, <3>1, <3>4, <3>13 DEF Same, IsFree
    <3>16. PICK t : t = Set(u, v, b, m, q.siz) OBVIOUS
    <3>17. Finish("copyAssign", t, Means(v, ys)) BY <1>8, <2>10, <3>1, <3>4, <3>9, <3>16
    <3>18. u \in State /\ u.elem = vs.elem /\ u.vec = vs.vec BY <3>14 DEF Same
    <3>19. Cells(u, b) = cells BY <3>4, <3>12 DEF Cells
    <3>20. CASE vs.elem = "trivial"
      <4>1. c <= m /\ u.event = {} BY <2>10, <3>1, <3>13, <3>20
      <4>2. \A i \in 1..q.siz : source[i] = ys[i]
        <5>1. CASE v # w BY <3>7, <5>1
        <5>2. CASE v = w
          <6>1. \A i \in 1..q.siz : i \in 1..m /\ i <= c BY <1>1, <1>11, <3>1, <3>2, <5>2
          <6>2. \A i \in 1..q.siz : moved[i] = old[i] BY <3>3, <4>1, <6>1
          <6>3. q.start = p BY <1>1, <2>1, <5>2
          <6> QED BY <1>13, <2>1, <2>2, <3>7, <5>2, <6>2, <6>3
        <5> QED BY <5>1, <5>2
      <4>3. Full(vs.elem, cells, q.siz, ys)
        <5>1. \A i \in 1..q.siz : i \in 1..m BY <1>11, <3>2
        <5>2. \A i \in 1..q.siz : cells[i] = ys[i] BY <3>8, <3>13, <4>2, <5>1
        <5> QED BY <1>11, <3>2, <3>13, <3>20, <5>2 DEF Full
      <4>4. Leaves(v, u, {p, b}, b, m, q.siz, ys)
        BY <1>11, <2>2, <2>10, <3>2, <3>4, <3>13, <3>14, <3>15, <3>19, <4>3, AllocAssumption DEF Leaves
      <4>5. Finish("copyAssign", Set(u, v, b, m, q.siz), Means(v, ys)) BY <3>16, <3>17
      <4>6. u.event \subseteq Allowed(vs.elem, "copyAssign") BY <4>1
      <4> QED BY <1>11, <4>4, <4>5, <4>6, StepGood
    <3>21. CASE vs.elem = "class"
      <4>1. Sets(u, v, b, m, q.siz, t) BY <1>11, <3>2, <3>10, <3>16, <3>18, SetIs
      <4>2. t \in State /\ t.mem = u.mem /\ t.elem = vs.elem /\ t.event = u.event
            /\ t.vec[v] = [start |-> b, cap |-> m, siz |-> q.siz] /\ \A x \in Vecs \ {v} : t.vec[x] = vs.vec[x]
        BY <3>18, <4>1 DEF Sets
      <4>3. t.vec[v].start = b /\ t.vec[v].siz = q.siz BY <4>2
      <4>4. s.event \subseteq {"raw", "outside"} BY <2>1, <2>6, <2>10, <3>1, <3>21
      <4>5. u.event \subseteq {"raw", "outside", "overwritten"} BY <3>13, <4>4
      <4>6. t.event \subseteq Allowed(vs.elem, "copyAssign") BY <3>21, <4>2, <4>5, KnownIs
      <4>7. ~Dangles(t)
        <5>1. PICK B : B = {p, b} OBVIOUS
        <5>2. \A x \in Blocks \ B : t.mem[x] = vs.mem[x] BY <3>14, <4>2, <5>1 DEF Same
        <5>3. \A x \in B : x = vs.vec[v].start \/ IsFree(vs, x) BY <2>2, <3>4, <5>1
        <5>4. ~IsFree(t, b)
          <6>1. Len(t.mem[b]) # 0 BY <3>2, <3>12, <3>13, <4>2
          <6> QED BY <2>10, <4>2, <6>1, BlockCells
        <5> QED BY <4>2, <4>3, <5>2, <5>3, <5>4, NotDangling
      <4>8. t.event # {} \/ Leaks(t)
        <5> SUFFICES ASSUME t.event = {} PROVE Leaks(t) OBVIOUS
        <5>1. s.event = {} /\ ~\E i \in 1..q.siz : moved[i] # Raw BY <3>13, <3>21, <4>2
        <5>2. Raws(old, c) = {} /\ ~(c > m) BY <2>1, <2>10, <3>1, <3>21, <5>1
        <5>3. old[1] # Raw
          <6>1. ~SomeRaw(old, 1, c) BY <5>2 DEF Raws
          <6> QED BY <3>2, <6>1 DEF SomeRaw
        <5>4. moved[1] = old[1]
          <6>1. 1 \in 1..m /\ 1 <= c /\ c <= m BY <3>2, <5>2
          <6> QED BY <3>3, <6>1
        <5>5. q.siz = 0
          <6>1. CASE q.siz > 0
            <7>1. 1 \in 1..q.siz BY <1>11, <6>1
            <7> QED BY <5>1, <5>3, <5>4, <7>1
          <6> QED BY <1>11, <6>1
        <5>6. cells[1] # Raw
          <6>1. 1 \in 1..m BY <3>2
          <6>2. cells[1] = moved[1] BY <3>13, <5>5, <6>1
          <6> QED BY <5>3, <5>4, <6>2
        <5>7. Cells(t, b) = cells BY <3>4, <3>12, <4>2 DEF Cells
        <5>8. 1 \in t.vec[v].siz + 1..Len(Cells(t, t.vec[v].start)) BY <3>2, <3>13, <4>3, <5>5, <5>7
        <5>9. Forgotten(t, v) BY <3>21, <4>2, <4>3, <5>6, <5>7, <5>8 DEF Forgotten
        <5> QED BY <5>9 DEF Leaks
      <4> QED BY <1>14, <1>15, <3>17, <4>2, <4>6, <4>7, <4>8, StepLeaks
    <3> QED BY <1>10, <3>20, <3>21
  <2> QED BY <2>5, <2>8, <2>9, <2>10 DEF Grown
<1> QED BY <1>16, <1>17

-----------------------------------------------------------------------------
(* Every history.                                                          *)

\* Every operation keeps the invariant, and so does a step that changes nothing.
LEMMA NextInv ==
    ASSUME Inv, [VectorNext]_vectorVars
    PROVE  Inv'
<1>1. CASE UNCHANGED vectorVars
  <2>1. vs' = vs /\ vecMeant' = vecMeant /\ vecLog' = vecLog BY <1>1 DEF vectorVars
  <2> QED BY <2>1 DEF Inv, LogIsKnown
<1>2. CASE VectorNext
  <2>1. PICK v \in Vecs :
          \/ Clear(v)
          \/ PopBack(v)
          \/ \E w \in Vecs : NewMove(v, w) \/ MoveAssign(v, w)
          \/ \E i \in 1..MaxVec : Erase(v, i)
          \/ \E n \in VecSizes : \E b \in BlockFor(v, n) :
                \/ NewReserve(v, n, b)
                \/ Reserve(v, n, b)
                \/ \E x \in Elements : NewFill(v, x, n, b)
          \/ \E w \in Vecs : \/ \E b \in BlockFor(v, vs.vec[w].cap) : NewCopy(v, w, b)
                            \/ \E b \in Offer : CopyAssign(v, w, b)
          \/ \E b \in Offer : ShrinkToFit(v, b)
          \/ \E b \in BlockFor(v, vs.vec[v].siz + 1) :
                \/ \E x \in Elements : PushBack(v, x, b)
                \/ \E i \in 1..MaxVec : PushOwn(v, i, b)
                \/ \E i \in 1..MaxVec + 1, x \in Elements : Insert(v, i, x, b)
    BY <1>2 DEF VectorNext
  <2>2. CASE Clear(v) BY <2>2, KeepsClear
  <2>3. CASE PopBack(v) BY <2>3, KeepsPop
  <2>4. ASSUME NEW w \in Vecs, NewMove(v, w) PROVE Inv' BY <2>4, KeepsNewMove
  <2>5. ASSUME NEW w \in Vecs, MoveAssign(v, w) PROVE Inv' BY <2>5, KeepsMoveAssign
  <2>6. ASSUME NEW i \in 1..MaxVec, Erase(v, i) PROVE Inv' BY <2>6, KeepsErase
  <2>7. ASSUME NEW n \in VecSizes, NEW b \in BlockFor(v, n), NewReserve(v, n, b) PROVE Inv'
    BY <2>7, KeepsNewReserve
  <2>8. ASSUME NEW n \in VecSizes, NEW b \in BlockFor(v, n), Reserve(v, n, b) PROVE Inv' BY <2>8, KeepsReserve
  <2>9. ASSUME NEW n \in VecSizes, NEW b \in BlockFor(v, n), NEW x \in Elements, NewFill(v, x, n, b) PROVE Inv'
    BY <2>9, KeepsNewFill
  <2>10. ASSUME NEW w \in Vecs, NEW b \in BlockFor(v, vs.vec[w].cap), NewCopy(v, w, b) PROVE Inv'
    BY <2>10, KeepsNewCopy
  <2>11. ASSUME NEW w \in Vecs, NEW b \in Offer, CopyAssign(v, w, b) PROVE Inv' BY <2>11, KeepsCopyAssign
  <2>12. ASSUME NEW b \in Offer, ShrinkToFit(v, b) PROVE Inv' BY <2>12, KeepsShrink
  <2>13. ASSUME NEW b \in BlockFor(v, vs.vec[v].siz + 1), NEW x \in Elements, PushBack(v, x, b) PROVE Inv'
    BY <2>13, KeepsPush
  <2>14. ASSUME NEW b \in BlockFor(v, vs.vec[v].siz + 1), NEW i \in 1..MaxVec, PushOwn(v, i, b) PROVE Inv'
    BY <2>14, KeepsPushOwn
  <2>15. ASSUME NEW b \in BlockFor(v, vs.vec[v].siz + 1), NEW i \in 1..MaxVec + 1, NEW x \in Elements,
                Insert(v, i, x, b)
         PROVE  Inv'
    BY <2>15, KeepsInsert
  <2> QED BY <2>1, <2>2, <2>3, <2>4, <2>5, <2>6, <2>7, <2>8, <2>9, <2>10, <2>11, <2>12, <2>13, <2>14, <2>15
<1> QED BY <1>1, <1>2

\* The invariant holds in every reachable state.
THEOREM InvariantHolds == VectorSpec => []Inv
<1>1. VectorInit => Inv BY InitInv
<1>2. Inv /\ [VectorNext]_vectorVars => Inv' BY NextInv
<1> QED BY <1>1, <1>2, PTL DEF VectorSpec

\* The vectors have their types, in every reachable state.
THEOREM VectorsAreTyped == VectorSpec => []VectorTypeOK
<1>1. Inv => VectorTypeOK
  <2> SUFFICES ASSUME Inv PROVE VectorTypeOK OBVIOUS
  <2>1. vs \in State /\ vs.event = {} /\ vecMeant \in [Vecs -> Seq(Elements)] BY DEF Inv, Meaning
  <2>2. vs.elem \in Elem /\ \A b \in Blocks : vs.mem[b] \in Seq(Elements \cup {Raw}) BY <2>1, StateParts DEF Cell
  <2>3. \A v \in Vecs : vs.vec[v] \in [start : Blocks \cup {NoBlock}, cap : Nat, siz : Nat]
    BY <2>1, VecIs DEF Vec
  <2> QED BY <2>1, <2>2, <2>3 DEF VectorTypeOK
<1> QED BY <1>1, InvariantHolds, PTL

\* Whatever the vectors were put through (vector.hpp), each holds the elements its operations
\* mean in a buffer of its own, of which exactly those are constructed, no buffer is lost,
\* and only the operations of Known go wrong, as listed there.
THEOREM ContentsHeld == VectorSpec => []VectorsHoldTheirContents
<1>1. Inv => VectorsHoldTheirContents
  <2> SUFFICES ASSUME Inv PROVE VectorsHoldTheirContents OBVIOUS
  <2>1. Holds(vs, vecMeant) /\ vs \in State BY DEF Inv
  <2>2. ~Leaks(vs) BY <2>1, HoldsClean
  <2>3. InUse(vs) \subseteq Owned(vs) /\ \A v \in Vecs : ~Forgotten(vs, v) BY <2>2 DEF Leaks
  <2>4. \A e \in vecLog : e[1] \in DOMAIN Known[vs.elem] /\ e[2] \in Known[vs.elem][e[1]] BY DEF Inv, LogIsKnown
  <2>5. ASSUME NEW v \in Vecs
        PROVE  /\ vs.vec[v].cap = Len(Cells(vs, vs.vec[v].start))
               /\ vs.vec[v].siz <= vs.vec[v].cap
               /\ Elems(vs, v) = vecMeant[v]
               /\ \A w \in Vecs \ {v} : vs.vec[v].start # NoBlock => vs.vec[v].start # vs.vec[w].start
    <3>1. PICK r : r = vs.vec[v] OBVIOUS
    <3>2. Own(v, r, vecMeant[v]) BY <3>1, OwnIs
    <3>3. r.cap = Len(Cells(vs, r.start)) /\ r.siz <= r.cap BY <3>2 DEF Own
    <3>4. \A w \in Vecs \ {v} : r.start # NoBlock => r.start # vs.vec[w].start BY <2>1, <3>1 DEF Holds
    <3> QED BY <3>1, <3>3, <3>4, ElemsIs
  <2> QED BY <2>3, <2>4, <2>5 DEF VectorsHoldTheirContents
<1> QED BY <1>1, InvariantHolds, PTL

-----------------------------------------------------------------------------
(* Strings.                                                                *)

\* A set of numbers that is not empty has a least element.
LEMMA LeastNumber ==
    ASSUME NEW S \in SUBSET Nat, S # {}
    PROVE  \E m \in S : \A k \in S : m <= k
<1>1. PICK m \in S : \A k \in S : ~(<<k, m>> \in OpToRel(<, Nat))
    BY NatLessThanWellFounded, WFMin
<1>2. \A k \in S : ~(k < m) BY <1>1 DEF OpToRel
<1> QED BY <1>2

-----------------------------------------------------------------------------
(* Capacities.                                                             *)

Factor == capFactor \in {1, 2}

LEMMA StringConstantsAre ==
    /\ SmallCap \in Nat \ {0} /\ BigCap \in Nat \ {0} /\ BigCap > SmallCap /\ BigCap % 2 = 0
    /\ CapLimit \in Nat /\ CapLimit > BigCap /\ MaxText \in Nat /\ Zero \in Letters
BY StringsAssumption

\* What the bit field keeps is a number of its, and no more than the block has.
LEMMA StoredCapIs ==
    ASSUME Factor, NEW count \in Nat
    PROVE  /\ StoredCap(count) \in 0..CapLimit - 1
           /\ StoredCap(count) * capFactor <= count
           /\ count = BigCap => StoredCap(count) * capFactor = BigCap
<1>1. CapLimit \in Nat \ {0} /\ BigCap \in Nat /\ BigCap < CapLimit /\ BigCap % 2 = 0 BY StringConstantsAre
<1>2. PICK q : q = count \div capFactor OBVIOUS
<1>3. CASE capFactor = 1
  <2>1. q = count BY <1>2, <1>3
  <2>2. q % CapLimit \in 0..CapLimit - 1 /\ q % CapLimit <= q BY <1>1, <2>1
  <2>3. q < CapLimit => q % CapLimit = q BY <1>1, <2>1
  <2>4. StoredCap(count) = q % CapLimit BY <1>2 DEF StoredCap
  <2> QED BY <1>1, <1>3, <2>1, <2>2, <2>3, <2>4
<1>4. CASE capFactor = 2
  <2>1. q \in Nat /\ 2 * q <= count /\ (count % 2 = 0 => 2 * q = count) BY <1>2, <1>4
  <2>2. q % CapLimit \in 0..CapLimit - 1 /\ q % CapLimit <= q BY <1>1, <2>1
  <2>3. q < CapLimit => q % CapLimit = q BY <1>1, <2>1
  <2>4. StoredCap(count) = q % CapLimit BY <1>2 DEF StoredCap
  <2> QED BY <1>1, <1>4, <2>1, <2>2, <2>3, <2>4
<1> QED BY <1>3, <1>4 DEF Factor

\* A string whose storage has the capacity it reports, and its text.
StrOK(s) ==
    /\ DOMAIN s = {"big", "cap", "size", "buf"}
    /\ s.big \in BOOLEAN
    /\ s.cap \in 0..CapLimit - 1 /\ s.size \in Nat /\ s.buf \in Seq(Letters)
    /\ s.size <= Len(s.buf) /\ Capacity(s) <= Len(s.buf)
    /\ ~s.big => Len(s.buf) = SmallCap

Says(s, t) == t \in Seq(Letters) /\ s.size = Len(t) /\ \A i \in 1..Len(t) : s.buf[i] = t[i]

LEMMA SaysIs ==
    ASSUME NEW s, NEW t, Says(s, t)
    PROVE  Text(s) = t
<1>1. t = [i \in 1..Len(t) |-> t[i]] BY DEF Says
<1>2. Text(s) = [i \in 1..Len(t) |-> s.buf[i]] BY DEF Says, Text
<1>3. [i \in 1..Len(t) |-> s.buf[i]] = [i \in 1..Len(t) |-> t[i]] BY DEF Says
<1> QED BY <1>1, <1>2, <1>3

LEMMA CapacityNat ==
    ASSUME Factor, NEW s, StrOK(s)
    PROVE  Capacity(s) \in Nat
<1>1. SmallCap \in Nat BY StringConstantsAre
<1>2. s.cap \in Nat BY StringConstantsAre DEF StrOK
<1>3. PICK c, n : c = s.cap /\ n = c * capFactor OBVIOUS
<1>4. n \in Nat BY <1>2, <1>3 DEF Factor
<1>5. CASE s.big BY <1>3, <1>4, <1>5 DEF Capacity
<1>6. CASE ~s.big BY <1>1, <1>6 DEF Capacity
<1> QED BY <1>5, <1>6

\* A string under way, while all is well, and once something went wrong.
Way(w) == DOMAIN w = {"s", "ev", "cut"}
Fine(w, t) == w.ev = {} /\ StrOK(w.s) /\ Says(w.s, t) /\ (IsCut(w.s) => w.cut = TRUE)
Faulty(w) == w.ev # {} /\ w.ev \subseteq {"wrong size", "outside"} /\ w.cut = TRUE

\* A block that is given back, with a size that is not its own.
Misgiven(w, size) == w.s.big /\ size # Len(w.s.buf)

LEMMA FreeBlockIs ==
    ASSUME NEW w, Way(w), NEW size, NEW r, r = FreeBlock(w, size)
    PROVE  /\ Way(r) /\ r.s = w.s /\ r.cut = w.cut
           /\ Misgiven(w, size) => r.ev = w.ev \cup {"wrong size"}
           /\ ~Misgiven(w, size) => r = w
<1>1. CASE Misgiven(w, size)
  <2>1. r = [w EXCEPT !.ev = @ \cup {"wrong size"}] BY <1>1 DEF FreeBlock, Also, Misgiven
  <2> QED BY <1>1, <2>1 DEF Way
<1>2. CASE ~Misgiven(w, size)
  <2>1. r = w BY <1>2 DEF FreeBlock, Also, Misgiven
  <2> QED BY <1>2, <2>1
<1> QED BY <1>1, <1>2

LEMMA BegunIs ==
    ASSUME NEW s, NEW t, StrOK(s), Says(s, t)
    PROVE  Way(Begun(s)) /\ Fine(Begun(s), t) /\ Begun(s).s = s /\ Begun(s).ev = {}
<1>1. PICK f : f = IsCut(s) OBVIOUS
<1>2. Begun(s) = [s |-> s, ev |-> {}, cut |-> f] BY <1>1 DEF Begun
<1>3. Begun(s).s = s /\ Begun(s).ev = {} /\ Begun(s).cut = f BY <1>2
<1>4. Way(Begun(s)) BY <1>2 DEF Way
<1>5. f => f = TRUE BY <1>1 DEF IsCut
<1> QED BY <1>1, <1>3, <1>4, <1>5 DEF Fine

\* The block of the size that is grown to, and what is in it.
Larger2(cap) == IF cap < BigCap THEN BigCap ELSE cap + cap \div 2
KeptOf(w) == IF w.s.big THEN Capacity(w.s) ELSE w.s.size
CopiedTo(w, new) == [i \in 1..new |-> IF i <= KeptOf(w) /\ i <= Len(w.s.buf) THEN w.s.buf[i] ELSE Zero]
GrownOnce(w, new) == [big |-> TRUE, cap |-> StoredCap(new), size |-> w.s.size, buf |-> CopiedTo(w, new)]

LEMMA EnsureFitsIs ==
    ASSUME NEW w, NEW newSize, NEW ok, NEW cap, cap = Capacity(w.s), NEW new, new = Larger2(cap),
           NEW freed, freed = FreeBlock(w, cap), NEW grown, grown = GrownOnce(w, new)
    PROVE  EnsureFits(w, newSize, ok) =
               IF newSize <= cap THEN <<w, TRUE>>
               ELSE IF ~ok THEN <<w, FALSE>>
               ELSE <<[freed EXCEPT !.s = grown, !.cut = @ \/ IsCut(grown)], TRUE>>
BY DEF EnsureFits, Larger2, KeptOf, CopiedTo, GrownOnce

\* The string after it grew.
GrowsInto(w, r) ==
    LET cap == Capacity(w.s)
        freed == FreeBlock(w, cap)
        grown == GrownOnce(w, Larger2(cap))
    IN  r = [freed EXCEPT !.s = grown, !.cut = @ \/ IsCut(grown)]

\* The fields of what comes of it.
GrowsTo(w, r, cap, grown) ==
    /\ Way(r) /\ r.s = grown /\ r.cut = (w.cut \/ IsCut(grown))
    /\ Misgiven(w, cap) => r.ev = w.ev \cup {"wrong size"}
    /\ ~Misgiven(w, cap) => r.ev = w.ev

LEMMA GrowsIntoIs ==
    ASSUME NEW w, Way(w), NEW r, GrowsInto(w, r)
    PROVE  GrowsTo(w, r, Capacity(w.s), GrownOnce(w, Larger2(Capacity(w.s))))
<1>1. PICK cap, grown, freed : cap = Capacity(w.s) /\ grown = GrownOnce(w, Larger2(cap)) /\ freed = FreeBlock(w, cap)
    OBVIOUS
<1>3. /\ Way(freed) /\ freed.cut = w.cut
      /\ Misgiven(w, cap) => freed.ev = w.ev \cup {"wrong size"}
      /\ ~Misgiven(w, cap) => freed = w
  <2>1. freed = FreeBlock(w, cap) /\ Way(w) BY <1>1
  <2> QED BY ONLY <2>1, FreeBlockIs
<1>4. PICK cut : cut = (w.cut \/ IsCut(grown)) OBVIOUS
<1>5. r = [freed EXCEPT !.s = grown, !.cut = cut] BY <1>1, <1>3, <1>4 DEF GrowsInto
<1>6. DOMAIN r = DOMAIN freed /\ r.s = grown /\ r.cut = cut /\ r.ev = freed.ev BY <1>3, <1>5 DEF Way
<1>7. GrowsTo(w, r, cap, grown) BY <1>3, <1>4, <1>6 DEF Way, GrowsTo
<1> QED BY <1>1, <1>7

\* One that has its whole capacity before it grows, has it after, or the bit field cut it.
LEMMA StringGrownIs ==
    ASSUME Factor, NEW w, NEW t, Fine(w, t), NEW cap, cap = Capacity(w.s), cap = Len(w.s.buf),
           NEW new, new = Larger2(cap), NEW grown, grown = GrownOnce(w, new)
    PROVE  StrOK(grown) /\ Says(grown, t) /\ grown.size = w.s.size /\ grown.size < Len(grown.buf)
           /\ (cap < BigCap => Capacity(grown) = BigCap)
<1>1. StrOK(w.s) /\ Says(w.s, t) BY DEF Fine
<1>2. PICK size, buf : size = w.s.size /\ buf = w.s.buf OBVIOUS
<1>3. size \in Nat /\ buf \in Seq(Letters) /\ size <= Len(buf) /\ cap = Len(buf) BY <1>1, <1>2 DEF StrOK
<1>4. /\ SmallCap \in Nat \ {0} /\ BigCap \in Nat \ {0} /\ BigCap > SmallCap /\ Zero \in Letters
      /\ CapLimit \in Nat
  BY StringConstantsAre
<1>5. new \in Nat /\ cap < new /\ (cap < BigCap => new = BigCap)
  <2>1. CASE cap < BigCap BY <1>3, <1>4, <2>1 DEF Larger2
  <2>2. CASE cap >= BigCap
    <3>1. cap >= 2 BY <1>4, <2>2
    <3>2. cap \div 2 \in Nat /\ cap \div 2 >= 1 BY <1>3, <3>1
    <3>3. new = cap + cap \div 2 BY <1>3, <1>4, <2>2 DEF Larger2
    <3> QED BY <1>3, <1>4, <2>2, <3>2, <3>3
  <2> QED BY <1>3, <1>4, <2>1, <2>2
<1>6. PICK kept : kept = KeptOf(w) OBVIOUS
<1>7. size <= kept
  <2>1. CASE w.s.big BY <1>3, <1>6, <2>1 DEF KeptOf
  <2>2. CASE ~w.s.big BY <1>2, <1>3, <1>6, <2>2 DEF KeptOf
  <2> QED BY <2>1, <2>2
<1>8. PICK with : with = CopiedTo(w, new) OBVIOUS
<1>9. with = [i \in 1..new |-> IF i <= kept /\ i <= Len(buf) THEN buf[i] ELSE Zero]
  BY <1>2, <1>6, <1>8 DEF CopiedTo
<1>10. with \in Seq(Letters) /\ Len(with) = new
  <2>1. \A i \in 1..new : (IF i <= kept /\ i <= Len(buf) THEN buf[i] ELSE Zero) \in Letters
    BY <1>3, <1>4, <1>5
  <2>2. with \in [1..new -> Letters] BY <1>9, <2>1
  <2> QED BY <1>5, <2>2
<1>11. kept \in Int
  <2>1. CASE w.s.big
    <3>1. kept = cap BY <1>6, <2>1 DEF KeptOf
    <3> QED BY <1>3, <3>1
  <2>2. CASE ~w.s.big BY <1>2, <1>3, <1>6, <2>2 DEF KeptOf
  <2> QED BY <2>1, <2>2
<1>12. \A i \in 1..size : with[i] = buf[i]
  <2> SUFFICES ASSUME NEW i \in 1..size PROVE with[i] = buf[i] OBVIOUS
  <2>1. i \in 1..new /\ i <= kept /\ i <= Len(buf) BY <1>3, <1>5, <1>7, <1>11
  <2> QED BY <1>9, <2>1
<1>13. PICK st : st = StoredCap(new) OBVIOUS
<1>14. st \in 0..CapLimit - 1 /\ st * capFactor <= new /\ (new = BigCap => st * capFactor = BigCap)
  BY <1>5, <1>13, StoredCapIs
<1>15. PICK big : big = TRUE OBVIOUS
<1>16. grown = [big |-> big, cap |-> st, size |-> size, buf |-> with] BY <1>2, <1>8, <1>13, <1>15 DEF GrownOnce
<1>17. /\ DOMAIN grown = {"big", "cap", "size", "buf"}
       /\ grown.big = big /\ grown.cap = st /\ grown.size = size /\ grown.buf = with
  BY <1>16
<1>18. Capacity(grown) = st * capFactor
  <2>1. Capacity(grown) = grown.cap * capFactor BY <1>15, <1>17 DEF Capacity
  <2> QED BY <1>17, <2>1
<1>19. Says(grown, t) BY <1>1, <1>2, <1>12, <1>17 DEF Says
<1>24. size < new /\ size <= new BY <1>3, <1>5
<1>20. size <= Len(with) /\ size < Len(with) /\ st * capFactor <= Len(with) BY <1>10, <1>14, <1>24
<1>21. grown.big \in BOOLEAN /\ (~grown.big => Len(grown.buf) = SmallCap) BY <1>15, <1>17
<1>22. StrOK(grown) BY <1>3, <1>10, <1>14, <1>17, <1>18, <1>20, <1>21 DEF StrOK
<1>23. cap < BigCap => Capacity(grown) = BigCap BY <1>5, <1>14, <1>18
<1> QED BY <1>2, <1>17, <1>19, <1>20, <1>22, <1>23

-----------------------------------------------------------------------------
(* ensure_can_fit.                                                         *)

LEMMA FitsAlready ==
    ASSUME NEW w, NEW newSize, NEW ok, newSize <= Capacity(w.s)
    PROVE  EnsureFits(w, newSize, ok) = <<w, TRUE>>
BY EnsureFitsIs

LEMMA FitsNot ==
    ASSUME NEW w, NEW newSize, ~(newSize <= Capacity(w.s))
    PROVE  EnsureFits(w, newSize, FALSE) = <<w, FALSE>>
BY EnsureFitsIs

LEMMA FitsGrown ==
    ASSUME NEW w, NEW newSize, ~(newSize <= Capacity(w.s))
    PROVE  \E r : GrowsInto(w, r) /\ EnsureFits(w, newSize, TRUE) = <<r, TRUE>>
<1>1. EnsureFits(w, newSize, TRUE)[2] = TRUE /\ GrowsInto(w, EnsureFits(w, newSize, TRUE)[1])
  BY DEF EnsureFits, GrowsInto, Larger2, KeptOf, CopiedTo, GrownOnce
<1>2. EnsureFits(w, newSize, TRUE) = <<EnsureFits(w, newSize, TRUE)[1], EnsureFits(w, newSize, TRUE)[2]>>
  BY DEF EnsureFits
<1> QED BY <1>1, <1>2

LEMMA GrowFine ==
    ASSUME Factor, NEW w, NEW t, Way(w), Fine(w, t), NEW r, GrowsInto(w, r)
    PROVE  /\ Way(r)
           /\ Faulty(r) \/ (Fine(r, t) /\ r.s.size < Len(r.s.buf))
           /\ ~Misgiven(w, Capacity(w.s)) => Fine(r, t)
           /\ (~Misgiven(w, Capacity(w.s)) /\ Capacity(w.s) < BigCap) => Capacity(r.s) = BigCap
<1>1. PICK cap, new : cap = Capacity(w.s) /\ new = Larger2(cap) OBVIOUS
<1>2. PICK grown : grown = GrownOnce(w, new) OBVIOUS
<1>3. GrowsTo(w, r, cap, grown)
  <2>1. Way(w) /\ GrowsInto(w, r) OBVIOUS
  <2>2. GrowsTo(w, r, Capacity(w.s), GrownOnce(w, Larger2(Capacity(w.s)))) BY ONLY <2>1, GrowsIntoIs
  <2> QED BY <1>1, <1>2, <2>2
<1>4. /\ Way(r) /\ r.s = grown /\ r.cut = (w.cut \/ IsCut(grown))
      /\ Misgiven(w, cap) => r.ev = w.ev \cup {"wrong size"}
      /\ ~Misgiven(w, cap) => r.ev = w.ev
  BY <1>3 DEF GrowsTo
<1>5. StrOK(w.s) /\ w.ev = {} /\ (IsCut(w.s) => w.cut = TRUE) BY DEF Fine
<1>6. CASE Misgiven(w, cap)
  <2>1. IsCut(w.s)
    <3>1. cap # Len(w.s.buf) BY <1>6 DEF Misgiven
    <3>2. cap \in Nat /\ cap <= Len(w.s.buf) /\ Len(w.s.buf) \in Nat
      <4>1. cap \in Nat BY <1>1, <1>5, CapacityNat
      <4>2. cap <= Len(w.s.buf) /\ w.s.buf \in Seq(Letters) BY <1>1, <1>5 DEF StrOK
      <4> QED BY <4>1, <4>2
    <3>3. cap < Len(w.s.buf) BY <3>1, <3>2
    <3> QED BY <1>1, <3>3 DEF IsCut
  <2>2. w.cut = TRUE BY <1>5, <2>1
  <2>3. r.cut = TRUE BY <1>4, <2>2
  <2>4. r.ev = {"wrong size"} BY <1>4, <1>5, <1>6
  <2>5. Faulty(r) BY <2>3, <2>4 DEF Faulty
  <2> QED BY <1>1, <1>4, <1>6, <2>5
<1>7. CASE ~Misgiven(w, cap)
  <2>1. cap = Len(w.s.buf)
    <3>1. CASE w.s.big BY <1>7, <3>1 DEF Misgiven
    <3>2. CASE ~w.s.big
      <4>1. cap = SmallCap BY <1>1, <3>2 DEF Capacity
      <4>2. Len(w.s.buf) = SmallCap BY <1>5, <3>2 DEF StrOK
      <4> QED BY <4>1, <4>2
    <3> QED BY <3>1, <3>2
  <2>2. /\ StrOK(grown) /\ Says(grown, t) /\ grown.size = w.s.size /\ grown.size < Len(grown.buf)
        /\ (cap < BigCap => Capacity(grown) = BigCap)
    BY <1>1, <1>2, <2>1, StringGrownIs
  <2>3. r.ev = {} BY <1>4, <1>5, <1>7
  <2>4. IsCut(grown) => r.cut = TRUE BY <1>4
  <2>5. Fine(r, t) BY <1>4, <2>2, <2>3, <2>4 DEF Fine
  <2> QED BY <1>1, <1>4, <2>2, <2>5
<1> QED BY <1>6, <1>7

LEMMA GrowFaulty ==
    ASSUME NEW w, Way(w), Faulty(w), NEW r, GrowsInto(w, r)
    PROVE  Way(r) /\ Faulty(r)
<1>1. PICK cap, new : cap = Capacity(w.s) /\ new = Larger2(cap) OBVIOUS
<1>2. PICK grown : grown = GrownOnce(w, new) OBVIOUS
<1>3. GrowsTo(w, r, cap, grown)
  <2>1. Way(w) /\ GrowsInto(w, r) OBVIOUS
  <2>2. GrowsTo(w, r, Capacity(w.s), GrownOnce(w, Larger2(Capacity(w.s)))) BY ONLY <2>1, GrowsIntoIs
  <2> QED BY <1>1, <1>2, <2>2
<1>4. /\ Way(r) /\ r.s = grown /\ r.cut = (w.cut \/ IsCut(grown))
      /\ Misgiven(w, cap) => r.ev = w.ev \cup {"wrong size"}
      /\ ~Misgiven(w, cap) => r.ev = w.ev
  BY <1>3 DEF GrowsTo
<1>5. r.cut = TRUE BY <1>4 DEF Faulty
<1> QED BY <1>4, <1>5 DEF Faulty

-----------------------------------------------------------------------------
(* push_back.                                                              *)

LEMMA PutFine ==
    ASSUME Factor, NEW w, NEW t, Way(w), Fine(w, t), w.s.size < Len(w.s.buf), NEW c \in Letters
    PROVE  /\ Way(PutChar(w, c)) /\ Fine(PutChar(w, c), Append(t, c))
           /\ Capacity(PutChar(w, c).s) = Capacity(w.s)
           /\ Len(PutChar(w, c).s.buf) = Len(w.s.buf)
<1>1. StrOK(w.s) /\ Says(w.s, t) /\ w.ev = {} /\ (IsCut(w.s) => w.cut = TRUE) BY DEF Fine
<1>2. PICK s, n, buf : s = w.s /\ n = s.size /\ buf = s.buf OBVIOUS
<1>3. n \in Nat /\ buf \in Seq(Letters) /\ n < Len(buf) /\ Len(buf) \in Nat BY <1>1, <1>2 DEF StrOK
<1>4. DOMAIN s = {"big", "cap", "size", "buf"} BY <1>1, <1>2 DEF StrOK
<1>5. PICK i, with : i = n + 1 /\ with = [buf EXCEPT ![i] = c] OBVIOUS
<1>6. i \in 1..Len(buf) BY <1>3, <1>5
<1>7. /\ with \in Seq(Letters) /\ Len(with) = Len(buf) /\ with[i] = c
      /\ \A j \in 1..Len(buf) : j # i => with[j] = buf[j]
  BY <1>3, <1>5, <1>6
<1>8. PICK x : x = [s EXCEPT !.buf = with, !.size = i] OBVIOUS
<1>9. x.buf = with /\ x.size = i /\ x.big = s.big /\ x.cap = s.cap /\ DOMAIN x = DOMAIN s BY <1>4, <1>8
<1>10. PICK r : r = PutChar(w, c) OBVIOUS
<1>11. ~(i > Len(buf)) BY <1>6
<1>12. r = [w EXCEPT !.s = x]
  <2>1. r = [w EXCEPT !.s = [w.s EXCEPT !.buf = [w.s.buf EXCEPT ![i] = c], !.size = i]]
    BY <1>2, <1>5, <1>10, <1>11 DEF PutChar
  <2>2. x = [s EXCEPT !.buf = [s.buf EXCEPT ![i] = c], !.size = i] BY <1>2, <1>5, <1>8
  <2>3. PICK y : y = [w.s EXCEPT !.buf = [w.s.buf EXCEPT ![i] = c], !.size = i] OBVIOUS
  <2>4. y = x BY <1>2, <2>2, <2>3
  <2>5. r = [w EXCEPT !.s = y] BY <2>1, <2>3
  <2> QED BY <2>4, <2>5
<1>13. Way(r) /\ r.s = x /\ r.ev = w.ev /\ r.cut = w.cut BY <1>12 DEF Way
<1>14. Capacity(x) = Capacity(s) BY <1>9 DEF Capacity
<1>15. Says(x, Append(t, c))
  <2>1. t \in Seq(Letters) /\ n = Len(t) /\ \A j \in 1..Len(t) : buf[j] = t[j] BY <1>1, <1>2 DEF Says
  <2>2. PICK u : u = Append(t, c) OBVIOUS
  <2>3. u \in Seq(Letters) /\ Len(u) = i /\ u[i] = c /\ \A j \in 1..n : u[j] = t[j] BY <1>5, <2>1, <2>2
  <2>4. \A j \in 1..i : j = i \/ (j \in 1..n /\ j # i /\ j \in 1..Len(buf)) BY <1>3, <1>5
  <2>5. \A j \in 1..i : with[j] = u[j] BY <1>7, <2>1, <2>3, <2>4
  <2> QED BY <1>9, <2>2, <2>3, <2>5 DEF Says
<1>16. StrOK(x)
  <2>1. /\ s.big \in BOOLEAN /\ s.cap \in 0..CapLimit - 1 /\ Capacity(s) <= Len(buf)
        /\ ~s.big => Len(buf) = SmallCap
    BY <1>1, <1>2 DEF StrOK
  <2>2. i \in Nat /\ i <= Len(with) BY <1>3, <1>5, <1>6, <1>7
  <2> QED BY <1>4, <1>7, <1>9, <1>14, <2>1, <2>2 DEF StrOK
<1>17. IsCut(x) => IsCut(s) BY <1>2, <1>7, <1>9, <1>14 DEF IsCut
<1>18. Fine(r, Append(t, c)) BY <1>1, <1>2, <1>13, <1>15, <1>16, <1>17 DEF Fine
<1>19. Capacity(r.s) = Capacity(w.s) /\ Len(r.s.buf) = Len(w.s.buf) BY <1>2, <1>7, <1>9, <1>13, <1>14
<1> QED BY <1>10, <1>13, <1>18, <1>19

LEMMA PutFaulty ==
    ASSUME NEW w, Way(w), Faulty(w), NEW c
    PROVE  Way(PutChar(w, c)) /\ Faulty(PutChar(w, c))
<1>1. PICK r, i : r = PutChar(w, c) /\ i = w.s.size + 1 OBVIOUS
<1>2. CASE i > Len(w.s.buf)
  <2>1. r = [w EXCEPT !.ev = @ \cup {"outside"}] BY <1>1, <1>2 DEF PutChar, Also
  <2>2. Way(r) /\ r.ev = w.ev \cup {"outside"} /\ r.cut = w.cut BY <2>1 DEF Way
  <2> QED BY <1>1, <2>2 DEF Faulty
<1>3. CASE ~(i > Len(w.s.buf))
  <2>1. \E x : r = [w EXCEPT !.s = x] BY <1>1, <1>3 DEF PutChar
  <2>2. Way(r) /\ r.ev = w.ev /\ r.cut = w.cut BY <2>1 DEF Way
  <2> QED BY <1>1, <2>2 DEF Faulty
<1> QED BY <1>2, <1>3

\* What push_back does with and without the room it asked for.
LEMMA PushPuts ==
    ASSUME NEW w, NEW c, NEW ok, NEW r, EnsureFits(w, w.s.size + 1, ok) = <<r, TRUE>>
    PROVE  PushChar(w, c, ok) = PutChar(r, c)
<1>1. PICK fit : fit = EnsureFits(w, w.s.size + 1, ok) OBVIOUS
<1>2. fit[1] = r /\ fit[2] = TRUE
  <2>1. PICK yes : yes = TRUE OBVIOUS
  <2>2. fit = <<r, yes>> BY <1>1, <2>1
  <2>3. fit[1] = r /\ fit[2] = yes BY <2>2
  <2> QED BY <2>1, <2>3
<1>3. PushChar(w, c, ok) = IF fit[2] THEN PutChar(fit[1], c) ELSE w BY <1>1 DEF PushChar
<1>4. IF fit[2] THEN PutChar(fit[1], c) = PutChar(r, c) ELSE FALSE BY <1>2
<1> QED BY <1>3, <1>4

LEMMA PushRoom ==
    ASSUME Factor, NEW w, NEW t, Way(w), Fine(w, t), w.s.size + 1 <= Capacity(w.s), NEW c \in Letters, NEW ok
    PROVE  /\ Way(PushChar(w, c, ok)) /\ Fine(PushChar(w, c, ok), Append(t, c))
           /\ Capacity(PushChar(w, c, ok).s) = Capacity(w.s)
<1>1. EnsureFits(w, w.s.size + 1, ok) = <<w, TRUE>> BY FitsAlready
<1>2. PushChar(w, c, ok) = PutChar(w, c) BY <1>1, PushPuts
<1>3. w.s.size < Len(w.s.buf)
  <2>1. StrOK(w.s) BY DEF Fine
  <2>2. Capacity(w.s) \in Nat BY <2>1, CapacityNat
  <2>3. w.s.size \in Nat /\ w.s.buf \in Seq(Letters) /\ Capacity(w.s) <= Len(w.s.buf) BY <2>1 DEF StrOK
  <2> QED BY <2>2, <2>3
<1> QED BY <1>2, <1>3, PutFine

LEMMA PushNoRoom ==
    ASSUME NEW w, ~(w.s.size + 1 <= Capacity(w.s)), NEW c
    PROVE  PushChar(w, c, FALSE) = w
<1>1. EnsureFits(w, w.s.size + 1, FALSE) = <<w, FALSE>> BY FitsNot
<1>2. PICK fit : fit = EnsureFits(w, w.s.size + 1, FALSE) OBVIOUS
<1>3. fit[2] = FALSE
  <2>1. PICK no : no = FALSE OBVIOUS
  <2>2. fit = <<w, no>> BY <1>1, <1>2, <2>1
  <2>3. fit[2] = no BY <2>2
  <2> QED BY <2>1, <2>3
<1>4. PushChar(w, c, FALSE) = IF fit[2] THEN PutChar(fit[1], c) ELSE w BY <1>2 DEF PushChar
<1>5. IF fit[2] THEN FALSE ELSE TRUE BY <1>3
<1> QED BY <1>4, <1>5

LEMMA PushOk ==
    ASSUME Factor, NEW w, NEW t, Way(w), Fine(w, t), NEW c \in Letters
    PROVE  /\ Way(PushChar(w, c, TRUE))
           /\ Faulty(PushChar(w, c, TRUE)) \/ Fine(PushChar(w, c, TRUE), Append(t, c))
<1>1. CASE w.s.size + 1 <= Capacity(w.s) BY <1>1, PushRoom
<1>2. CASE ~(w.s.size + 1 <= Capacity(w.s))
  <2>1. PICK r : GrowsInto(w, r) /\ EnsureFits(w, w.s.size + 1, TRUE) = <<r, TRUE>> BY <1>2, FitsGrown
  <2>2. PushChar(w, c, TRUE) = PutChar(r, c) BY <2>1, PushPuts
  <2>3. Way(r) /\ (Faulty(r) \/ (Fine(r, t) /\ r.s.size < Len(r.s.buf))) BY <2>1, GrowFine
  <2>4. CASE Faulty(r) BY <2>2, <2>3, <2>4, PutFaulty
  <2>5. CASE Fine(r, t) /\ r.s.size < Len(r.s.buf) BY <2>2, <2>3, <2>5, PutFine
  <2> QED BY <2>3, <2>4, <2>5
<1> QED BY <1>1, <1>2

LEMMA PushFaulty ==
    ASSUME NEW w, Way(w), Faulty(w), NEW c, NEW ok \in BOOLEAN
    PROVE  Way(PushChar(w, c, ok)) /\ Faulty(PushChar(w, c, ok))
<1>1. CASE w.s.size + 1 <= Capacity(w.s)
  <2>1. EnsureFits(w, w.s.size + 1, ok) = <<w, TRUE>> BY <1>1, FitsAlready
  <2>2. PushChar(w, c, ok) = PutChar(w, c) BY <2>1, PushPuts
  <2> QED BY <2>2, PutFaulty
<1>2. CASE ~(w.s.size + 1 <= Capacity(w.s))
  <2>1. CASE ok = TRUE
    <3>1. PICK r : GrowsInto(w, r) /\ EnsureFits(w, w.s.size + 1, TRUE) = <<r, TRUE>> BY <1>2, FitsGrown
    <3>2. PushChar(w, c, ok) = PutChar(r, c) BY <2>1, <3>1, PushPuts
    <3>3. Way(r) /\ Faulty(r) BY <3>1, GrowFaulty
    <3> QED BY <3>2, <3>3, PutFaulty
  <2>2. CASE ok = FALSE
    <3>1. PushChar(w, c, FALSE) = w BY <1>2, PushNoRoom
    <3> QED BY <2>2, <3>1
  <2> QED BY <2>1, <2>2
<1> QED BY <1>1, <1>2

-----------------------------------------------------------------------------
(* The text pushed one character after the other.                          *)

Pushes(w, text, ok, n, g) ==
    g = [k \in 0..n |-> IF k = 0 THEN w ELSE PushChar(g[k - 1], text[k], ok)]

LEMMA PushesExists ==
    ASSUME NEW w, NEW text, NEW ok, NEW n \in Nat
    PROVE  \E g : Pushes(w, text, ok, n, g)
<1> DEFINE Bad == {m \in Nat : ~ \E g : Pushes(w, text, ok, m, g)}
<1> SUFFICES ASSUME Bad # {} PROVE FALSE OBVIOUS
<1>1. PICK m \in Bad : \A k \in Bad : m <= k BY LeastNumber
<1>2. m # 0
  <2>1. Pushes(w, text, ok, 0, [k \in 0..0 |-> w]) BY DEF Pushes
  <2> QED BY <2>1
<1>3. PICK g : Pushes(w, text, ok, m - 1, g) BY <1>1, <1>2
<1> DEFINE h == [k \in 0..m |-> IF k = m THEN PushChar(g[m - 1], text[m], ok) ELSE g[k]]
<1>4. \A k \in 0..m : h[k] = IF k = 0 THEN w ELSE PushChar(h[k - 1], text[k], ok)
  <2> SUFFICES ASSUME NEW k \in 0..m PROVE h[k] = IF k = 0 THEN w ELSE PushChar(h[k - 1], text[k], ok) OBVIOUS
  <2>1. m \in Nat BY <1>1
  <2>2. CASE k = m
    <3>1. h[k - 1] = g[m - 1] BY <1>2, <2>1, <2>2
    <3> QED BY <1>2, <2>1, <2>2, <3>1
  <2>3. CASE k # m
    <3>1. k \in 0..(m - 1) BY <2>1, <2>3
    <3>2. g[k] = IF k = 0 THEN w ELSE PushChar(g[k - 1], text[k], ok) BY <1>3, <3>1 DEF Pushes
    <3>3. k # 0 => h[k - 1] = g[k - 1] BY <2>1, <2>3
    <3>4. h[k] = g[k] BY <2>3
    <3> QED BY <3>2, <3>3, <3>4
  <2> QED BY <2>2, <2>3
<1>5. Pushes(w, text, ok, m, h) BY <1>4 DEF Pushes
<1> QED BY <1>1, <1>5

PushedBy(w, text, ok, g, r) ==
    /\ g[0] = w /\ r = g[Len(text)]
    /\ \A k \in 1..Len(text) : g[k] = PushChar(g[k - 1], text[k], ok)

LEMMA PushAllIs ==
    ASSUME NEW w, NEW text \in Seq(Letters), NEW ok
    PROVE  \E g : PushedBy(w, text, ok, g, PushAll(w, text, ok))
<1>1. PICK n : n = Len(text) OBVIOUS
<1>2. n \in Nat BY <1>1
<1>3. PICK g : g = CHOOSE h : Pushes(w, text, ok, n, h) OBVIOUS
<1>4. \E h : Pushes(w, text, ok, n, h) BY <1>2, PushesExists
<1>5. Pushes(w, text, ok, n, g) BY <1>3, <1>4
<1>6. PushAll(w, text, ok) = g[n] BY <1>1, <1>3 DEF PushAll, Pushes
<1>7. \A k \in 0..n : g[k] = IF k = 0 THEN w ELSE PushChar(g[k - 1], text[k], ok) BY <1>5 DEF Pushes
<1>8. g[0] = w BY <1>2, <1>7
<1>9. \A k \in 1..n : g[k] = PushChar(g[k - 1], text[k], ok) BY <1>2, <1>7
<1> QED BY <1>1, <1>6, <1>8, <1>9 DEF PushedBy

\* The text and the first k characters after it.
With(t, text, k) == t \o SubSeq(text, 1, k)

LEMMA WithIs ==
    ASSUME NEW t \in Seq(Letters), NEW text \in Seq(Letters)
    PROVE  /\ With(t, text, 0) = t /\ With(t, text, Len(text)) = t \o text
           /\ \A k \in 0..Len(text) : With(t, text, k) \in Seq(Letters) /\ Len(With(t, text, k)) = Len(t) + k
           /\ \A k \in 1..Len(text) : With(t, text, k) = Append(With(t, text, k - 1), text[k])
<1>1. With(t, text, 0) = t BY DEF With
<1>2. With(t, text, Len(text)) = t \o text BY DEF With
<1>3. \A k \in 0..Len(text) : With(t, text, k) \in Seq(Letters) /\ Len(With(t, text, k)) = Len(t) + k
  BY DEF With
<1>4. ASSUME NEW k \in 1..Len(text) PROVE With(t, text, k) = Append(With(t, text, k - 1), text[k])
  <2>1. PICK u, v : u = With(t, text, k) /\ v = With(t, text, k - 1) OBVIOUS
  <2>2. u \in Seq(Letters) /\ Len(u) = Len(t) + k /\ v \in Seq(Letters) /\ Len(v) = Len(t) + k - 1
    BY <1>3, <2>1
  <2>3. PICK z : z = Append(v, text[k]) OBVIOUS
  <2>4. z \in Seq(Letters) /\ Len(z) = Len(t) + k /\ z[Len(t) + k] = text[k] /\ \A i \in 1..Len(t) + k - 1 : z[i] = v[i]
    BY <2>2, <2>3
  <2>5. \A i \in 1..Len(t) + k : u[i] = IF i <= Len(t) THEN t[i] ELSE text[i - Len(t)] BY <2>1 DEF With
  <2>6. \A i \in 1..Len(t) + k - 1 : v[i] = IF i <= Len(t) THEN t[i] ELSE text[i - Len(t)] BY <2>1 DEF With
  <2>7. \A i \in 1..Len(t) + k : u[i] = z[i]
    <3> SUFFICES ASSUME NEW i \in 1..Len(t) + k PROVE u[i] = z[i] OBVIOUS
    <3>1. CASE i \in 1..Len(t) + k - 1
      <4>1. u[i] = v[i] BY <2>5, <2>6, <3>1
      <4> QED BY <2>4, <3>1, <4>1
    <3>2. CASE i = Len(t) + k
      <4>1. ~(i <= Len(t)) /\ i - Len(t) = k BY <3>2
      <4>2. u[i] = text[k] BY <2>5, <4>1
      <4> QED BY <2>4, <3>2, <4>2
    <3> QED BY <3>1, <3>2
  <2>8. u = z BY <2>2, <2>4, <2>7
  <2> QED BY <2>1, <2>3, <2>8
<1> QED BY <1>1, <1>2, <1>3, <1>4

LEMMA PushAllOk ==
    ASSUME Factor, NEW w, NEW t, Way(w), Faulty(w) \/ Fine(w, t), t \in Seq(Letters), NEW text \in Seq(Letters)
    PROVE  /\ Way(PushAll(w, text, TRUE))
           /\ Faulty(PushAll(w, text, TRUE)) \/ Fine(PushAll(w, text, TRUE), t \o text)
<1>11. PICK g : PushedBy(w, text, TRUE, g, PushAll(w, text, TRUE)) BY PushAllIs
<1>1. /\ g[0] = w /\ PushAll(w, text, TRUE) = g[Len(text)]
      /\ \A k \in 1..Len(text) : g[k] = PushChar(g[k - 1], text[k], TRUE)
  BY <1>11 DEF PushedBy
<1> DEFINE Good(k) == Way(g[k]) /\ (Faulty(g[k]) \/ Fine(g[k], With(t, text, k)))
<1> DEFINE Bad == {m \in Nat : m <= Len(text) /\ ~Good(m)}
<1>2. Bad = {}
  <2> SUFFICES ASSUME Bad # {} PROVE FALSE OBVIOUS
  <2>1. PICK m \in Bad : \A k \in Bad : m <= k BY LeastNumber
  <2>2. m # 0
    <3>1. With(t, text, 0) = t BY WithIs
    <3>2. Good(0) BY <1>1, <3>1
    <3> QED BY <2>1, <3>2
  <2>3. m \in 1..Len(text) /\ m - 1 \in Nat /\ m - 1 <= Len(text) /\ ~(m <= m - 1) BY <2>1, <2>2
  <2>4. Good(m - 1) BY <2>1, <2>3
  <2>5. g[m] = PushChar(g[m - 1], text[m], TRUE) BY <1>1, <2>3
  <2>6. PICK p, c, u : p = g[m - 1] /\ c = text[m] /\ u = With(t, text, m - 1) OBVIOUS
  <2>7. c \in Letters BY <2>3, <2>6
  <2>8. With(t, text, m) = Append(u, c) BY <2>3, <2>6, WithIs
  <2>9. Way(p) /\ (Faulty(p) \/ Fine(p, u)) BY <2>4, <2>6
  <2>10. Way(PushChar(p, c, TRUE)) /\ (Faulty(PushChar(p, c, TRUE)) \/ Fine(PushChar(p, c, TRUE), Append(u, c)))
    <3>1. CASE Faulty(p) BY <2>9, <3>1, PushFaulty
    <3>2. CASE Fine(p, u) BY <2>7, <2>9, <3>2, PushOk
    <3> QED BY <2>9, <3>1, <3>2
  <2>11. Good(m) BY <2>5, <2>6, <2>8, <2>10
  <2> QED BY <2>1, <2>11
<1>3. Good(Len(text)) BY <1>2
<1> QED BY <1>1, <1>3, WithIs

\* How many of the characters there is room for.
FitsIn(room, have, more) == IF have + more <= room THEN more ELSE room - have

LEMMA PushAllRoom ==
    ASSUME Factor, NEW w, NEW t, Way(w), Fine(w, t), NEW text \in Seq(Letters), NEW ok,
           NEW room \in Nat, Len(t) <= room, NEW n, n = FitsIn(room, Len(t), Len(text)),
           Capacity(w.s) <= room, Len(t) < room => Capacity(w.s) = room,
           n # Len(text) => ok = FALSE
    PROVE  /\ Way(PushAll(w, text, ok)) /\ Fine(PushAll(w, text, ok), With(t, text, n))
<1>11. PICK g : PushedBy(w, text, ok, g, PushAll(w, text, ok)) BY PushAllIs
<1>1. /\ g[0] = w /\ PushAll(w, text, ok) = g[Len(text)]
      /\ \A k \in 1..Len(text) : g[k] = PushChar(g[k - 1], text[k], ok)
  BY <1>11 DEF PushedBy
<1>2. t \in Seq(Letters) BY DEF Fine, Says
<1>3. PICK have, more, cap : have = Len(t) /\ more = Len(text) /\ cap = Capacity(w.s) OBVIOUS
<1>4. have \in Nat /\ more \in Nat /\ cap \in Nat
  <2>1. StrOK(w.s) BY DEF Fine
  <2> QED BY <1>2, <1>3, <2>1, CapacityNat
<1>5. n \in 0..more /\ have + n <= room /\ (n < more => have + n = room)
  BY <1>3, <1>4 DEF FitsIn
<1> DEFINE At(k) == IF k <= n THEN k ELSE n
<1> DEFINE Good(k) == Way(g[k]) /\ Fine(g[k], With(t, text, At(k))) /\ Capacity(g[k].s) = cap
<1> DEFINE Bad == {m \in Nat : m <= more /\ ~Good(m)}
<1>6. Bad = {}
  <2> SUFFICES ASSUME Bad # {} PROVE FALSE OBVIOUS
  <2>1. PICK m \in Bad : \A k \in Bad : m <= k BY LeastNumber
  <2>2. m # 0
    <3>1. At(0) = 0 BY <1>5
    <3>2. Good(0) BY <1>1, <1>2, <1>3, <3>1, WithIs
    <3> QED BY <2>1, <3>2
  <2>3. m \in 1..more /\ m - 1 \in Nat /\ m - 1 <= more /\ ~(m <= m - 1) BY <1>4, <2>1, <2>2
  <2>4. Good(m - 1) BY <2>1, <2>3
  <2>5. g[m] = PushChar(g[m - 1], text[m], ok) BY <1>1, <1>3, <2>3
  <2>6. PICK p, c, j, u : p = g[m - 1] /\ c = text[m] /\ j = At(m - 1) /\ u = With(t, text, j) OBVIOUS
  <2>7. c \in Letters BY <1>3, <2>3, <2>6
  <2>8. Way(p) /\ Fine(p, u) /\ Capacity(p.s) = cap BY <2>4, <2>6
  <2>9. j \in 0..more BY <1>5, <2>3, <2>6
  <2>10. Len(u) = have + j BY <1>2, <1>3, <2>6, <2>9, WithIs
  <2>11. p.s.size = have + j BY <2>8, <2>10 DEF Fine, Says
  <2>12. CASE m <= n
    <3>1. j = m - 1 /\ At(m) = m BY <1>5, <2>3, <2>6, <2>12
    <3>2. have < room BY <1>4, <1>5, <2>3, <2>12
    <3>3. cap = room BY <1>3, <3>2
    <3>4. p.s.size + 1 <= Capacity(p.s) BY <1>4, <1>5, <2>3, <2>8, <2>11, <2>12, <3>1, <3>3
    <3>5. /\ Way(PushChar(p, c, ok)) /\ Fine(PushChar(p, c, ok), Append(u, c))
          /\ Capacity(PushChar(p, c, ok).s) = Capacity(p.s)
      BY <2>7, <2>8, <3>4, PushRoom
    <3>8. m \in 1..Len(text) BY <1>3, <2>3
    <3>9. With(t, text, m) = Append(With(t, text, m - 1), text[m]) BY <1>2, <3>8, WithIs
    <3>6. With(t, text, m) = Append(u, c) BY <2>6, <3>1, <3>9
    <3>7. Good(m) BY <2>5, <2>6, <2>8, <3>1, <3>5, <3>6
    <3> QED BY <2>1, <3>7
  <2>13. CASE ~(m <= n)
    <3>1. j = n /\ At(m) = n BY <1>5, <2>3, <2>6, <2>13
    <3>2. n < more /\ n # more BY <1>4, <1>5, <2>3, <2>13
    <3>3. ok = FALSE BY <1>3, <3>2
    <3>4. have + n = room BY <1>5, <3>2
    <3>5. ~(p.s.size + 1 <= Capacity(p.s)) BY <1>3, <1>4, <1>5, <2>8, <2>11, <3>1, <3>4
    <3>6. PushChar(p, c, FALSE) = p BY <3>5, PushNoRoom
    <3>7. Good(m) BY <2>5, <2>6, <2>8, <3>1, <3>3, <3>6
    <3> QED BY <2>1, <3>7
  <2> QED BY <2>12, <2>13
<1>7. Good(more) BY <1>4, <1>6
<1>8. At(more) = n BY <1>4, <1>5
<1> QED BY <1>1, <1>3, <1>7, <1>8

-----------------------------------------------------------------------------
(* The strings.                                                            *)

\* Every string holds its text, and what went wrong is a known fault.
StringsInv ==
    /\ Factor
    /\ DOMAIN strs = Strs /\ DOMAIN strMeant = Strs
    /\ \A x \in Strs : StrOK(strs[x]) /\ Says(strs[x], strMeant[x])
    /\ \A e \in strLog : KnownFault(e)

\* What an operation ends with keeps the invariant.
Ending(op, w, right) ==
    /\ w.ev = {} => StrOK(w.s) /\ Says(w.s, right)
    /\ \A v \in w.ev : KnownFault(<<op, v, w.cut>>)

LEMMA EmptyStrIs ==
    StrOK(EmptyStr) /\ Says(EmptyStr, <<>>) /\ EmptyStr.big = FALSE /\ Len(EmptyStr.buf) = SmallCap
    /\ Capacity(EmptyStr) = SmallCap
<1>1. SmallCap \in Nat /\ Zero \in Letters /\ CapLimit \in Nat /\ CapLimit > 0 BY StringConstantsAre
<1>2. PICK no, buf : no = FALSE /\ buf = Zeroes(SmallCap) OBVIOUS
<1>3. buf \in Seq(Letters) /\ Len(buf) = SmallCap BY <1>1, <1>2 DEF Zeroes
<1>4. EmptyStr = [big |-> no, cap |-> 0, size |-> 0, buf |-> buf] BY <1>2 DEF EmptyStr
<1>5. /\ DOMAIN EmptyStr = {"big", "cap", "size", "buf"}
      /\ EmptyStr.big = no /\ EmptyStr.cap = 0 /\ EmptyStr.size = 0 /\ EmptyStr.buf = buf
  BY <1>4
<1>6. Capacity(EmptyStr) = SmallCap BY <1>2, <1>5 DEF Capacity
<1>7. EmptyStr.big \in BOOLEAN BY <1>2, <1>5
<1>8. StrOK(EmptyStr) BY <1>1, <1>3, <1>5, <1>6, <1>7 DEF StrOK
<1>9. Says(EmptyStr, <<>>) BY <1>5 DEF Says
<1> QED BY <1>2, <1>3, <1>5, <1>6, <1>8, <1>9

LEMMA EndsKeeps ==
    ASSUME StringsInv, NEW x \in Strs, NEW op, NEW w, NEW right, Ends(op, x, w, right), Ending(op, w, right)
    PROVE  StringsInv'
<1>1. PICK s, t : /\ s = IF w.ev = {} THEN w.s ELSE EmptyStr
                  /\ t = IF w.ev = {} THEN right ELSE <<>>
  OBVIOUS
<1>2. StrOK(s) /\ Says(s, t)
  <2>1. CASE w.ev = {} BY <1>1, <2>1 DEF Ending
  <2>2. CASE w.ev # {} BY <1>1, <2>2, EmptyStrIs
  <2> QED BY <2>1, <2>2
<1>3. /\ strLog' = {op} \X w.ev \X {w.cut} /\ capFactor' = capFactor
      /\ strs' = [strs EXCEPT ![x] = s] /\ strMeant' = [strMeant EXCEPT ![x] = t]
  BY <1>1 DEF Ends
<1>4. Factor' BY <1>3 DEF StringsInv, Factor
<1>5. DOMAIN strs' = Strs /\ DOMAIN strMeant' = Strs BY <1>3 DEF StringsInv
<1>6. ASSUME NEW y \in Strs PROVE StrOK(strs'[y]) /\ Says(strs'[y], strMeant'[y])
  <2>1. CASE y = x
    <3>1. strs'[y] = s /\ strMeant'[y] = t BY <1>3, <2>1 DEF StringsInv
    <3> QED BY <1>2, <3>1
  <2>2. CASE y # x
    <3>1. strs'[y] = strs[y] /\ strMeant'[y] = strMeant[y] BY <1>3, <2>2 DEF StringsInv
    <3> QED BY <3>1 DEF StringsInv
  <2> QED BY <2>1, <2>2
<1>7. \A y \in Strs : (StrOK(strs[y]) /\ Says(strs[y], strMeant[y]))'
  BY <1>3, <1>6 DEF StrOK, Capacity, Says
<1>8. ASSUME NEW e \in strLog' PROVE KnownFault(e)'
  <2>1. PICK v \in w.ev : e = <<op, v, w.cut>> BY <1>3
  <2>2. KnownFault(e) BY <2>1 DEF Ending
  <2> QED BY <1>3, <2>2 DEF KnownFault
<1> QED BY <1>4, <1>5, <1>7, <1>8 DEF StringsInv

Growing == {"push", "append", "insert", "assign"}

LEMMA EndsRight ==
    ASSUME NEW op, NEW w, NEW t, Fine(w, t)
    PROVE  Ending(op, w, t)
BY DEF Fine, Ending

LEMMA EndsWrong ==
    ASSUME NEW op \in Growing, NEW w, Faulty(w), NEW t
    PROVE  Ending(op, w, t)
<1>1. w.ev # {} BY DEF Faulty
<1>2. ASSUME NEW v \in w.ev PROVE KnownFault(<<op, v, w.cut>>)
  <2>1. PICK e, cut : e = <<op, v, cut>> /\ cut = w.cut OBVIOUS
  <2>2. e[1] = op /\ e[2] = v /\ e[3] = cut BY <2>1
  <2>3. e[1] \in {"push", "append", "insert", "assign"} BY <2>2 DEF Growing
  <2>4. e[2] \in {"wrong size", "outside"} BY <2>2 DEF Faulty
  <2>5. e[3] = TRUE BY <2>1, <2>2 DEF Faulty
  <2>6. KnownFault(e) BY <2>3, <2>4, <2>5 DEF KnownFault
  <2> QED BY <2>1, <2>6
<1> QED BY <1>1, <1>2 DEF Ending

\* An event that always happens, and is a known fault.
KnownEnd(op, what, cut) == KnownFault(<<op, what, cut>>)

LEMMA EndsNoted ==
    ASSUME NEW op, NEW w, NEW what, Way(w), w.ev = {}, NEW t, NEW r, r = [w EXCEPT !.ev = @ \cup {what}],
           KnownEnd(op, what, w.cut)
    PROVE  Ending(op, r, t)
<1>1. r.ev = {what} /\ r.cut = w.cut BY DEF Way
<1>2. KnownFault(<<op, what, r.cut>>) BY <1>1 DEF KnownEnd
<1> QED BY <1>1, <1>2 DEF Ending

LEMMA CutIs ==
    ASSUME NEW t \in Seq(Letters), NEW text \in Seq(Letters), NEW room \in Nat, Len(t) <= room,
           NEW n, n = FitsIn(room, Len(t), Len(text))
    PROVE  Cut(t \o text, room, FALSE) = With(t, text, n)
<1>1. PICK u : u = t \o text OBVIOUS
<1>2. u \in Seq(Letters) /\ Len(u) = Len(t) + Len(text) BY <1>1
<1>3. CASE Len(t) + Len(text) <= room
  <2>1. n = Len(text) BY <1>3 DEF FitsIn
  <2>4. With(t, text, Len(text)) = t \o text BY WithIs
  <2>2. With(t, text, n) = u BY <1>1, <2>1, <2>4
  <2>3. Cut(u, room, FALSE) = u BY <1>2, <1>3 DEF Cut
  <2> QED BY <1>1, <2>2, <2>3
<1>4. CASE ~(Len(t) + Len(text) <= room)
  <2>1. n = room - Len(t) BY <1>4 DEF FitsIn
  <2>2. n \in 0..Len(text) /\ room <= Len(u) /\ Len(t) + n = room BY <1>2, <1>4, <2>1
  <2>3. Cut(u, room, FALSE) = SubSeq(u, 1, room) BY <1>2, <1>4 DEF Cut
  <2>4. PICK a, b : a = SubSeq(u, 1, room) /\ b = With(t, text, n) OBVIOUS
  <2>5. a \in Seq(Letters) /\ Len(a) = room /\ \A i \in 1..room : a[i] = u[i] BY <1>2, <2>2, <2>4
  <2>6. b \in Seq(Letters) /\ Len(b) = room BY <2>2, <2>4, WithIs
  <2>7. \A i \in 1..room : b[i] = IF i <= Len(t) THEN t[i] ELSE text[i - Len(t)] BY <2>2, <2>4 DEF With
  <2>8. \A i \in 1..room : u[i] = IF i <= Len(t) THEN t[i] ELSE text[i - Len(t)] BY <1>1, <2>2
  <2>9. \A i \in 1..room : a[i] = b[i] BY <2>5, <2>7, <2>8
  <2>10. a = b BY <2>5, <2>6, <2>9
  <2> QED BY <1>1, <2>3, <2>4, <2>10
<1> QED BY <1>3, <1>4

LEMMA EndsOk ==
    ASSUME Factor, NEW w, NEW t \in Seq(Letters), Way(w), Faulty(w) \/ Fine(w, t), NEW text \in Seq(Letters),
           NEW op \in Growing, NEW room
    PROVE  Ending(op, PushAll(w, text, TRUE), Cut(t \o text, room, TRUE))
<1>1. PICK r : r = PushAll(w, text, TRUE) OBVIOUS
<1>2. Faulty(r) \/ Fine(r, t \o text) BY <1>1, PushAllOk
<1>3. Cut(t \o text, room, TRUE) = t \o text BY DEF Cut
<1> QED BY <1>1, <1>2, <1>3, EndsWrong, EndsRight

LEMMA EndsFull ==
    ASSUME Factor, NEW w, NEW t \in Seq(Letters), Way(w), Fine(w, t), NEW text \in Seq(Letters),
           NEW op, NEW room \in Nat, Len(t) <= room, Capacity(w.s) <= room, Len(t) < room => Capacity(w.s) = room
    PROVE  Ending(op, PushAll(w, text, FALSE), Cut(t \o text, room, FALSE))
<1>1. PICK n : n = FitsIn(room, Len(t), Len(text)) OBVIOUS
<1>2. PICK r : r = PushAll(w, text, FALSE) OBVIOUS
<1>3. Fine(r, With(t, text, n)) BY <1>1, <1>2, PushAllRoom
<1>4. Cut(t \o text, room, FALSE) = With(t, text, n) BY <1>1, CutIs
<1> QED BY <1>2, <1>3, <1>4, EndsRight

LEMMA FirstOf ==
    ASSUME NEW r, NEW report, NEW fit, fit = <<r, report>>
    PROVE  fit[1] = r
OBVIOUS

\* What there is after ensure_can_fit.
LEMMA EnsuredIs ==
    ASSUME Factor, NEW w, NEW t, Way(w), Fine(w, t), NEW n, NEW fit, fit = EnsureFits(w, n, TRUE)[1]
    PROVE  Way(fit) /\ (Faulty(fit) \/ Fine(fit, t))
<1>1. CASE n <= Capacity(w.s)
  <2>1. EnsureFits(w, n, TRUE) = <<w, TRUE>> BY <1>1, FitsAlready
  <2>2. fit = w BY <2>1, FirstOf
  <2> QED BY <2>2
<1>2. CASE ~(n <= Capacity(w.s))
  <2>1. PICK r : GrowsInto(w, r) /\ EnsureFits(w, n, TRUE) = <<r, TRUE>> BY <1>2, FitsGrown
  <2>2. fit = r BY <2>1, FirstOf
  <2> QED BY <2>1, <2>2, GrowFine
<1> QED BY <1>1, <1>2

LEMMA NotEnsuredIs ==
    ASSUME NEW w, NEW n
    PROVE  EnsureFits(w, n, FALSE)[1] = w
<1>1. CASE n <= Capacity(w.s)
  <2>1. EnsureFits(w, n, FALSE) = <<w, TRUE>> BY <1>1, FitsAlready
  <2> QED BY <2>1, FirstOf
<1>2. CASE ~(n <= Capacity(w.s))
  <2>1. EnsureFits(w, n, FALSE) = <<w, FALSE>> BY <1>2, FitsNot
  <2> QED BY <2>1, FirstOf
<1> QED BY <1>1, <1>2

\* The first block of a new string is a good one.
LEMMA FirstBlockIs ==
    ASSUME Factor, NEW n, ~(n <= SmallCap), NEW fit, fit = EnsureFits(Begun(EmptyStr), n, TRUE)[1]
    PROVE  Way(fit) /\ Fine(fit, <<>>) /\ Capacity(fit.s) = BigCap
<1>1. PICK b : b = Begun(EmptyStr) OBVIOUS
<1>2. Way(b) /\ Fine(b, <<>>) /\ b.s = EmptyStr BY <1>1, BegunIs, EmptyStrIs
<1>3. Capacity(b.s) = SmallCap BY <1>2, EmptyStrIs
<1>4. PICK r : GrowsInto(b, r) /\ EnsureFits(b, n, TRUE) = <<r, TRUE>> BY <1>3, FitsGrown
<1>5. fit = r BY <1>1, <1>4, FirstOf
<1>6. ~Misgiven(b, Capacity(b.s)) BY <1>2, EmptyStrIs DEF Misgiven
<1>7. Capacity(b.s) < BigCap BY <1>3, StringConstantsAre
<1> QED BY <1>2, <1>4, <1>5, <1>6, <1>7, GrowFine

LEMMA BegunHere ==
    ASSUME StringsInv, NEW x \in Strs, NEW b, b = Begun(strs[x])
    PROVE  /\ Factor /\ Way(b) /\ Fine(b, strMeant[x]) /\ b.s = strs[x] /\ b.ev = {}
           /\ StrOK(strs[x]) /\ Says(strs[x], strMeant[x]) /\ strMeant[x] \in Seq(Letters)
           /\ strs[x].size = Len(strMeant[x])
<1>1. Factor /\ StrOK(strs[x]) /\ Says(strs[x], strMeant[x]) BY DEF StringsInv
<1>2. strMeant[x] \in Seq(Letters) /\ strs[x].size = Len(strMeant[x]) BY <1>1 DEF Says
<1> QED BY <1>1, <1>2, BegunIs

\* The room there is without memory.
LEMMA RoomIs ==
    ASSUME StringsInv, NEW x \in Strs
    PROVE  /\ Room(x) \in Nat /\ Len(strMeant[x]) <= Room(x) /\ Capacity(strs[x]) <= Room(x)
           /\ Len(strMeant[x]) < Room(x) => Capacity(strs[x]) = Room(x)
<1>1. PICK b : b = Begun(strs[x]) OBVIOUS
<1>2. PICK cap, size : cap = Capacity(strs[x]) /\ size = strs[x].size OBVIOUS
<1>3. cap \in Nat /\ size \in Nat /\ size = Len(strMeant[x]) BY <1>1, <1>2, BegunHere, CapacityNat
<1>4. Room(x) = CHOOSE a \in {cap, size} : \A c \in {cap, size} : a >= c BY <1>2 DEF Room, Max
<1>5. \E a \in {cap, size} : \A c \in {cap, size} : a >= c BY <1>3
<1>6. Room(x) \in {cap, size} /\ \A c \in {cap, size} : Room(x) >= c BY <1>4, <1>5
<1> QED BY <1>2, <1>3, <1>6

-----------------------------------------------------------------------------
(* The operations.                                                         *)

LEMMA NewOfSizeKeeps ==
    ASSUME StringsInv, NEW x \in Strs, NEW n \in {SmallCap, BigCap}, NEW ok \in BOOLEAN, NewOfSize(x, n, ok)
    PROVE  StringsInv'
<1>1. PICK b, fit : b = Begun(EmptyStr) /\ fit = EnsureFits(b, n, ok)[1] OBVIOUS
<1>2. Factor BY DEF StringsInv
<1>3. Way(b) /\ Fine(b, <<>>) /\ b.s = EmptyStr /\ b.ev = {} BY <1>1, BegunIs, EmptyStrIs
<1>4. SmallCap \in Nat \ {0} /\ BigCap \in Nat /\ BigCap > SmallCap /\ Zero \in Letters BY StringConstantsAre
<1>5. CASE n <= SmallCap
  <2>1. PICK s, w : s = [EmptyStr EXCEPT !.size = n] /\ w = [b EXCEPT !.s = s] OBVIOUS
  <2>2. w = [b EXCEPT !.s.size = n] BY <1>3, <2>1
  <2>3. Ends("size", x, w, Zeroes(n)) BY <1>1, <1>5, <2>2 DEF NewOfSize
  <2>4. w.s = s BY <1>3, <2>1 DEF Way
  <2>5. s.size = n /\ s.big = EmptyStr.big /\ s.cap = EmptyStr.cap /\ s.buf = EmptyStr.buf /\ DOMAIN s = DOMAIN EmptyStr
    BY <2>1, EmptyStrIs DEF StrOK
  <2>6. n \in Nat BY <1>4
  <2>7. Capacity(s) = Capacity(EmptyStr) BY <2>5 DEF Capacity
  <2>8. StrOK(s) BY <1>5, <2>5, <2>6, <2>7, EmptyStrIs DEF StrOK
  <2>9. Zeroes(n) \in Seq(Letters) /\ Len(Zeroes(n)) = n BY <1>4, <2>6 DEF Zeroes
  <2>10. \A i \in 1..n : Zeroes(n)[i] = Zero BY DEF Zeroes
  <2>11. \A i \in 1..n : i \in 1..SmallCap BY <1>4, <1>5, <2>6
  <2>12. \A i \in 1..n : s.buf[i] = Zero BY <2>5, <2>11 DEF EmptyStr, Zeroes
  <2>13. Says(s, Zeroes(n)) BY <2>5, <2>9, <2>10, <2>12 DEF Says
  <2>14. w.ev = {} BY <1>3, <2>1 DEF Way
  <2>15. Ending("size", w, Zeroes(n)) BY <2>4, <2>8, <2>13, <2>14 DEF Ending
  <2> QED BY <2>3, <2>15, EndsKeeps
<1>6. CASE ~(n <= SmallCap)
  <2>1. Way(fit) /\ Fine(fit, <<>>)
    <3>1. CASE ok = TRUE BY <1>1, <1>2, <1>6, <3>1, FirstBlockIs
    <3>2. CASE ok = FALSE
      <4>1. fit = b BY <1>1, <3>2, NotEnsuredIs
      <4> QED BY <1>3, <4>1
    <3> QED BY <3>1, <3>2
  <2>2. fit.s.size = 0 /\ fit.ev = {} BY <2>1 DEF Fine, Says
  <2>3. fit.s.size # n BY <1>4, <1>6, <2>2
  <2>4. PICK w : w = [fit EXCEPT !.ev = @ \cup {"no size"}] OBVIOUS
  <2>5. Also(fit, fit.s.size # n, "no size") = w BY <2>3, <2>4 DEF Also
  <2>6. Ends("size", x, w, <<>>) BY <1>1, <1>6, <2>5 DEF NewOfSize
  <2>7. KnownEnd("size", "no size", fit.cut) BY DEF KnownEnd, KnownFault
  <2>8. Ending("size", w, <<>>) BY <2>1, <2>2, <2>4, <2>7, EndsNoted
  <2> QED BY <2>6, <2>8, EndsKeeps
<1> QED BY <1>5, <1>6

LEMMA NewOfTextKeeps ==
    ASSUME StringsInv, NEW x \in Strs, NEW text \in Texts2, NEW ok \in BOOLEAN, NewOfText(x, text, ok)
    PROVE  StringsInv'
<1>1. PICK b, fit : b = Begun(EmptyStr) /\ fit = EnsureFits(b, Len(text), ok)[1] OBVIOUS
<1>2. Factor BY DEF StringsInv
<1>3. Way(b) /\ Fine(b, <<>>) /\ b.s = EmptyStr /\ b.ev = {} BY <1>1, BegunIs, EmptyStrIs
<1>4. SmallCap \in Nat \ {0} /\ BigCap \in Nat /\ BigCap > SmallCap /\ Zero \in Letters BY StringConstantsAre
<1>5. text \in Seq(Letters) /\ Len(text) \in Nat /\ Len(text) <= SmallCap + 1
  <2>1. CASE text = Zeroes(SmallCap + 1)
    <3>1. text = [i \in 1..SmallCap + 1 |-> Zero] BY <2>1 DEF Zeroes
    <3>2. text \in Seq(Letters) /\ Len(text) = SmallCap + 1 BY <1>4, <3>1
    <3> QED BY <1>4, <3>2
  <2>2. CASE \E c \in Letters : text = <<c>>
    <3>1. PICK c \in Letters : text = <<c>> BY <2>2
    <3>2. text \in Seq(Letters) /\ Len(text) = 1 BY <3>1
    <3> QED BY <1>4, <3>2
  <2> QED BY <2>1, <2>2 DEF Texts2
<1>6. Ends("text", x, PushAll(fit, text, ok), Cut(text, SmallCap, ok)) BY <1>1 DEF NewOfText
<1>7. Capacity(b.s) = SmallCap BY <1>3, EmptyStrIs
<1>8. PICK none : none = <<>> OBVIOUS
<1>9. none \in Seq(Letters) /\ Len(none) = 0 /\ none \o text = text BY <1>5, <1>8
<1>10. Fine(PushAll(fit, text, ok), Cut(text, SmallCap, ok))
  <2>1. CASE Len(text) <= SmallCap
    <3>1. EnsureFits(b, Len(text), ok) = <<b, TRUE>> BY <1>7, <2>1, FitsAlready
    <3>2. fit = b BY <1>1, <3>1, FirstOf
    <3>3. PICK n : n = FitsIn(SmallCap, Len(none), Len(text)) OBVIOUS
    <3>4. n = Len(text) BY <1>5, <1>9, <2>1, <3>3 DEF FitsIn
    <3>5. Len(none) <= SmallCap /\ (Len(none) < SmallCap => Capacity(b.s) = SmallCap) /\ Capacity(b.s) <= SmallCap
      BY <1>4, <1>7, <1>9
    <3>6. Fine(PushAll(b, text, ok), With(none, text, n)) BY <1>2, <1>3, <1>4, <1>5, <1>8, <3>3, <3>4, <3>5, PushAllRoom
    <3>7. With(none, text, n) = text BY <1>5, <1>9, <3>4, WithIs
    <3>8. Cut(text, SmallCap, ok) = text BY <2>1 DEF Cut
    <3> QED BY <3>2, <3>6, <3>7, <3>8
  <2>2. CASE ~(Len(text) <= SmallCap) /\ ok = FALSE
    <3>1. fit = b BY <1>1, <2>2, NotEnsuredIs
    <3>3. PICK n : n = FitsIn(SmallCap, Len(none), Len(text)) OBVIOUS
    <3>5. Len(none) <= SmallCap /\ (Len(none) < SmallCap => Capacity(b.s) = SmallCap) /\ Capacity(b.s) <= SmallCap
      BY <1>4, <1>7, <1>9
    <3>6. Fine(PushAll(b, text, ok), With(none, text, n)) BY <1>2, <1>3, <1>4, <1>5, <1>8, <2>2, <3>3, <3>5, PushAllRoom
    <3>7. Cut(none \o text, SmallCap, FALSE) = With(none, text, n) BY <1>4, <1>5, <1>9, <3>3, <3>5, CutIs
    <3> QED BY <1>9, <2>2, <3>1, <3>6, <3>7
  <2>3. CASE ~(Len(text) <= SmallCap) /\ ok = TRUE
    <3>1. Way(fit) /\ Fine(fit, <<>>) /\ Capacity(fit.s) = BigCap BY <1>1, <1>2, <2>3, FirstBlockIs
    <3>3. PICK n : n = FitsIn(BigCap, Len(none), Len(text)) OBVIOUS
    <3>2. Len(none) + Len(text) <= BigCap BY <1>4, <1>5, <1>9
    <3>4. n = Len(text) BY <3>2, <3>3 DEF FitsIn
    <3>5. Len(none) <= BigCap /\ (Len(none) < BigCap => Capacity(fit.s) = BigCap) /\ Capacity(fit.s) <= BigCap
      BY <1>4, <1>9, <3>1
    <3>6. Fine(PushAll(fit, text, ok), With(none, text, n)) BY <1>2, <1>4, <1>5, <1>8, <3>1, <3>3, <3>4, <3>5, PushAllRoom
    <3>7. With(none, text, n) = text BY <1>5, <1>9, <3>4, WithIs
    <3>8. Cut(text, SmallCap, ok) = text BY <2>3 DEF Cut
    <3> QED BY <3>6, <3>7, <3>8
  <2> QED BY <2>1, <2>2, <2>3
<1>11. Ending("text", PushAll(fit, text, ok), Cut(text, SmallCap, ok)) BY <1>10, EndsRight
<1> QED BY <1>6, <1>11, EndsKeeps

\* A copy of y, with the event if it is one that the copy shares.
LEMMA SharedEnds ==
    ASSUME StringsInv, NEW y \in Strs, NEW op \in {"copy", "assign"}, NEW w,
           w = Also(Begun(strs[y]), strs[y].big, "shared")
    PROVE  Ending(op, w, strMeant[y])
<1>1. PICK b : b = Begun(strs[y]) OBVIOUS
<1>2. Way(b) /\ Fine(b, strMeant[y]) /\ b.ev = {} BY <1>1, BegunHere
<1>3. CASE strs[y].big
  <2>1. w = [b EXCEPT !.ev = @ \cup {"shared"}] BY <1>1, <1>3 DEF Also
  <2>2. KnownEnd(op, "shared", b.cut)
    <3>1. CASE op = "copy" BY <3>1 DEF KnownEnd, KnownFault
    <3>2. CASE op = "assign" BY <3>2 DEF KnownEnd, KnownFault
    <3> QED BY <3>1, <3>2
  <2> QED BY <1>2, <2>1, <2>2, EndsNoted
<1>4. CASE ~strs[y].big
  <2>1. w = b BY <1>1, <1>4 DEF Also
  <2> QED BY <1>2, <2>1, EndsRight
<1> QED BY <1>3, <1>4

LEMMA NewCopyStrKeeps ==
    ASSUME StringsInv, NEW x \in Strs, NEW y \in Strs, NEW readsBig \in BOOLEAN, NewCopyStr(x, y, readsBig)
    PROVE  StringsInv'
<1>1. PICK b : b = Begun(strs[y]) OBVIOUS
<1>2. Way(b) /\ Fine(b, strMeant[y]) /\ b.ev = {} BY <1>1, BegunHere
<1>3. PICK w : w = Also(Also(b, readsBig, "garbage"), ~readsBig /\ strs[y].big, "shared") OBVIOUS
<1>4. Ends("copy", x, w, strMeant[y]) BY <1>1, <1>3 DEF NewCopyStr
<1>5. CASE readsBig = TRUE
  <2>1. w = Also(b, readsBig, "garbage") BY <1>3, <1>5 DEF Also
  <2>2. w = [b EXCEPT !.ev = @ \cup {"garbage"}] BY <1>5, <2>1 DEF Also
  <2>3. KnownEnd("copy", "garbage", b.cut) BY DEF KnownEnd, KnownFault
  <2>4. Ending("copy", w, strMeant[y]) BY <1>2, <2>2, <2>3, EndsNoted
  <2> QED BY <1>4, <2>4, EndsKeeps
<1>6. CASE readsBig = FALSE
  <2>1. w = Also(b, strs[y].big, "shared") BY <1>3, <1>6 DEF Also
  <2>2. Ending("copy", w, strMeant[y]) BY <1>1, <2>1, SharedEnds
  <2> QED BY <1>4, <2>2, EndsKeeps
<1> QED BY <1>5, <1>6

LEMMA CopyAssignStrKeeps ==
    ASSUME StringsInv, NEW x \in Strs, NEW y \in Strs, NEW ok \in BOOLEAN, CopyAssignStr(x, y, ok)
    PROVE  StringsInv'
<1>1. PICK b : b = Begun(strs[x]) OBVIOUS
<1>2. /\ Factor /\ Way(b) /\ Fine(b, strMeant[x]) /\ b.s = strs[x] /\ b.ev = {} /\ StrOK(strs[x])
  BY <1>1, BegunHere
<1>3. CASE ~strs[x].big
  <2>1. PICK w : w = Also(Begun(strs[y]), strs[y].big, "shared") OBVIOUS
  <2>2. Ends("assign", x, w, strMeant[y]) BY <1>3, <2>1 DEF CopyAssignStr
  <2>3. Ending("assign", w, strMeant[y]) BY <2>1, SharedEnds
  <2> QED BY <2>2, <2>3, EndsKeeps
<1>4. CASE strs[x].big
  <2>1. PICK fit, empty, cleared : /\ fit = EnsureFits(b, strs[y].size, ok)[1]
                                   /\ empty = [fit.s EXCEPT !.size = 0]
                                   /\ cleared = [fit EXCEPT !.s = empty]
    OBVIOUS
  <2>2. cleared = [fit EXCEPT !.s.size = 0] BY <2>1
  <2>3. PICK text : text = strMeant[y] OBVIOUS
  <2>4. text \in Seq(Letters) /\ Text(strs[y]) = text BY <2>3, BegunHere, SaysIs
  <2>5. PICK cap : cap = Capacity(strs[x]) OBVIOUS
  <2>6. Ends("assign", x, PushAll(cleared, text, ok), Cut(text, cap, ok))
    BY <1>1, <1>4, <2>1, <2>2, <2>3, <2>4, <2>5 DEF CopyAssignStr
  <2>7. cap \in Nat BY <1>2, <2>5, CapacityNat
  <2>8. Way(fit) /\ (Faulty(fit) \/ Fine(fit, strMeant[x])) /\ (ok = FALSE => fit = b)
    <3>1. CASE ok = TRUE BY <1>2, <2>1, <3>1, EnsuredIs
    <3>2. CASE ok = FALSE
      <4>1. fit = b BY <2>1, <3>2, NotEnsuredIs
      <4> QED BY <1>2, <4>1
    <3> QED BY <3>1, <3>2
  <2>9. Way(cleared) /\ cleared.s = empty /\ cleared.ev = fit.ev /\ cleared.cut = fit.cut BY <2>1, <2>8 DEF Way
  <2>10. Fine(fit, strMeant[x]) => Fine(cleared, <<>>) /\ Capacity(cleared.s) = Capacity(fit.s)
    <3> SUFFICES ASSUME Fine(fit, strMeant[x]) PROVE Fine(cleared, <<>>) /\ Capacity(cleared.s) = Capacity(fit.s)
      OBVIOUS
    <3>1. StrOK(fit.s) /\ (IsCut(fit.s) => fit.cut = TRUE) /\ fit.ev = {} BY DEF Fine
    <3>2. DOMAIN fit.s = {"big", "cap", "size", "buf"} BY <3>1 DEF StrOK
    <3>3. /\ DOMAIN empty = DOMAIN fit.s /\ empty.big = fit.s.big /\ empty.cap = fit.s.cap /\ empty.size = 0
          /\ empty.buf = fit.s.buf
      BY <2>1, <3>2
    <3>4. Capacity(empty) = Capacity(fit.s) BY <3>3 DEF Capacity
    <3>5. IsCut(empty) => IsCut(fit.s) BY <3>3, <3>4 DEF IsCut
    <3>6. 0 <= Len(empty.buf)
      <4>1. empty.buf \in Seq(Letters) BY <3>1, <3>3 DEF StrOK
      <4> QED BY <4>1
    <3>7. StrOK(empty) BY <3>1, <3>3, <3>4, <3>6 DEF StrOK
    <3>8. Says(empty, <<>>) BY <3>3 DEF Says
    <3> QED BY <2>9, <3>1, <3>4, <3>5, <3>7, <3>8 DEF Fine
  <2>11. Faulty(fit) => Faulty(cleared) BY <2>9 DEF Faulty
  <2>12. PICK none : none = <<>> OBVIOUS
  <2>13. none \in Seq(Letters) /\ Len(none) = 0 /\ none \o text = text BY <2>4, <2>12
  <2>14. "assign" \in Growing BY DEF Growing
  <2>15. Ending("assign", PushAll(cleared, text, ok), Cut(text, cap, ok))
    <3>1. CASE ok = TRUE
      <4>1. Way(cleared) /\ (Faulty(cleared) \/ Fine(cleared, none)) BY <2>8, <2>9, <2>10, <2>11, <2>12
      <4>2. Ending("assign", PushAll(cleared, text, TRUE), Cut(none \o text, cap, TRUE))
        BY <1>2, <2>4, <2>13, <2>14, <4>1, EndsOk
      <4> QED BY <2>13, <3>1, <4>2
    <3>2. CASE ok = FALSE
      <4>1. fit = b BY <2>8, <3>2
      <4>2. Fine(cleared, none) /\ Capacity(cleared.s) = cap BY <1>2, <2>5, <2>10, <2>12, <4>1
      <4>3. Len(none) <= cap /\ Capacity(cleared.s) <= cap /\ (Len(none) < cap => Capacity(cleared.s) = cap)
        BY <2>7, <2>13, <4>2
      <4>4. Ending("assign", PushAll(cleared, text, FALSE), Cut(none \o text, cap, FALSE))
        BY <1>2, <2>4, <2>7, <2>9, <2>13, <4>2, <4>3, EndsFull
      <4> QED BY <2>13, <3>2, <4>4
    <3> QED BY <3>1, <3>2
  <2> QED BY <2>6, <2>15, EndsKeeps
<1> QED BY <1>3, <1>4

LEMMA MoveAssignStrKeeps ==
    ASSUME StringsInv, NEW x \in Strs, NEW y \in Strs, MoveAssignStr(x, y)
    PROVE  StringsInv'
<1>1. PICK b : b = Begun(strs[x]) OBVIOUS
<1>2. Way(b) /\ b.ev = {} BY <1>1, BegunHere
<1>3. PICK w : w = [b EXCEPT !.ev = @ \cup {"no return"}] OBVIOUS
<1>4. Also(b, TRUE, "no return") = w BY <1>3 DEF Also
<1>5. Ends("move assign", x, w, <<>>) BY <1>1, <1>4 DEF MoveAssignStr
<1>6. KnownEnd("move assign", "no return", b.cut) BY DEF KnownEnd, KnownFault
<1>7. Ending("move assign", w, <<>>) BY <1>2, <1>3, <1>6, EndsNoted
<1> QED BY <1>5, <1>7, EndsKeeps

LEMMA NewMoveStrKeeps ==
    ASSUME StringsInv, NEW x \in Strs, NEW y \in Strs, NewMoveStr(x, y)
    PROVE  StringsInv'
<1>1. /\ strs' = [strs EXCEPT ![x] = strs[y], ![y] = EmptyStr]
      /\ strMeant' = [strMeant EXCEPT ![x] = strMeant[y], ![y] = <<>>]
      /\ capFactor' = capFactor /\ strLog' = strLog
  BY DEF NewMoveStr
<1>2. Factor' BY <1>1 DEF StringsInv, Factor
<1>3. DOMAIN strs' = Strs /\ DOMAIN strMeant' = Strs BY <1>1 DEF StringsInv
<1>4. ASSUME NEW z \in Strs PROVE StrOK(strs'[z]) /\ Says(strs'[z], strMeant'[z])
  <2>1. CASE z = y
    <3>1. strs'[z] = EmptyStr /\ strMeant'[z] = <<>> BY <1>1, <2>1 DEF StringsInv
    <3> QED BY <3>1, EmptyStrIs
  <2>2. CASE z # y /\ z = x
    <3>1. strs'[z] = strs[y] /\ strMeant'[z] = strMeant[y] BY <1>1, <2>2 DEF StringsInv
    <3> QED BY <3>1 DEF StringsInv
  <2>3. CASE z # y /\ z # x
    <3>1. strs'[z] = strs[z] /\ strMeant'[z] = strMeant[z] BY <1>1, <2>3 DEF StringsInv
    <3> QED BY <3>1 DEF StringsInv
  <2> QED BY <2>1, <2>2, <2>3
<1>5. \A z \in Strs : (StrOK(strs[z]) /\ Says(strs[z], strMeant[z]))'
  BY <1>1, <1>4 DEF StrOK, Capacity, Says
<1>6. \A e \in strLog' : KnownFault(e)' BY <1>1 DEF StringsInv, KnownFault
<1> QED BY <1>2, <1>3, <1>5, <1>6 DEF StringsInv

LEMMA DeleteStrKeeps ==
    ASSUME StringsInv, NEW x \in Strs, DeleteStr(x)
    PROVE  StringsInv'
<1>1. PICK b, freed, w : /\ b = Begun(strs[x]) /\ freed = FreeBlock(b, strs[x].cap)
                         /\ w = [freed EXCEPT !.s = EmptyStr]
  OBVIOUS
<1>2. /\ Factor /\ Way(b) /\ b.s = strs[x] /\ b.ev = {} /\ StrOK(strs[x]) /\ Fine(b, strMeant[x])
  BY <1>1, BegunHere
<1>3. Ends("delete", x, w, <<>>) BY <1>1 DEF DeleteStr
<1>4. /\ Way(freed) /\ freed.cut = b.cut
      /\ Misgiven(b, strs[x].cap) => freed.ev = b.ev \cup {"wrong size"}
      /\ ~Misgiven(b, strs[x].cap) => freed = b
  <2>1. PICK size : size = strs[x].cap OBVIOUS
  <2>2. Way(b) /\ freed = FreeBlock(b, size) BY <1>1, <1>2, <2>1
  <2>3. /\ Way(freed) /\ freed.cut = b.cut
        /\ Misgiven(b, size) => freed.ev = b.ev \cup {"wrong size"}
        /\ ~Misgiven(b, size) => freed = b
    BY ONLY <2>2, FreeBlockIs
  <2> QED BY <2>1, <2>3
<1>5. w.s = EmptyStr /\ w.ev = freed.ev /\ w.cut = freed.cut BY <1>1, <1>4 DEF Way
<1>6. CASE Misgiven(b, strs[x].cap)
  <2>1. w.ev = {"wrong size"} /\ w.cut = b.cut BY <1>2, <1>4, <1>5, <1>6
  <2>2. strs[x].big /\ strs[x].cap # Len(strs[x].buf) BY <1>2, <1>6 DEF Misgiven
  <2>3. capFactor = 2 \/ b.cut = TRUE
    <3>1. CASE capFactor = 1
      <4>1. Capacity(strs[x]) = strs[x].cap * 1 BY <2>2, <3>1 DEF Capacity
      <4>2. PICK cap, n : cap = strs[x].cap /\ n = Len(strs[x].buf) OBVIOUS
      <4>3. cap \in Nat /\ n \in Nat /\ cap * 1 <= n /\ cap # n
        <5>1. CapLimit \in Nat BY StringConstantsAre
        <5>2. cap \in Nat /\ strs[x].buf \in Seq(Letters) BY <1>2, <4>2, <5>1 DEF StrOK
        <5>3. Capacity(strs[x]) <= n BY <1>2, <4>2 DEF StrOK
        <5> QED BY <2>2, <4>1, <4>2, <5>2, <5>3
      <4>4. cap * 1 < n BY <4>3
      <4>5. IsCut(strs[x]) BY <4>1, <4>2, <4>4 DEF IsCut
      <4> QED BY <1>2, <4>5 DEF Fine
    <3> QED BY <1>2, <3>1 DEF Factor
  <2>4. KnownFault(<<"delete", "wrong size", w.cut>>)
    <3>1. PICK e, cut, op, v : e = <<op, v, cut>> /\ cut = w.cut /\ op = "delete" /\ v = "wrong size" OBVIOUS
    <3>2. e[1] = op /\ e[2] = v /\ e[3] = cut BY <3>1
    <3>3. capFactor = 2 \/ e[3] = TRUE BY <2>1, <2>3, <3>1, <3>2
    <3>4. KnownFault(e) BY <3>1, <3>2, <3>3 DEF KnownFault
    <3> QED BY <3>1, <3>4
  <2>5. Ending("delete", w, <<>>) BY <2>1, <2>4 DEF Ending
  <2> QED BY <1>3, <2>5, EndsKeeps
<1>7. CASE ~Misgiven(b, strs[x].cap)
  <2>1. w.ev = {} BY <1>2, <1>4, <1>5, <1>7
  <2>2. Ending("delete", w, <<>>) BY <1>5, <2>1, EmptyStrIs DEF Ending
  <2> QED BY <1>3, <2>2, EndsKeeps
<1> QED BY <1>6, <1>7

LEMMA PushStrKeeps ==
    ASSUME StringsInv, NEW x \in Strs, NEW c \in Letters, NEW ok \in BOOLEAN, PushStr(x, c, ok)
    PROVE  StringsInv'
<1>1. PICK b, w, t : b = Begun(strs[x]) /\ w = PushChar(b, c, ok) /\ t = strMeant[x] OBVIOUS
<1>2. /\ Factor /\ Way(b) /\ Fine(b, t) /\ b.s = strs[x] /\ t \in Seq(Letters) /\ strs[x].size = Len(t)
  BY <1>1, BegunHere
<1>3. PICK room : room = Room(x) OBVIOUS
<1>4. /\ room \in Nat /\ Len(t) <= room /\ Capacity(strs[x]) <= room
      /\ Len(t) < room => Capacity(strs[x]) = room
  BY <1>1, <1>3, RoomIs
<1>5. Ends("push", x, w, Cut(Append(t, c), room, ok)) BY <1>1, <1>3 DEF PushStr
<1>6. "push" \in Growing BY DEF Growing
<1>7. CASE ok = TRUE
  <2>1. Cut(Append(t, c), room, ok) = Append(t, c) BY <1>7 DEF Cut
  <2>2. Faulty(w) \/ Fine(w, Append(t, c)) BY <1>1, <1>2, <1>7, PushOk
  <2>3. Ending("push", w, Append(t, c)) BY <1>6, <2>2, EndsWrong, EndsRight
  <2> QED BY <1>5, <2>1, <2>3, EndsKeeps
<1>8. CASE ok = FALSE /\ b.s.size + 1 <= Capacity(b.s)
  <2>1. Fine(w, Append(t, c)) BY <1>1, <1>2, <1>8, PushRoom
  <2>2. Len(Append(t, c)) <= room
    <3>1. Len(t) + 1 <= Capacity(strs[x]) /\ Capacity(strs[x]) \in Nat BY <1>2, <1>8, CapacityNat DEF Fine
    <3>2. Len(Append(t, c)) = Len(t) + 1 BY <1>2
    <3> QED BY <1>2, <1>4, <3>1, <3>2
  <2>3. Cut(Append(t, c), room, ok) = Append(t, c) BY <2>2 DEF Cut
  <2>4. Ending("push", w, Append(t, c)) BY <2>1, EndsRight
  <2> QED BY <1>5, <2>3, <2>4, EndsKeeps
<1>9. CASE ok = FALSE /\ ~(b.s.size + 1 <= Capacity(b.s))
  <2>1. w = b BY <1>1, <1>9, PushNoRoom
  <2>2. room = Len(t)
    <3>1. ~(Len(t) + 1 <= Capacity(strs[x])) /\ Capacity(strs[x]) \in Nat BY <1>2, <1>9, CapacityNat DEF Fine
    <3> QED BY <1>2, <1>4, <3>1
  <2>3. PICK u : u = Append(t, c) OBVIOUS
  <2>4. u \in Seq(Letters) /\ Len(u) = Len(t) + 1 /\ \A i \in 1..Len(t) : u[i] = t[i] BY <1>2, <2>3
  <2>5. Cut(u, room, ok) = SubSeq(u, 1, room) BY <1>2, <1>9, <2>2, <2>4 DEF Cut
  <2>6. PICK a : a = SubSeq(u, 1, room) OBVIOUS
  <2>7. a \in Seq(Letters) /\ Len(a) = Len(t) /\ \A i \in 1..Len(t) : a[i] = t[i] BY <1>2, <2>2, <2>4, <2>6
  <2>8. a = t BY <1>2, <2>7
  <2>9. Ending("push", w, t) BY <1>2, <2>1, EndsRight
  <2> QED BY <1>5, <2>3, <2>5, <2>6, <2>8, <2>9, EndsKeeps
<1> QED BY <1>7, <1>8, <1>9

LEMMA PopStrKeeps ==
    ASSUME StringsInv, NEW x \in Strs, PopStr(x)
    PROVE  StringsInv'
<1>1. PICK b, t : b = Begun(strs[x]) /\ t = strMeant[x] OBVIOUS
<1>2. /\ Way(b) /\ b.s = strs[x] /\ b.ev = {} /\ t \in Seq(Letters) /\ strs[x].size = Len(t)
      /\ StrOK(strs[x]) /\ Says(strs[x], t)
  BY <1>1, BegunHere
<1>3. CASE strs[x].size = 0
  <2>1. PICK w : w = [b EXCEPT !.ev = @ \cup {"panic"}] OBVIOUS
  <2>2. Also(b, TRUE, "panic") = w BY <2>1 DEF Also
  <2>3. Ends("pop", x, w, <<>>) BY <1>1, <1>3, <2>2 DEF PopStr
  <2>4. KnownEnd("pop", "panic", b.cut) BY DEF KnownEnd, KnownFault
  <2>5. Ending("pop", w, <<>>) BY <1>2, <2>1, <2>4, EndsNoted
  <2> QED BY <2>3, <2>5, EndsKeeps
<1>4. CASE strs[x].size # 0
  <2>1. PICK s, w, n : n = b.s.size - 1 /\ s = [b.s EXCEPT !.size = n] /\ w = [b EXCEPT !.s = s] OBVIOUS
  <2>2. w = [b EXCEPT !.s.size = @ - 1] BY <2>1
  <2>3. Ends("pop", x, w, Front(t)) BY <1>1, <1>4, <2>2 DEF PopStr
  <2>4. w.s = s /\ w.ev = {} BY <1>2, <2>1 DEF Way
  <2>5. /\ DOMAIN s = DOMAIN strs[x] /\ s.size = n /\ s.big = strs[x].big /\ s.cap = strs[x].cap
        /\ s.buf = strs[x].buf
    BY <1>2, <2>1 DEF StrOK
  <2>6. n = Len(t) - 1 /\ n \in Nat BY <1>2, <1>4, <2>1
  <2>7. Capacity(s) = Capacity(strs[x]) BY <2>5 DEF Capacity
  <2>8. n <= Len(s.buf)
    <3>1. strs[x].buf \in Seq(Letters) /\ strs[x].size <= Len(strs[x].buf) BY <1>2 DEF StrOK
    <3> QED BY <1>2, <2>5, <2>6, <3>1
  <2>9. StrOK(s) BY <1>2, <2>5, <2>6, <2>7, <2>8 DEF StrOK
  <2>10. PICK u : u = Front(t) OBVIOUS
  <2>11. u \in Seq(Letters) /\ Len(u) = n /\ \A i \in 1..n : u[i] = t[i] BY <1>2, <2>6, <2>10 DEF Front
  <2>12. \A i \in 1..n : s.buf[i] = t[i] BY <1>2, <2>5, <2>6 DEF Says
  <2>13. Says(s, u) BY <2>5, <2>11, <2>12 DEF Says
  <2>14. Ending("pop", w, u) BY <2>4, <2>9, <2>13 DEF Ending
  <2> QED BY <2>3, <2>10, <2>14, EndsKeeps
<1> QED BY <1>3, <1>4

LEMMA AppendStrKeeps ==
    ASSUME StringsInv, NEW x \in Strs, NEW text \in Seq(Letters), NEW ok \in BOOLEAN, AppendStr(x, text, ok)
    PROVE  StringsInv'
<1>1. PICK b, n, fit, t, room : /\ b = Begun(strs[x]) /\ n = Capacity(strs[x]) + Len(text)
                                /\ fit = EnsureFits(b, n, ok)[1] /\ t = strMeant[x] /\ room = Room(x)
  OBVIOUS
<1>2. /\ Factor /\ Way(b) /\ Fine(b, t) /\ b.s = strs[x] /\ t \in Seq(Letters) BY <1>1, BegunHere
<1>3. /\ room \in Nat /\ Len(t) <= room /\ Capacity(strs[x]) <= room
      /\ Len(t) < room => Capacity(strs[x]) = room
  BY <1>1, RoomIs
<1>4. Ends("append", x, PushAll(fit, text, ok), Cut(t \o text, room, ok)) BY <1>1 DEF AppendStr
<1>5. "append" \in Growing BY DEF Growing
<1>6. CASE ok = TRUE
  <2>1. Way(fit) /\ (Faulty(fit) \/ Fine(fit, t)) BY <1>1, <1>2, <1>6, EnsuredIs
  <2>2. Ending("append", PushAll(fit, text, TRUE), Cut(t \o text, room, TRUE)) BY <1>2, <1>5, <2>1, EndsOk
  <2> QED BY <1>4, <1>6, <2>2, EndsKeeps
<1>7. CASE ok = FALSE
  <2>1. fit = b BY <1>1, <1>7, NotEnsuredIs
  <2>2. Ending("append", PushAll(fit, text, FALSE), Cut(t \o text, room, FALSE))
    BY <1>2, <1>3, <2>1, EndsFull
  <2> QED BY <1>4, <1>7, <2>2, EndsKeeps
<1> QED BY <1>6, <1>7

LEMMA JoinIs ==
    ASSUME NEW a \in Seq(Letters), NEW z \in Seq(Letters), NEW u, u = a \o z
    PROVE  /\ u \in Seq(Letters) /\ Len(u) = Len(a) + Len(z)
           /\ \A j \in 1..Len(a) : u[j] = a[j]
           /\ \A j \in 1..Len(z) : u[Len(a) + j] = z[j]
OBVIOUS

LEMMA LetterInserted ==
    ASSUME NEW t \in Seq(Letters), NEW i \in 1..Len(t), NEW c \in Letters, NEW u, u = InsertAt(t, i, c)
    PROVE  /\ u \in Seq(Letters) /\ Len(u) = Len(t) + 1
           /\ \A j \in 1..Len(t) + 1 : u[j] = IF j < i THEN t[j] ELSE IF j = i THEN c ELSE t[j - 1]
<1>1. PICK a, m, z : a = SubSeq(t, 1, i - 1) /\ m = <<c>> /\ z = SubSeq(t, i, Len(t)) OBVIOUS
<1>2. a \in Seq(Letters) /\ Len(a) = i - 1 /\ \A j \in 1..i - 1 : a[j] = t[j] BY <1>1
<1>3. z \in Seq(Letters) /\ Len(z) = Len(t) - i + 1 /\ \A j \in 1..Len(t) - i + 1 : z[j] = t[j + i - 1]
  BY <1>1
<1>4. m \in Seq(Letters) /\ Len(m) = 1 /\ m[1] = c BY <1>1
<1>5. PICK am : am = a \o m OBVIOUS
<1>6. am \in Seq(Letters) /\ Len(am) = i /\ (\A j \in 1..i - 1 : am[j] = t[j]) /\ am[i] = c
  <2>4. am \in Seq(Letters) /\ Len(am) = Len(a) + Len(m)
    <3>1. a \in Seq(Letters) /\ m \in Seq(Letters) /\ am = a \o m BY <1>2, <1>4, <1>5
    <3> QED BY ONLY <3>1, JoinIs
  <2>5. i \in Int /\ (i - 1) + 1 = i OBVIOUS
  <2>1. am \in Seq(Letters) /\ Len(am) = i BY <1>2, <1>4, <2>4, <2>5
  <2>2. \A j \in 1..i - 1 : am[j] = a[j] BY <1>2, <1>4, <1>5
  <2>6. am[Len(a) + 1] = m[1]
    <3>1. 1 \in 1..Len(m) BY <1>4
    <3>2. a \in Seq(Letters) /\ m \in Seq(Letters) /\ am = a \o m BY <1>2, <1>4, <1>5
    <3> QED BY ONLY <3>1, <3>2, JoinIs
  <2>3. am[i] = m[1] BY <1>2, <2>5, <2>6
  <2> QED BY <1>2, <1>4, <2>1, <2>2, <2>3
<1>7. u = am \o z BY <1>1, <1>5 DEF InsertAt
<1>8. u \in Seq(Letters) /\ Len(u) = Len(t) + 1
  <2>1. u \in Seq(Letters) /\ Len(u) = Len(am) + Len(z) BY <1>3, <1>6, <1>7, JoinIs
  <2>2. i \in Int /\ Len(t) \in Nat /\ i + (Len(t) - i + 1) = Len(t) + 1 OBVIOUS
  <2> QED BY <1>3, <1>6, <2>1, <2>2
<1>9. \A j \in 1..i : u[j] = am[j] BY <1>3, <1>6, <1>7
<1>10. \A j \in i + 1..Len(t) + 1 : u[j] = z[j - i] BY <1>3, <1>6, <1>7
<1>11. ASSUME NEW j \in 1..Len(t) + 1
       PROVE  u[j] = IF j < i THEN t[j] ELSE IF j = i THEN c ELSE t[j - 1]
  <2>1. CASE j < i
    <3>1. u[j] = t[j] BY <1>6, <1>9, <2>1
    <3> QED BY <2>1, <3>1
  <2>2. CASE j = i
    <3>1. u[j] = c BY <1>6, <1>9, <2>2
    <3> QED BY <2>2, <3>1
  <2>3. CASE j > i
    <3>1. j - i \in 1..Len(t) - i + 1 /\ j \in i + 1..Len(t) + 1 /\ (j - i) + i - 1 = j - 1 BY <2>3
    <3>2. z[j - i] = t[j - 1] BY <1>3, <3>1
    <3>3. u[j] = t[j - 1] BY <1>10, <3>1, <3>2
    <3> QED BY <2>3, <3>3
  <2> QED BY <2>1, <2>2, <2>3
<1> QED BY <1>8, <1>11

LEMMA LetterRemoved ==
    ASSUME NEW t \in Seq(Letters), NEW i \in 1..Len(t), NEW u, u = RemoveAt(t, i)
    PROVE  /\ u \in Seq(Letters) /\ Len(u) = Len(t) - 1
           /\ \A j \in 1..Len(t) - 1 : u[j] = IF j < i THEN t[j] ELSE t[j + 1]
<1>1. PICK a, z : a = SubSeq(t, 1, i - 1) /\ z = SubSeq(t, i + 1, Len(t)) OBVIOUS
<1>2. a \in Seq(Letters) /\ Len(a) = i - 1 /\ \A j \in 1..i - 1 : a[j] = t[j] BY <1>1
<1>3. z \in Seq(Letters) /\ Len(z) = Len(t) - i /\ \A j \in 1..Len(t) - i : z[j] = t[j + i] BY <1>1
<1>4. u = a \o z BY <1>1 DEF RemoveAt
<1>5. u \in Seq(Letters) /\ Len(u) = Len(t) - 1 BY <1>2, <1>3, <1>4
<1>6. \A j \in 1..i - 1 : u[j] = a[j] BY <1>2, <1>3, <1>4
<1>7. \A j \in i..Len(t) - 1 : u[j] = z[j - i + 1] BY <1>2, <1>3, <1>4
<1>8. ASSUME NEW j \in 1..Len(t) - 1
      PROVE  u[j] = IF j < i THEN t[j] ELSE t[j + 1]
  <2>1. CASE j < i
    <3>1. u[j] = t[j] BY <1>2, <1>6, <2>1
    <3> QED BY <2>1, <3>1
  <2>2. CASE j >= i
    <3>1. j - i + 1 \in 1..Len(t) - i /\ j \in i..Len(t) - 1 /\ (j - i + 1) + i = j + 1 BY <2>2
    <3>2. z[j - i + 1] = t[j + 1] BY <1>3, <3>1
    <3>3. u[j] = t[j + 1] BY <1>7, <3>1, <3>2
    <3> QED BY <2>2, <3>3
  <2> QED BY <2>1, <2>2
<1> QED BY <1>5, <1>8

LEMMA ShiftedInIs ==
    ASSUME NEW s, NEW t \in Seq(Letters), StrOK(s), Says(s, Append(t, Zero)),
           NEW i \in 1..Len(t), NEW c \in Letters, NEW r, r = ShiftedIn(s, i, c)
    PROVE  StrOK(r) /\ Says(r, InsertAt(t, i, c))
<1>1. PICK buf, n : buf = s.buf /\ n = Len(t) OBVIOUS
<1>2. Zero \in Letters BY StringConstantsAre
<1>3. PICK u : u = Append(t, Zero) OBVIOUS
<1>4. u \in Seq(Letters) /\ Len(u) = n + 1 /\ \A j \in 1..n : u[j] = t[j] BY <1>1, <1>2, <1>3
<1>5. s.size = n + 1 /\ \A j \in 1..n : buf[j] = t[j] BY <1>1, <1>3, <1>4 DEF Says
<1>6. buf \in Seq(Letters) /\ n + 1 <= Len(buf) /\ n \in Nat /\ Len(buf) \in Nat BY <1>1, <1>5 DEF StrOK
<1>7. PICK with : with = [j \in DOMAIN buf |-> CASE j = i -> c
                                               [] j \in i + 1..n + 1 -> buf[j - 1]
                                               [] OTHER -> buf[j]]
  OBVIOUS
<1>8. r = [s EXCEPT !.buf = with] BY <1>1, <1>5, <1>7 DEF ShiftedIn
<1>9. /\ r.buf = with /\ r.size = s.size /\ r.big = s.big /\ r.cap = s.cap /\ DOMAIN r = DOMAIN s BY <1>8 DEF StrOK
<1>10. DOMAIN buf = 1..Len(buf) BY <1>6
<1>11. \A j \in 1..Len(buf) : with[j] \in Letters /\ (j = i => with[j] = c)
                              /\ (j \in i + 1..n + 1 => with[j] = buf[j - 1])
                              /\ (j < i => with[j] = buf[j])
  <2> SUFFICES ASSUME NEW j \in 1..Len(buf)
               PROVE  with[j] \in Letters /\ (j = i => with[j] = c)
                      /\ (j \in i + 1..n + 1 => with[j] = buf[j - 1]) /\ (j < i => with[j] = buf[j])
    OBVIOUS
  <2>1. i \in 1..n BY <1>1
  <2>2. CASE j = i
    <3>1. with[j] = c BY <1>7, <1>10, <2>2
    <3> QED BY <1>6, <2>1, <2>2, <3>1
  <2>3. CASE j \in i + 1..n + 1
    <3>1. j # i /\ ~(j < i) /\ j - 1 \in 1..Len(buf) BY <1>6, <2>1, <2>3
    <3>2. with[j] = buf[j - 1] BY <1>7, <1>10, <2>3, <3>1
    <3>3. buf[j - 1] \in Letters BY <1>6, <3>1
    <3> QED BY <3>1, <3>2, <3>3
  <2>4. CASE j # i /\ ~(j \in i + 1..n + 1)
    <3>1. with[j] = buf[j] BY <1>7, <1>10, <2>4
    <3>2. buf[j] \in Letters BY <1>6
    <3> QED BY <2>4, <3>1, <3>2
  <2> QED BY <2>2, <2>3, <2>4
<1>12. with \in Seq(Letters) /\ Len(with) = Len(buf)
  <2>1. DOMAIN with = 1..Len(buf) BY <1>7, <1>10
  <2>2. with = [j \in 1..Len(buf) |-> with[j]] BY <1>7, <1>10
  <2>3. with \in [1..Len(buf) -> Letters] BY <1>11, <2>2
  <2> QED BY <1>6, <2>1, <2>3
<1>13. Capacity(r) = Capacity(s) BY <1>9 DEF Capacity
<1>14. StrOK(r) BY <1>1, <1>9, <1>12, <1>13 DEF StrOK
<1>15. PICK v : v = InsertAt(t, i, c) OBVIOUS
<1>16. /\ v \in Seq(Letters) /\ Len(v) = n + 1
       /\ \A j \in 1..n + 1 : v[j] = IF j < i THEN t[j] ELSE IF j = i THEN c ELSE t[j - 1]
  BY <1>1, <1>15, LetterInserted
<1>17. ASSUME NEW j \in 1..n + 1 PROVE with[j] = v[j]
  <2>1. i \in 1..n /\ j \in 1..Len(buf) BY <1>1, <1>6
  <2>2. CASE j < i
    <3>1. j \in 1..n BY <1>6, <2>1, <2>2
    <3> QED BY <1>5, <1>11, <1>16, <2>1, <2>2, <3>1
  <2>3. CASE j = i
    <3>1. ~(j < i) BY <2>1, <2>3
    <3> QED BY <1>11, <1>16, <2>1, <2>3, <3>1
  <2>4. CASE j > i
    <3>1. j \in i + 1..n + 1 /\ j - 1 \in 1..n /\ ~(j < i) /\ j # i BY <1>6, <2>1, <2>4
    <3> QED BY <1>5, <1>11, <1>16, <2>1, <3>1
  <2> QED BY <1>6, <2>1, <2>2, <2>3, <2>4
<1>18. Says(r, v) BY <1>5, <1>9, <1>16, <1>17 DEF Says
<1> QED BY <1>14, <1>15, <1>18

\* What push_back leaves: something went wrong, the character is there, or there was no room.
LEMMA PushedIs ==
    ASSUME Factor, NEW b, NEW t \in Seq(Letters), Way(b), Fine(b, t), NEW c \in Letters, NEW ok \in BOOLEAN,
           NEW w, w = PushChar(b, c, ok)
    PROVE  Way(w) /\ (Faulty(w) \/ Fine(w, Append(t, c)) \/ w = b)
<1>1. CASE ok = TRUE BY <1>1, PushOk
<1>2. CASE ok = FALSE
  <2>1. CASE b.s.size + 1 <= Capacity(b.s) BY <2>1, PushRoom
  <2>2. CASE ~(b.s.size + 1 <= Capacity(b.s)) BY <1>2, <2>2, PushNoRoom
  <2> QED BY <2>1, <2>2
<1> QED BY <1>1, <1>2

LEMMA InsertStrKeeps ==
    ASSUME StringsInv, NEW x \in Strs, NEW i \in Nat \ {0}, NEW c \in Letters, NEW ok \in BOOLEAN,
           InsertStr(x, i, c, ok)
    PROVE  StringsInv'
<1>1. PICK b, t : b = Begun(strs[x]) /\ t = strMeant[x] OBVIOUS
<1>2. /\ Factor /\ Way(b) /\ Fine(b, t) /\ b.s = strs[x] /\ b.ev = {} /\ t \in Seq(Letters)
      /\ strs[x].size = Len(t)
  BY <1>1, BegunHere
<1>3. Zero \in Letters BY StringConstantsAre
<1>4. "insert" \in Growing BY DEF Growing
<1>5. i <= Len(t) + 1 BY <1>2 DEF InsertStr
<1>6. CASE i = strs[x].size + 1
  <2>1. PICK p : p = PushChar(b, c, ok) OBVIOUS
  <2>2. Way(p) /\ (Faulty(p) \/ Fine(p, Append(t, c)) \/ p = b) BY <1>2, <2>1, PushedIs
  <2>3. PICK w, right : /\ w = Also(p, Len(p.s.buf) # Len(strs[x].buf), "stale")
                        /\ right = IF p.s.size = strs[x].size /\ p.ev = {} THEN t ELSE Append(t, c)
    OBVIOUS
  <2>4. Ends("insert", x, w, right) BY <1>1, <1>6, <2>1, <2>3 DEF InsertStr
  <2>5. PICK noted : noted = [p EXCEPT !.ev = @ \cup {"stale"}] OBVIOUS
  <2>6. w = noted \/ w = p BY <2>3, <2>5 DEF Also
  <2>7. noted.s = p.s /\ noted.ev = p.ev \cup {"stale"} /\ noted.cut = p.cut BY <2>2, <2>5 DEF Way
  <2>8. \A cut : KnownFault(<<"insert", "stale", cut>>) BY DEF KnownFault
  <2>9. CASE Faulty(p)
    <3>1. p.ev # {} BY <2>9 DEF Faulty
    <3>2. \A v \in p.ev : KnownFault(<<"insert", v, p.cut>>)
      <4>1. Ending("insert", p, right) BY <1>4, <2>9, EndsWrong
      <4> QED BY <4>1 DEF Ending
    <3>3. Ending("insert", p, right) BY <3>1, <3>2 DEF Ending
    <3>4. Ending("insert", noted, right)
      <4>1. noted.ev # {} BY <2>7
      <4>2. ASSUME NEW v \in noted.ev PROVE KnownFault(<<"insert", v, noted.cut>>)
        <5>1. CASE v \in p.ev BY <2>7, <3>2, <5>1
        <5>2. CASE v = "stale" BY <2>8, <5>2
        <5> QED BY <2>7, <5>1, <5>2
      <4> QED BY <4>1, <4>2 DEF Ending
    <3> QED BY <2>4, <2>6, <3>3, <3>4, EndsKeeps
  <2>10. CASE ~Faulty(p)
    <3>1. p.ev = {} BY <1>2, <2>2, <2>10 DEF Fine
    <3>2. Ending("insert", noted, right)
      <4>1. KnownEnd("insert", "stale", p.cut) BY <2>8 DEF KnownEnd
      <4> QED BY <2>2, <2>5, <3>1, <4>1, EndsNoted
    <3>3. Fine(p, right)
      <4>1. CASE Fine(p, Append(t, c))
        <5>1. PICK u : u = Append(t, c) OBVIOUS
        <5>2. Len(u) = Len(t) + 1 BY <1>2, <5>1
        <5>3. p.s.size = Len(t) + 1 BY <4>1, <5>1, <5>2 DEF Fine, Says
        <5>4. p.s.size # strs[x].size BY <1>2, <5>3
        <5>5. right = u BY <2>3, <5>1, <5>4
        <5> QED BY <4>1, <5>1, <5>5
      <4>2. CASE p = b
        <5>1. right = t BY <1>2, <2>3, <4>2
        <5> QED BY <1>2, <4>2, <5>1
      <4> QED BY <2>2, <2>10, <4>1, <4>2
    <3>4. Ending("insert", p, right) BY <3>3, EndsRight
    <3> QED BY <2>4, <2>6, <3>2, <3>4, EndsKeeps
  <2> QED BY <2>9, <2>10
<1>7. CASE i # strs[x].size + 1
  <2>1. PICK p : p = PushChar(b, Zero, ok) OBVIOUS
  <2>2. Way(p) /\ (Faulty(p) \/ Fine(p, Append(t, Zero)) \/ p = b) BY <1>2, <1>3, <2>1, PushedIs
  <2>3. PICK s, shifted : s = ShiftedIn(p.s, i, c) /\ shifted = [p EXCEPT !.s = s] OBVIOUS
  <2>4. PICK w, right : /\ w = Also(shifted, p.s.size = strs[x].size /\ p.ev = {}, "dropped")
                        /\ right = InsertAt(t, i, c)
    OBVIOUS
  <2>5. shifted = [p EXCEPT !.s = ShiftedIn(@, i, c)] BY <2>3
  <2>6. Ends("insert", x, w, right) BY <1>1, <1>7, <2>1, <2>4, <2>5 DEF InsertStr
  <2>7. Way(shifted) /\ shifted.s = s /\ shifted.ev = p.ev /\ shifted.cut = p.cut BY <2>2, <2>3 DEF Way
  <2>8. CASE Faulty(p)
    <3>1. Faulty(shifted) BY <2>7, <2>8 DEF Faulty
    <3>2. p.ev # {} BY <2>8 DEF Faulty
    <3>3. w = shifted BY <2>4, <3>2 DEF Also
    <3>4. Ending("insert", w, right) BY <1>4, <3>1, <3>3, EndsWrong
    <3> QED BY <2>6, <3>4, EndsKeeps
  <2>9. CASE Fine(p, Append(t, Zero))
    <3>1. PICK u : u = Append(t, Zero) OBVIOUS
    <3>2. Len(u) = Len(t) + 1 BY <1>2, <1>3, <3>1
    <3>3. p.s.size = Len(t) + 1 BY <2>9, <3>1, <3>2 DEF Fine, Says
    <3>4. p.s.size # strs[x].size BY <1>2, <3>3
    <3>5. w = shifted BY <2>4, <3>4 DEF Also
    <3>6. i \in 1..Len(t) BY <1>2, <1>5, <1>7
    <3>7. StrOK(p.s) /\ Says(p.s, Append(t, Zero)) /\ p.ev = {} BY <2>9 DEF Fine
    <3>8. StrOK(s) /\ Says(s, right) BY <1>2, <2>3, <2>4, <3>6, <3>7, ShiftedInIs
    <3>9. Ending("insert", w, right) BY <2>7, <3>5, <3>7, <3>8 DEF Ending
    <3> QED BY <2>6, <3>9, EndsKeeps
  <2>10. CASE p = b
    <3>1. p.ev = {} /\ p.s.size = strs[x].size BY <1>2, <2>10
    <3>2. w = [shifted EXCEPT !.ev = @ \cup {"dropped"}] BY <2>4, <3>1 DEF Also
    <3>3. KnownEnd("insert", "dropped", shifted.cut) BY DEF KnownEnd, KnownFault
    <3>4. shifted.ev = {} BY <2>7, <3>1
    <3>5. Ending("insert", w, right) BY <2>7, <3>2, <3>3, <3>4, EndsNoted
    <3> QED BY <2>6, <3>5, EndsKeeps
  <2> QED BY <2>2, <2>8, <2>9, <2>10
<1> QED BY <1>6, <1>7

LEMMA EraseStrKeeps ==
    ASSUME StringsInv, NEW x \in Strs, NEW i \in Nat \ {0}, EraseStr(x, i)
    PROVE  StringsInv'
<1>1. PICK b, t : b = Begun(strs[x]) /\ t = strMeant[x] OBVIOUS
<1>2. /\ Way(b) /\ b.s = strs[x] /\ b.ev = {} /\ t \in Seq(Letters) /\ strs[x].size = Len(t)
      /\ StrOK(strs[x]) /\ Says(strs[x], t)
  BY <1>1, BegunHere
<1>3. i \in 1..Len(t) BY <1>2 DEF EraseStr
<1>4. PICK buf, n : buf = strs[x].buf /\ n = Len(t) OBVIOUS
<1>5. buf \in Seq(Letters) /\ n \in Nat /\ n <= Len(buf) /\ Len(buf) \in Nat /\ \A j \in 1..n : buf[j] = t[j]
  BY <1>2, <1>4 DEF StrOK, Says
<1>6. PICK with : with = [j \in DOMAIN buf |-> IF j \in i..n - 1 THEN buf[j + 1] ELSE buf[j]] OBVIOUS
<1>7. PICK s, w : s = [strs[x] EXCEPT !.buf = with, !.size = n - 1] /\ w = [b EXCEPT !.s = s] OBVIOUS
<1>8. w = [b EXCEPT !.s.buf = [j \in DOMAIN @ |-> IF j \in i..n - 1 THEN @[j + 1] ELSE @[j]],
                    !.s.size = @ - 1]
  BY <1>2, <1>4, <1>6, <1>7
<1>9. Ends("erase", x, w, RemoveAt(t, i)) BY <1>1, <1>2, <1>4, <1>8 DEF EraseStr
<1>10. w.s = s /\ w.ev = {} BY <1>2, <1>7 DEF Way
<1>11. /\ DOMAIN s = DOMAIN strs[x] /\ s.buf = with /\ s.size = n - 1 /\ s.big = strs[x].big
       /\ s.cap = strs[x].cap
  BY <1>2, <1>7 DEF StrOK
<1>12. DOMAIN buf = 1..Len(buf) BY <1>5
<1>13. \A j \in 1..Len(buf) : with[j] = IF j \in i..n - 1 THEN buf[j + 1] ELSE buf[j] BY <1>6, <1>12
<1>14. \A j \in 1..Len(buf) : with[j] \in Letters
  <2> SUFFICES ASSUME NEW j \in 1..Len(buf) PROVE with[j] \in Letters OBVIOUS
  <2>1. j \in i..n - 1 => j + 1 \in 1..Len(buf) BY <1>3, <1>4, <1>5
  <2> QED BY <1>5, <1>13, <2>1
<1>15. with \in Seq(Letters) /\ Len(with) = Len(buf)
  <2>1. DOMAIN with = 1..Len(buf) BY <1>6, <1>12
  <2>2. with = [j \in 1..Len(buf) |-> with[j]] BY <1>6, <1>12
  <2>3. with \in [1..Len(buf) -> Letters] BY <1>14, <2>2
  <2> QED BY <1>5, <2>1, <2>3
<1>16. Capacity(s) = Capacity(strs[x]) BY <1>11 DEF Capacity
<1>17. n - 1 \in Nat /\ n - 1 <= Len(with) BY <1>3, <1>4, <1>5, <1>15
<1>18. StrOK(s) BY <1>2, <1>4, <1>11, <1>15, <1>16, <1>17 DEF StrOK
<1>19. PICK u : u = RemoveAt(t, i) OBVIOUS
<1>20. /\ u \in Seq(Letters) /\ Len(u) = n - 1
       /\ \A j \in 1..n - 1 : u[j] = IF j < i THEN t[j] ELSE t[j + 1]
  <2>1. t \in Seq(Letters) /\ i \in 1..Len(t) /\ Len(t) = n BY <1>2, <1>3, <1>4
  <2>2. /\ u \in Seq(Letters) /\ Len(u) = Len(t) - 1
        /\ \A j \in 1..Len(t) - 1 : u[j] = IF j < i THEN t[j] ELSE t[j + 1]
    BY ONLY <1>19, <2>1, LetterRemoved
  <2> QED BY <2>1, <2>2
<1>21. ASSUME NEW j \in 1..n - 1 PROVE with[j] = u[j]
  <2>1. j \in 1..Len(buf) /\ j \in 1..n /\ j + 1 \in 1..n /\ i \in 1..n BY <1>3, <1>4, <1>5
  <2>2. CASE j < i
    <3>1. ~(j \in i..n - 1) BY <2>1, <2>2
    <3> QED BY <1>5, <1>13, <1>20, <2>1, <2>2, <3>1
  <2>3. CASE j >= i
    <3>1. j \in i..n - 1 /\ ~(j < i) BY <1>5, <2>1, <2>3
    <3> QED BY <1>5, <1>13, <1>20, <2>1, <3>1
  <2> QED BY <2>1, <2>2, <2>3
<1>22. Says(s, u) BY <1>11, <1>20, <1>21 DEF Says
<1>23. Ending("erase", w, u) BY <1>10, <1>18, <1>22 DEF Ending
<1> QED BY <1>9, <1>19, <1>23, EndsKeeps

-----------------------------------------------------------------------------
(* The theorem.                                                            *)

LEMMA TextsAre ==
    Texts2 \subseteq Seq(Letters)
<1> SUFFICES ASSUME NEW text \in Texts2 PROVE text \in Seq(Letters) OBVIOUS
<1>1. SmallCap \in Nat /\ Zero \in Letters BY StringConstantsAre
<1>2. CASE text = Zeroes(SmallCap + 1)
  <2>1. text = [i \in 1..SmallCap + 1 |-> Zero] BY <1>2 DEF Zeroes
  <2> QED BY <1>1, <2>1
<1>3. CASE \E c \in Letters : text = <<c>>
  <2>1. PICK c \in Letters : text = <<c>> BY <1>3
  <2> QED BY <2>1
<1> QED BY <1>2, <1>3 DEF Texts2

LEMMA StringsInvInit ==
    ASSUME StringsInit
    PROVE  StringsInv
BY EmptyStrIs DEF StringsInit, StringsInv, Factor

LEMMA StringsInvNext ==
    ASSUME StringsInv, [StringsNext]_stringsVars
    PROVE  StringsInv'
<1>1. CASE StringsNext
  <2>1. PICK x \in Strs :
          \/ DeleteStr(x) \/ PopStr(x)
          \/ \E y \in Strs : \/ NewMoveStr(x, y) \/ MoveAssignStr(x, y)
                             \/ \E readsBig \in BOOLEAN : NewCopyStr(x, y, readsBig)
          \/ \E i \in 1..MaxText : EraseStr(x, i)
          \/ \E ok \in BOOLEAN :
                \/ \E n \in {SmallCap, BigCap} : NewOfSize(x, n, ok)
                \/ \E text \in Texts2 : NewOfText(x, text, ok) \/ AppendStr(x, text, ok)
                \/ \E y \in Strs : CopyAssignStr(x, y, ok)
                \/ \E c \in Letters : \/ PushStr(x, c, ok)
                                      \/ \E i \in 1..MaxText : InsertStr(x, i, c, ok)
    BY <1>1 DEF StringsNext
  <2>2. CASE DeleteStr(x) BY <2>2, DeleteStrKeeps
  <2>3. CASE PopStr(x) BY <2>3, PopStrKeeps
  <2>4. CASE \E y \in Strs : NewMoveStr(x, y) BY <2>4, NewMoveStrKeeps
  <2>5. CASE \E y \in Strs : MoveAssignStr(x, y) BY <2>5, MoveAssignStrKeeps
  <2>6. CASE \E y \in Strs : \E readsBig \in BOOLEAN : NewCopyStr(x, y, readsBig) BY <2>6, NewCopyStrKeeps
  <2>7. \A i \in 1..MaxText : i \in Nat \ {0} BY StringConstantsAre
  <2>8. CASE \E i \in 1..MaxText : EraseStr(x, i) BY <2>7, <2>8, EraseStrKeeps
  <2>9. ASSUME NEW ok \in BOOLEAN, \E n \in {SmallCap, BigCap} : NewOfSize(x, n, ok) PROVE StringsInv'
    BY <2>9, NewOfSizeKeeps
  <2>10. ASSUME NEW ok \in BOOLEAN, \E text \in Texts2 : NewOfText(x, text, ok) PROVE StringsInv'
    BY <2>10, NewOfTextKeeps
  <2>11. ASSUME NEW ok \in BOOLEAN, \E text \in Texts2 : AppendStr(x, text, ok) PROVE StringsInv'
    BY <2>11, TextsAre, AppendStrKeeps
  <2>12. ASSUME NEW ok \in BOOLEAN, \E y \in Strs : CopyAssignStr(x, y, ok) PROVE StringsInv'
    BY <2>12, CopyAssignStrKeeps
  <2>13. ASSUME NEW ok \in BOOLEAN, \E c \in Letters : PushStr(x, c, ok) PROVE StringsInv'
    BY <2>13, PushStrKeeps
  <2>14. ASSUME NEW ok \in BOOLEAN, \E c \in Letters : \E i \in 1..MaxText : InsertStr(x, i, c, ok)
         PROVE  StringsInv'
    BY <2>7, <2>14, InsertStrKeeps
  <2> QED BY <2>1, <2>2, <2>3, <2>4, <2>5, <2>6, <2>8, <2>9, <2>10, <2>11, <2>12, <2>13, <2>14
<1>2. CASE UNCHANGED stringsVars
  <2>1. capFactor' = capFactor /\ strs' = strs /\ strMeant' = strMeant /\ strLog' = strLog
    BY <1>2 DEF stringsVars
  <2> QED BY <2>1 DEF StringsInv, Factor, StrOK, Says, Capacity, KnownFault
<1> QED BY <1>1, <1>2

LEMMA StringsInvMeans ==
    ASSUME StringsInv
    PROVE  StringsHoldTheirText /\ StringsTypeOK
<1>1. \A x \in Strs : StrOK(strs[x]) /\ Says(strs[x], strMeant[x]) BY DEF StringsInv
<1>2. \A e \in strLog : KnownFault(e) BY DEF StringsInv
<1>3. \A x \in Strs : Text(strs[x]) = strMeant[x] BY <1>1, SaysIs
<1>4. StringsHoldTheirText BY <1>1, <1>2, <1>3 DEF StringsHoldTheirText, StrOK
<1>5. StringsTypeOK BY <1>1 DEF StringsTypeOK, StringsInv, Factor, StrOK, Says
<1> QED BY <1>4, <1>5

\* For every capacity and width of the bit field: each string holds the text its operations
\* mean, in a storage with at least the capacity it reports, until one of the faults named in
\* KnownFault happens, and no other fault does (glox/string.hpp).
THEOREM StringsSay == StringsSpec => [](StringsHoldTheirText /\ StringsTypeOK)
<1>1. StringsInit => StringsInv BY StringsInvInit
<1>2. StringsInv /\ [StringsNext]_stringsVars => StringsInv' BY StringsInvNext
<1>3. StringsInv => StringsHoldTheirText /\ StringsTypeOK BY StringsInvMeans
<1> QED BY <1>1, <1>2, <1>3, PTL DEF StringsSpec
=============================================================================
