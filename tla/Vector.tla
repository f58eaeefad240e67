------------------------------- MODULE Vector -------------------------------
(***************************************************************************)
(* glox::vector (glox/vector.hpp): a few vectors of one element type, over *)
(* the blocks of Alloc.  An operation that does what the code should not   *)
(* do is noted in vecLog together with what happened; most such events     *)
(* stop the kernel or are undefined behaviour, and end the history.        *)
(***************************************************************************)
EXTENDS Alloc

CONSTANTS
    Vecs,       \* the vectors
    Elements,   \* element values
    Default,    \* the one T() gives
    FirstCap,   \* the capacity of the first buffer: 4 in the code
    VecSizes,   \* sizes asked of the constructors and of reserve
    MaxVec      \* bound: how many elements the vectors hold together

ASSUME VectorAssumption ==
    /\ Default \in Elements /\ Raw \notin Elements
    /\ FirstCap \in Nat \ {0, 1} /\ VecSizes \subseteq Nat /\ MaxVec \in Nat

VARIABLES
    vs,        \* mem, elem, event: see Alloc; vec: start, cap and siz of every vector
    vecMeant,  \* history: the sequence every vector stands for
    vecLog     \* history: <<operation, event>> pairs of the last operation

vectorVars == <<vs, vecMeant, vecLog>>

NoVec == [start |-> NoBlock, cap |-> 0, siz |-> 0]

\* The history ends with an operation that did something it should not; of the memory
\* after it nothing more is said.
VectorsRun == vecLog = {}

\* The blocks some vector can still free.
Owned(s) == {b \in Blocks : \E v \in Vecs : s.vec[v].start = b /\ s.vec[v].cap = Len(s.mem[b])}
InUse(s) == {b \in Blocks : ~IsFree(s, b)}
Dangling(s, v) == s.vec[v].start # NoBlock /\ IsFree(s, s.vec[v].start)

Fresh(e) == [mem |-> [b \in Blocks |-> <<>>], vec |-> [v \in Vecs |-> NoVec],
             elem |-> e, event |-> {}]

\* Objects past the end are never destroyed.
Forgotten(s, v) ==
    /\ s.elem = "class"
    /\ \E i \in s.vec[v].siz + 1..Len(Cells(s, s.vec[v].start)) : Cells(s, s.vec[v].start)[i] # Raw

\* What op leaves behind, and the sequences the vectors now stand for.
Finish(op, t, meant) ==
    LET leak == Flag(t, ~(InUse(t) \subseteq Owned(t)) \/ \E v \in Vecs : Forgotten(t, v), "leak")
        done == Flag(leak, \E v \in Vecs : Dangling(t, v), "dangling")
    IN  /\ vecLog' = {op} \X done.event
        /\ vs' = IF done.event = {} THEN done ELSE Fresh(t.elem)
        /\ vecMeant' = IF done.event = {} THEN meant ELSE [v \in Vecs |-> <<>>]

\* Within the bound after v has n elements.
Fits(v, n) == n + Cardinality(UNION {{w} \X (1..vs.vec[w].siz) : w \in Vecs \ {v}}) <= MaxVec

Means(v, xs) == [vecMeant EXCEPT ![v] = xs]

Set(s, v, start, cap, siz) ==
    [s EXCEPT !.vec[v] = [start |-> start, cap |-> cap, siz |-> siz]]

ReallocBuffer(s, v, old, new, b) ==
    IF s.vec[v].start = NoBlock THEN AllocUninitialized(s, new, b)
    ELSE GrowAlloc(s, s.vec[v].start, old, new, old, b)

\* Bug: a full buffer stays as it is.
MutGrowth(cap) == IF cap < FirstCap THEN FirstCap ELSE cap

Growth(cap) == IF cap < FirstCap THEN FirstCap ELSE cap + cap \div 2

\* <<state, whether there is room>>.
EnsureCanFit(s, v, size, b) ==
    IF size <= s.vec[v].cap THEN <<s, TRUE>>
    ELSE LET h == ReallocBuffer(s, v, s.vec[v].cap, Growth(s.vec[v].cap), b)
         IN  IF h.ptr = NoBlock THEN <<h.s, FALSE>>
             ELSE <<Set(h.s, v, h.ptr, h.count, s.vec[v].siz), TRUE>>

EmplaceBack(s, v, x, b) ==
    LET fit == EnsureCanFit(s, v, s.vec[v].siz + 1, b)
        r == fit[1].vec[v]
    IN  IF ~fit[2] THEN <<fit[1], FALSE>>
        ELSE <<Set(Construct(fit[1], r.start, r.siz + 1, x), v, r.start, r.cap, r.siz + 1), TRUE>>

Elems(s, v) == First(Cells(s, s.vec[v].start), s.vec[v].siz)

-----------------------------------------------------------------------------
(* Constructors and assignments.  A constructor runs on storage that holds *)
(* no vector: its members have their defaults.                             *)

NewReserve(v, n, b) ==
    LET h == AllocUninitialized(vs, n, b)
    IN  /\ vs.vec[v] = NoVec
        /\ Finish("withCapacity", Set(h.s, v, h.ptr, IF h.ptr = NoBlock THEN 0 ELSE h.count, 0),
                  Means(v, <<>>))

NewFill(v, x, n, b) ==
    LET h == AllocUninitialized(vs, n, b)
        xs == [i \in 1..n |-> x]
    IN  /\ vs.vec[v] = NoVec /\ Fits(v, n)
        /\ IF h.ptr = NoBlock THEN Finish("fill", h.s, Means(v, <<>>))
           ELSE Finish("fill", Set(ConstructAll(h.s, h.ptr, xs), v, h.ptr, h.count, n),
                       Means(v, xs))

NewCopy(v, w, b) ==
    LET h == AllocUninitialized(vs, vs.vec[w].cap, b)
        xs == Elems(vs, w)
    IN  /\ v # w /\ vs.vec[v] = NoVec /\ Fits(v, vs.vec[w].siz)
        /\ IF h.ptr = NoBlock THEN Finish("copy", h.s, Means(v, <<>>))
           ELSE Finish("copy", Set(ConstructAll(h.s, h.ptr, xs), v,
                                      h.ptr, vs.vec[w].cap, vs.vec[w].siz),
                       Means(v, vecMeant[w]))

\* realloc_buffer is told that every cell of the old buffer is constructed, and moves them
\* all into the new one before the copy.
CopyAssign(v, w, b) ==
    LET h == ReallocBuffer(vs, v, vs.vec[v].cap, vs.vec[w].cap, b)
        xs == First(Cells(h.s, IF v = w THEN h.ptr ELSE vs.vec[w].start), vs.vec[w].siz)
    IN  /\ Fits(v, vs.vec[w].siz)
        /\ IF h.ptr = NoBlock
           THEN Finish("copyAssign", Set(h.s, v, NoBlock, 0, 0), Means(v, <<>>))
           ELSE Finish("copyAssign", Set(ConstructAll(h.s, h.ptr, xs), v,
                                             h.ptr, h.count, vs.vec[w].siz),
                       Means(v, vecMeant[w]))

NewMove(v, w) ==
    /\ v # w /\ vs.vec[v] = NoVec
    /\ Finish("move", [vs EXCEPT !.vec[v] = vs.vec[w], !.vec[w] = NoVec],
              [vecMeant EXCEPT ![v] = vecMeant[w], ![w] = <<>>])

\* Swaps the buffers but not the sizes.
MoveAssign(v, w) ==
    LET from == vs.vec[w]
        swapped == Set(Set(vs, v, from.start, from.cap, from.siz), w, vs.vec[v].start, 0, 0)
        self == Set(vs, v, from.start, 0, 0)
    IN  IF v = w THEN Finish("moveAssign", self, Means(v, <<>>))
        ELSE Finish("moveAssign", swapped,
                    [vecMeant EXCEPT ![v] = vecMeant[w], ![w] = <<>>])

-----------------------------------------------------------------------------
(* Operations.                                                             *)

\* The destructor does the same.
Clear(v) ==
    LET r == vs.vec[v]
    IN  Finish("clear", Set(Dealloc(Destroy(vs, r.start, 1, r.siz), r.start, r.cap), v, NoBlock, 0, 0),
               Means(v, <<>>))

ShrinkToFit(v, b) ==
    LET r == vs.vec[v]
        h == ShrinkAlloc(vs, r.start, r.cap, r.siz, r.siz, b)
    IN  Finish("shrink", IF h.ptr = NoBlock THEN h.s ELSE Set(h.s, v, h.ptr, h.count, r.siz), vecMeant)

PushBack(v, x, b) ==
    /\ Fits(v, vs.vec[v].siz + 1)
    /\ \E r \in {EmplaceBack(vs, v, x, b)} :
          Finish("push", r[1], IF r[2] THEN Means(v, Append(vecMeant[v], x)) ELSE vecMeant)

\* The argument is an element of the vector itself: it is read after the buffer was replaced.
PushOwn(v, i, b) ==
    /\ Fits(v, vs.vec[v].siz + 1) /\ i <= vs.vec[v].siz
    /\ \E r \in {EmplaceBack(vs, v, Elems(vs, v)[i], b)} :
          Finish("pushOwn", Flag(r[1], r[2] /\ vs.vec[v].siz = vs.vec[v].cap, "dangling"),
                 IF r[2] THEN Means(v, Append(vecMeant[v], vecMeant[v][i])) ELSE vecMeant)

\* Every cell of the old buffer is said to be constructed.
Reserve(v, n, b) ==
    LET r == vs.vec[v]
        h == IF r.start = NoBlock THEN AllocUninitialized(vs, n, b)
             ELSE GrowAlloc(vs, r.start, r.cap, n, r.cap, b)
    IN  Finish("reserve", IF r.cap >= n THEN vs
                          ELSE IF h.ptr = NoBlock THEN h.s
                          ELSE Set(h.s, v, h.ptr, h.count, r.siz),
               vecMeant)

\* Before the element i, or at the end.  What emplace_back returns is not looked at.
Shifted(cells, i, siz, x) ==
    [j \in DOMAIN cells |-> CASE j = i -> x
                              [] j \in i + 1..siz -> cells[j - 1]
                              [] OTHER -> cells[j]]

Insert(v, i, x, b) ==
    LET atEnd == i = vs.vec[v].siz + 1
        r == EmplaceBack(vs, v, IF atEnd THEN x ELSE Default, b)
        end == r[1].vec[v]
        s == IF atEnd THEN r[1]
             ELSE [r[1] EXCEPT !.mem[end.start] = Shifted(@, i, end.siz, x)]
    IN  /\ Fits(v, vs.vec[v].siz + 1) /\ i <= vs.vec[v].siz + 1
        /\ Finish("insert", Flag(s, ~r[2] /\ ~atEnd, "dropped"),
                  IF r[2] THEN Means(v, InsertAt(vecMeant[v], i, x))
                  ELSE IF atEnd THEN vecMeant
                  ELSE Means(v, Front(InsertAt(vecMeant[v], i, x))))

Erase(v, i) ==
    LET r == vs.vec[v]
        moved == [vs EXCEPT !.mem[r.start] =
                     [j \in DOMAIN @ |-> IF j \in i..r.siz - 1 THEN @[j + 1] ELSE @[j]]]
    IN  /\ i <= r.siz
        /\ Finish("erase", Set(Destroy(moved, r.start, r.siz, r.siz), v, r.start, r.cap, r.siz - 1),
                  Means(v, RemoveAt(vecMeant[v], i)))

PopBack(v) ==
    LET r == vs.vec[v]
    IN  IF r.siz = 0 THEN Finish("pop", Flag(vs, TRUE, "panic"), vecMeant)
        ELSE Finish("pop", Set(Destroy(vs, r.start, r.siz, r.siz), v, r.start, r.cap, r.siz - 1),
                    Means(v, Front(vecMeant[v])))

\* What memalloc answers: null, or a block; the free ones are alike, so one stands for all.
Offer == {NoBlock} \cup IF InUse(vs) = Blocks THEN {} ELSE {CHOOSE b \in Blocks : IsFree(vs, b)}

\* And if it is called only when v has no room for n.
BlockFor(v, n) == IF n <= vs.vec[v].cap THEN {NoBlock} ELSE Offer

VectorInit ==
    /\ vs \in {Fresh(e) : e \in Elem}
    /\ vecMeant = [v \in Vecs |-> <<>>]
    /\ vecLog = {}

VectorNext ==
    /\ VectorsRun
    /\ \E v \in Vecs :
          \/ Clear(v)
          \/ PopBack(v)
          \/ \E w \in Vecs : NewMove(v, w) \/ MoveAssign(v, w)
          \/ \E i \in 1..MaxVec : Erase(v, i)
          \/ \E n \in VecSizes : \E b \in BlockFor(v, n) :
                \/ NewReserve(v, n, b)
                \/ Reserve(v, n, b)
                \/ \E x \in Elements : NewFill(v, x, n, b)
          \/ \E w \in Vecs : \/ \E b \in BlockFor(v, vs.vec[w].cap) : NewCopy(v, w, b)
                            \/ \E b \in Offer : CopyAssign(v, w, b)
          \/ \E b \in Offer : ShrinkToFit(v, b)
          \/ \E b \in BlockFor(v, vs.vec[v].siz + 1) :
                \/ \E x \in Elements : PushBack(v, x, b)
                \/ \E i \in 1..MaxVec : PushOwn(v, i, b)
                \/ \E i \in 1..MaxVec + 1, x \in Elements : Insert(v, i, x, b)

VectorSpec == VectorInit /\ [][VectorNext]_vectorVars

-----------------------------------------------------------------------------
(* Properties.                                                             *)

VectorTypeOK ==
    /\ vs.elem \in Elem /\ vs.event = {}
    /\ \A b \in Blocks : vs.mem[b] \in Seq(Elements \cup {Raw})
    /\ \A v \in Vecs : vs.vec[v] \in [start : Blocks \cup {NoBlock}, cap : Nat, siz : Nat]
    /\ vecMeant \in [Vecs -> Seq(Elements)]

\* What the operations of the code do that they should not, for each kind of type:
\*  - copying over a vector moves every cell of its old buffer, constructed or not, into a new
\*    one of the other's capacity, then copies over what was moved; when there is no memory
\*    the old buffer is lost;
\*  - moving onto a vector gives the other vector a buffer whose capacity is said to be 0;
\*  - reserve moves every cell, too, and all growth of class types writes to what memalloc gave;
\*  - shrink_to_fit copies bytes instead of objects, and frees what it keeps when siz is 0;
\*  - insert ignores that there was no room, and an argument that is in the vector is freed first.
Known ==
    [trivial |-> [copyAssign |-> {"panic", "leak"}, moveAssign |-> {"leak"}, shrink |-> {"cut"},
                  insert |-> {"dropped"}, pushOwn |-> {"dangling"}, pop |-> {"panic"}],
     class   |-> [copyAssign |-> {"raw", "null", "outside", "overwritten", "leak"},
                  moveAssign |-> {"leak"}, reserve |-> {"raw", "null", "dangling"},
                  shrink |-> {"null", "dangling"}, push |-> {"null", "dangling"},
                  pushOwn |-> {"null", "dangling"},
                  insert |-> {"null", "dangling", "dropped"}, pop |-> {"panic"}]]

\* Whatever the vectors were put through, and whenever memory ran out, each holds the elements
\* its operations mean in a buffer of its own, of which exactly those are constructed, no
\* buffer is lost, and only the operations listed above go wrong, as listed.
VectorsHoldTheirContents ==
    /\ \A e \in vecLog : e[1] \in DOMAIN Known[vs.elem] /\ e[2] \in Known[vs.elem][e[1]]
    /\ InUse(vs) \subseteq Owned(vs)
    /\ \A v \in Vecs :
          LET r == vs.vec[v]
          IN  /\ r.cap = Len(Cells(vs, r.start))
              /\ r.siz <= r.cap
              /\ Elems(vs, v) = vecMeant[v]
              /\ ~Forgotten(vs, v)
              /\ \A w \in Vecs \ {v} : r.start # NoBlock => r.start # vs.vec[w].start
=============================================================================
