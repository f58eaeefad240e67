--------------------------- MODULE HeapAllocProofs ---------------------------
(***************************************************************************)
(* Proofs about HeapAlloc for every set of threads, number of buckets, set *)
(* of pages and page capacity: types, the places of blocks, and BlockPool; *)
(* and about HeapSizes, for every size of pages, headers and regions.      *)
(***************************************************************************)
EXTENDS HeapAlloc, HeapSizes, SequenceTheorems, FiniteSetTheorems, NaturalsInduction, WellFoundedInduction, TLAPS

(***************************************************************************)
(* Lists.                                                                  *)
(***************************************************************************)

\* Pushing a node on an intrusive list (node->next = head; head = node).
LEMMA ConsLemma ==
    ASSUME NEW S, NEW s \in Seq(S), NEW x \in S
    PROVE  /\ <<x>> \o s \in Seq(S)
           /\ ToSet(<<x>> \o s) = {x} \cup ToSet(s)
           /\ IsInjective(s) /\ x \notin ToSet(s) => IsInjective(<<x>> \o s)
<1> DEFINE c == <<x>> \o s
<1>1. /\ c \in Seq(S) /\ Len(c) = Len(s) + 1 /\ c[1] = x
      /\ \A i \in 1..Len(s) : c[i + 1] = s[i]
      /\ DOMAIN c = 1..(Len(s) + 1) /\ DOMAIN s = 1..Len(s) /\ Len(s) \in Nat
  OBVIOUS
<1>2. \A i \in 2..(Len(s) + 1) : i - 1 \in 1..Len(s) /\ c[i] = s[i - 1]
  BY <1>1
<1> HIDE DEF c
<1>3. \A i \in DOMAIN c : i = 1 \/ i \in 2..(Len(s) + 1)
  BY <1>1
<1>4. ToSet(c) = {x} \cup ToSet(s)
  <2>1. \A i \in DOMAIN c : c[i] \in {x} \cup ToSet(s)
    BY <1>1, <1>2, <1>3 DEF ToSet
  <2>2. \A i \in DOMAIN s : s[i] = c[i + 1] /\ i + 1 \in DOMAIN c
    BY <1>1
  <2>3. x = c[1] /\ 1 \in DOMAIN c
    BY <1>1
  <2> QED BY <2>1, <2>2, <2>3 DEF ToSet
<1>5. ASSUME IsInjective(s), x \notin ToSet(s) PROVE IsInjective(c)
  <2> SUFFICES ASSUME NEW i \in DOMAIN c, NEW j \in DOMAIN c, c[i] = c[j] PROVE i = j
    BY DEF IsInjective
  <2>1. \A k \in 2..(Len(s) + 1) : c[k] \in ToSet(s) /\ c[k] # x
    <3> SUFFICES ASSUME NEW k \in 2..(Len(s) + 1) PROVE c[k] \in ToSet(s)
      BY <1>5
    <3>1. k - 1 \in DOMAIN s /\ c[k] = s[k - 1]
      BY <1>1, <1>2
    <3> QED BY <3>1 DEF ToSet
  <2>2. CASE i \in 2..(Len(s) + 1) /\ j \in 2..(Len(s) + 1)
    <3>1. i - 1 = j - 1
      BY <2>2, <1>1, <1>2, <1>5 DEF IsInjective
    <3> QED BY <3>1, <2>2, <1>1
  <2> QED BY <1>1, <1>3, <2>1, <2>2
<1> QED BY <1>1, <1>4, <1>5 DEF c

\* Popping the head of a non-empty list.
LEMMA PopLemma ==
    ASSUME NEW S, NEW s \in Seq(S), s # <<>>
    PROVE  /\ Tail(s) \in Seq(S) /\ s[1] \in S /\ s[1] \in ToSet(s)
           /\ ToSet(Tail(s)) \subseteq ToSet(s)
           /\ IsInjective(s) => /\ IsInjective(Tail(s))
                                /\ ToSet(Tail(s)) = ToSet(s) \ {s[1]}
<1>1. /\ Tail(s) \in Seq(S) /\ Len(s) \in Nat /\ Len(s) >= 1
      /\ DOMAIN s = 1..Len(s) /\ DOMAIN Tail(s) = 1..(Len(s) - 1)
      /\ \A i \in 1..(Len(s) - 1) : Tail(s)[i] = s[i + 1]
      /\ \A i \in 1..Len(s) : s[i] \in S
  OBVIOUS
<1>2. \A i \in 2..Len(s) : i - 1 \in 1..(Len(s) - 1) /\ Tail(s)[i - 1] = s[i]
  BY <1>1
<1>3. s[1] \in S /\ s[1] \in ToSet(s) /\ ToSet(Tail(s)) \subseteq ToSet(s)
  <2>1. \A i \in DOMAIN Tail(s) : i + 1 \in DOMAIN s /\ Tail(s)[i] = s[i + 1]
    BY <1>1
  <2> QED BY <1>1, <2>1 DEF ToSet
<1>4. ASSUME IsInjective(s) PROVE IsInjective(Tail(s)) /\ ToSet(Tail(s)) = ToSet(s) \ {s[1]}
  <2>1. IsInjective(Tail(s))
    BY <1>1, <1>4 DEF IsInjective
  <2>2. s[1] \notin ToSet(Tail(s))
    BY <1>1, <1>4 DEF IsInjective, ToSet
  <2>3. ToSet(s) \ {s[1]} \subseteq ToSet(Tail(s))
    <3> SUFFICES ASSUME NEW i \in DOMAIN s, s[i] # s[1] PROVE s[i] \in ToSet(Tail(s))
      BY DEF ToSet
    <3>1. i - 1 \in DOMAIN Tail(s) /\ s[i] = Tail(s)[i - 1]
      BY <1>1
    <3> QED BY <3>1 DEF ToSet
  <2> QED BY <1>3, <2>1, <2>2, <2>3
<1> QED BY <1>1, <1>3, <1>4

\* Splicing one list in front of another (the stolen list on local_free).
LEMMA SpliceLemma ==
    ASSUME NEW S, NEW s \in Seq(S), NEW r \in Seq(S)
    PROVE  /\ s \o r \in Seq(S)
           /\ ToSet(s \o r) = ToSet(s) \cup ToSet(r)
           /\ IsInjective(s) /\ IsInjective(r) /\ ToSet(s) \cap ToSet(r) = {}
                 => IsInjective(s \o r)
<1> DEFINE c == s \o r
           m == Len(s)
<1>1. /\ c \in Seq(S) /\ Len(s) \in Nat /\ Len(r) \in Nat
      /\ DOMAIN c = 1..(m + Len(r)) /\ DOMAIN s = 1..m /\ DOMAIN r = 1..Len(r)
      /\ \A i \in 1..m : c[i] = s[i]
      /\ \A i \in 1..Len(r) : c[m + i] = r[i]
  OBVIOUS
<1>2. \A i \in (m + 1)..(m + Len(r)) : i - m \in 1..Len(r) /\ c[i] = r[i - m]
  BY <1>1
<1>3. \A i \in 1..Len(r) : m + i \in (m + 1)..(m + Len(r))
  BY <1>1
<1> HIDE DEF c, m
<1>4. ToSet(c) \subseteq ToSet(s) \cup ToSet(r)
  <2> SUFFICES ASSUME NEW i \in DOMAIN c PROVE c[i] \in ToSet(s) \cup ToSet(r)
    BY DEF ToSet
  <2>1. CASE i \in 1..m
    BY <2>1, <1>1 DEF ToSet
  <2>2. CASE i \in (m + 1)..(m + Len(r))
    BY <2>2, <1>1, <1>2 DEF ToSet
  <2> QED BY <2>1, <2>2, <1>1 DEF m
<1>5. ToSet(s) \cup ToSet(r) \subseteq ToSet(c)
  <2>1. \A i \in DOMAIN s : s[i] = c[i] /\ i \in DOMAIN c
    BY <1>1 DEF m
  <2>2. \A i \in DOMAIN r : r[i] = c[m + i] /\ m + i \in DOMAIN c
    BY <1>1, <1>3 DEF m
  <2> QED BY <2>1, <2>2 DEF ToSet
<1>6. ASSUME IsInjective(s), IsInjective(r), ToSet(s) \cap ToSet(r) = {}
      PROVE  IsInjective(c)
  <2> SUFFICES ASSUME NEW i \in DOMAIN c, NEW j \in DOMAIN c, c[i] = c[j] PROVE i = j
    BY DEF IsInjective
  <2>1. \A k \in DOMAIN c : k \in 1..m \/ k \in (m + 1)..(m + Len(r))
    BY <1>1 DEF m
  <2>2. \A k \in 1..m : c[k] \in ToSet(s)
    BY <1>1 DEF ToSet
  <2>3. \A k \in (m + 1)..(m + Len(r)) : c[k] \in ToSet(r)
    BY <1>1, <1>2 DEF ToSet
  <2>4. CASE i \in 1..m /\ j \in 1..m
    BY <2>4, <1>1, <1>6 DEF IsInjective
  <2>5. CASE i \in (m + 1)..(m + Len(r)) /\ j \in (m + 1)..(m + Len(r))
    <3>1. i - m = j - m
      BY <2>5, <1>1, <1>2, <1>6 DEF IsInjective
    <3> QED BY <3>1, <2>5, <1>1 DEF m
  <2>6. CASE (i \in 1..m) # (j \in 1..m)
    BY <2>1, <2>2, <2>3, <2>6, <1>6
  <2> QED BY <2>1, <2>4, <2>5, <2>6
<1> QED BY <1>1, <1>4, <1>5, <1>6 DEF c

\* Unlinking a page from the thread's list.
LEMMA RemoveAtLemma ==
    ASSUME NEW S, NEW s \in Seq(S), NEW i \in DOMAIN s
    PROVE  /\ RemoveAt(s, i) \in Seq(S)
           /\ ToSet(RemoveAt(s, i)) \subseteq ToSet(s)
           /\ IsInjective(s) => /\ IsInjective(RemoveAt(s, i))
                                /\ s[i] \notin ToSet(RemoveAt(s, i))
<1> DEFINE a == SubSeq(s, 1, i - 1)
           b == SubSeq(s, i + 1, Len(s))
<1>1. /\ i \in 1..Len(s) /\ Len(s) \in Nat /\ DOMAIN s = 1..Len(s)
  OBVIOUS
<1>2. /\ a \in Seq(S) /\ DOMAIN a = 1..(i - 1)
      /\ \A k \in 1..(i - 1) : a[k] = s[k]
  BY <1>1
<1>3. /\ b \in Seq(S) /\ DOMAIN b = 1..(Len(s) - i)
      /\ \A k \in 1..(Len(s) - i) : b[k] = s[i + k]
  BY <1>1
<1>4. RemoveAt(s, i) = a \o b
  BY DEF RemoveAt
<1> HIDE DEF a, b
<1>5. ToSet(a) \subseteq ToSet(s) /\ ToSet(b) \subseteq ToSet(s)
  <2>1. \A k \in DOMAIN a : k \in DOMAIN s /\ a[k] = s[k]
    BY <1>1, <1>2
  <2>2. \A k \in DOMAIN b : i + k \in DOMAIN s /\ b[k] = s[i + k]
    BY <1>1, <1>3
  <2> QED BY <2>1, <2>2 DEF ToSet
<1>6. ASSUME IsInjective(s)
      PROVE  /\ IsInjective(a) /\ IsInjective(b) /\ ToSet(a) \cap ToSet(b) = {}
             /\ s[i] \notin ToSet(a) \cup ToSet(b)
  <2>1. IsInjective(a)
    BY <1>1, <1>2, <1>6 DEF IsInjective
  <2>2. IsInjective(b)
    <3> SUFFICES ASSUME NEW k \in DOMAIN b, NEW l \in DOMAIN b, b[k] = b[l] PROVE k = l
      BY DEF IsInjective
    <3>1. i + k \in DOMAIN s /\ i + l \in DOMAIN s /\ s[i + k] = s[i + l]
      BY <1>1, <1>3
    <3>2. i + k = i + l
      BY <3>1, <1>6 DEF IsInjective
    <3> QED BY <3>2, <1>1, <1>3
  <2>3. ToSet(a) \cap ToSet(b) = {}
    <3> SUFFICES ASSUME NEW k \in DOMAIN a, NEW l \in DOMAIN b, a[k] = b[l] PROVE FALSE
      BY DEF ToSet
    <3>1. k \in DOMAIN s /\ i + l \in DOMAIN s /\ s[k] = s[i + l] /\ k # i + l
      BY <1>1, <1>2, <1>3
    <3> QED BY <3>1, <1>6 DEF IsInjective
  <2>4. s[i] \notin ToSet(a)
    BY <1>1, <1>2, <1>6 DEF IsInjective, ToSet
  <2>5. s[i] \notin ToSet(b)
    BY <1>1, <1>3, <1>6 DEF IsInjective, ToSet
  <2> QED BY <2>1, <2>2, <2>3, <2>4, <2>5
<1> QED BY <1>2, <1>3, <1>4, <1>5, <1>6, SpliceLemma

\* An injective list is as long as the set of its nodes is large.
LEMMA LengthLemma ==
    ASSUME NEW S, NEW s \in Seq(S), IsInjective(s)
    PROVE  IsFiniteSet(ToSet(s)) /\ Cardinality(ToSet(s)) = Len(s)
<1>1. s \in Bijection(1..Len(s), ToSet(s))
  BY DEF Bijection, Injection, Surjection, IsInjective, ToSet
<1>2. ExistsBijection(1..Len(s), ToSet(s)) /\ Len(s) \in Nat
  BY <1>1 DEF ExistsBijection
<1> QED BY <1>2, FS_CountingElements, FS_NatBijection

\* A push that saw the current head links the whole list behind the new node.
LEMMA FromLemma ==
    ASSUME NEW S, NEW s \in Seq(S), None \notin S
    PROVE  /\ \A y : From(s, y) \in Seq(S)
           /\ IsInjective(s) => From(s, Top(s)) = s
<1>1. ASSUME NEW y PROVE From(s, y) \in Seq(S)
  <2>1. CASE \E i \in DOMAIN s : s[i] = y
    <3>1. PICK i \in DOMAIN s : i = CHOOSE j \in DOMAIN s : s[j] = y
      BY <2>1
    <3>2. From(s, y) = SubSeq(s, i, Len(s))
      BY <2>1, <3>1 DEF From
    <3> QED BY <3>2
  <2>2. CASE ~\E i \in DOMAIN s : s[i] = y
    BY <2>2 DEF From
  <2> QED BY <2>1, <2>2
<1>2. ASSUME IsInjective(s) PROVE From(s, Top(s)) = s
  <2>1. CASE s = <<>>
    BY <2>1 DEF From, Top
  <2>2. CASE s # <<>>
    <3>1. 1 \in DOMAIN s /\ Top(s) = s[1]
      BY <2>2 DEF Top
    <3>2. (CHOOSE i \in DOMAIN s : s[i] = s[1]) = 1
      BY <3>1, <1>2 DEF IsInjective
    <3>3. From(s, Top(s)) = SubSeq(s, 1, Len(s))
      BY <3>1, <3>2 DEF From
    <3> QED BY <3>3
  <2> QED BY <2>1, <2>2
<1> QED BY <1>1, <1>2

\* What carving a page leaves on the free list: its blocks but the first, once each.
LEMMA CarvedLemma ==
    ASSUME NEW f \in Pages
    PROVE  /\ Carved(f) \in Seq(Handle)
           /\ ToSet(Carved(f)) = Slots(f) \ {<<f, 1>>}
           /\ IsInjective(Carved(f))
<1>1. Capacity \in Nat /\ Capacity >= 1
  BY SizesAssumption
<1>2. /\ DOMAIN Carved(f) = 1..(Capacity - 1)
      /\ \A i \in 1..(Capacity - 1) : Carved(f)[i] = <<f, i + 1>> /\ i + 1 \in Slot
  BY <1>1 DEF Carved, Slot
<1>3. Carved(f) \in [1..(Capacity - 1) -> Handle]
  BY <1>1, <1>2 DEF Carved, Handle, Block
<1>4. Carved(f) \in Seq(Handle)
  BY <1>1, <1>3
<1>5. ToSet(Carved(f)) \subseteq Slots(f) \ {<<f, 1>>}
  <2> SUFFICES ASSUME NEW i \in DOMAIN Carved(f)
               PROVE  Carved(f)[i] \in Slots(f) /\ Carved(f)[i] # <<f, 1>>
    BY DEF ToSet
  <2>1. Carved(f)[i] = <<f, i + 1>> /\ i + 1 \in Slot /\ i + 1 # 1
    BY <1>1, <1>2
  <2> QED BY <2>1 DEF Slots
<1>6. Slots(f) \ {<<f, 1>>} \subseteq ToSet(Carved(f))
  <2> SUFFICES ASSUME NEW j \in Slot, j # 1 PROVE <<f, j>> \in ToSet(Carved(f))
    BY DEF Slots
  <2>1. j - 1 \in DOMAIN Carved(f) /\ Carved(f)[j - 1] = <<f, j>>
    BY <1>1, <1>2 DEF Slot
  <2> QED BY <2>1 DEF ToSet
<1>7. IsInjective(Carved(f))
  BY <1>1, <1>2 DEF IsInjective
<1> QED BY <1>4, <1>5, <1>6, <1>7

\* A handle is a page and a slot number; 0 is the payload of a large allocation.
LEMMA HandleLemma ==
    /\ \A x \in Handle : x[1] \in Pages /\ x = <<x[1], x[2]>> /\ (x[2] = 0 <=> x \notin Block)
    /\ \A f \in Pages : <<f, 0>> \in Handle /\ <<f, 1>> \in Block
    /\ \A f \in Pages : Slots(f) \subseteq Block
    /\ \A x \in Block : x \in Slots(x[1])
    /\ Block \subseteq Handle
    /\ None \notin Handle
  BY SizesAssumption, NoneAssumption DEF Handle, Block, Large, Slot, Slots

(***************************************************************************)
(* Type correctness.                                                       *)
(***************************************************************************)

\* The record of a thread outside the allocator.
LEMMA IdleType == Idle \in OpType /\ Idle.blk = None /\ Idle.pc = "idle"
  BY SizesAssumption DEF Idle, OpType, Bucket

\* Counting a block in or out of a page's header.
LEMMA UsedType ==
    ASSUME NEW h \in HeaderType, NEW n \in Int
    PROVE  [h EXCEPT !.used = n] \in HeaderType
  BY DEF HeaderType

\* grow takes the old block from the caller and hands out the new one.
LEMMA HandOverType ==
    ASSUME NEW h \in [Handle -> Nat], NEW x \in Handle, NEW y \in Handle, h[x] > 0
    PROVE  [h EXCEPT ![x] = @ - 1, ![y] = @ + 1] \in [Handle -> Nat]
<1> DEFINE g == [h EXCEPT ![x] = @ - 1]
<1>1. g \in [Handle -> Nat]
  OBVIOUS
<1>2. [g EXCEPT ![y] = @ + 1] \in [Handle -> Nat]
  BY <1>1
<1> QED BY <1>2

\* Deliver and PopLocal keep the types of what they write.
LEMMA DeliverType ==
    ASSUME TypeOK, NEW t \in Threads, NEW x \in Handle, NEW old \in Handle \cup {None},
           Deliver(t, x, old)
    PROVE  /\ held' \in [Handle -> Nat]
           /\ op' \in [Threads -> OpType]
           /\ \A u \in Threads : op'[u].pc \in {"drop", "push"} => op'[u].blk # None
<1>1. held' \in [Handle -> Nat]
  BY DEF Deliver, TypeOK
<1>2. old # None => Dropping(old) \in OpType /\ Dropping(old).blk = old
  BY IdleType DEF Dropping, OpType, Idle
<1> QED BY <1>1, <1>2, IdleType DEF Deliver, TypeOK

\* Popping a free list.
LEMMA PopLocalType ==
    ASSUME TypeOK, NEW t \in Threads, NEW b \in Bucket, NEW old \in Handle \cup {None},
           PopLocal(t, b, old)
    PROVE  TypeOK'
<1> DEFINE x == local[t][b][1]
<1>1. local[t][b] \in Seq(Handle) /\ local[t][b] # <<>>
  BY DEF TypeOK, PopLocal
<1>2. x \in Handle /\ Tail(local[t][b]) \in Seq(Handle)
  BY <1>1, PopLemma
<1>3. x[1] \in Pages
  BY <1>2, HandleLemma
<1>4. local' \in [Threads -> [Bucket -> Seq(Handle)]]
  BY <1>2 DEF TypeOK, PopLocal
<1>5. header' \in [Pages -> HeaderType]
  <2>1. header[x[1]] \in HeaderType /\ header[x[1]].used + 1 \in Int
    BY <1>3 DEF TypeOK, HeaderType
  <2>2. [header[x[1]] EXCEPT !.used = header[x[1]].used + 1] \in HeaderType
    BY <2>1, UsedType
  <2>3. header' = [header EXCEPT ![x[1]].used = header[x[1]].used + 1]
    BY DEF PopLocal, UsedAfterPop
  <2> HIDE DEF x
  <2> QED BY <1>3, <2>2, <2>3 DEF TypeOK
<1>6. Deliver(t, x, old)
  BY DEF PopLocal
<1> QED BY <1>2, <1>4, <1>5, <1>6, DeliverType DEF TypeOK, PopLocal

\* The three branches of dealloc.
LEMMA DeallocType ==
    ASSUME TypeOK, NEW t \in Threads, NEW x \in Handle, Dealloc(t, x),
           UNCHANGED <<pages, released>>, held' \in [Handle -> Nat]
    PROVE  TypeOK'
<1> DEFINE f == x[1]
<1>1. f \in Pages /\ header[f] \in HeaderType
  BY HandleLemma DEF TypeOK
<1>2. CASE /\ live' = live \ {f}
           /\ op' = [op EXCEPT ![t] = Idle]
           /\ UNCHANGED <<header, cross, local>>
  BY <1>2, IdleType DEF TypeOK
<1>3. CASE /\ local' = [local EXCEPT ![t][header[f].bucket] = <<x>> \o @]
           /\ header' = [header EXCEPT ![f].used = UsedAfterOwnFree(f)]
           /\ op' = [op EXCEPT ![t] = Idle]
           /\ UNCHANGED <<live, cross>>
  <2>1. header[f].bucket \in Bucket /\ header[f].used - 1 \in Int
    BY <1>1 DEF HeaderType
  <2>2. <<x>> \o local[t][header[f].bucket] \in Seq(Handle)
    BY <2>1, ConsLemma DEF TypeOK
  <2>3. local' \in [Threads -> [Bucket -> Seq(Handle)]]
    BY <1>3, <2>1, <2>2 DEF TypeOK
  <2>4. header' \in [Pages -> HeaderType]
    BY <1>1, <1>3, <2>1 DEF TypeOK, HeaderType, UsedAfterOwnFree
  <2> QED BY <1>3, <2>3, <2>4, IdleType DEF TypeOK
<1>4. CASE /\ op' = [op EXCEPT ![t] = Pushing(x, Top(cross[f]))]
           /\ UNCHANGED <<live, header, cross, local>>
  <2>1. Top(cross[f]) \in Handle \cup {None}
    BY <1>1 DEF TypeOK, Top
  <2>2. Pushing(x, Top(cross[f])) \in OpType /\ Pushing(x, Top(cross[f])).blk # None
    BY <2>1, IdleType, HandleLemma DEF Pushing, OpType, Idle
  <2> QED BY <1>4, <2>2 DEF TypeOK
<1> QED BY <1>2, <1>3, <1>4 DEF Dealloc

\* Taking a page for a large allocation.
LEMMA TakeLargeType ==
    ASSUME TypeOK, NEW t \in Threads, NEW f \in Pages, NEW old, TakeLarge(t, f, old)
    PROVE  /\ live' \subseteq Pages
           /\ header' \in [Pages -> HeaderType]
           /\ cross' \in [Pages -> Seq(Handle)]
<1>1. LargeHeader(t) \in HeaderType
  BY SizesAssumption DEF LargeHeader, HeaderType, Bucket
<1> QED BY <1>1 DEF TakeLarge, TypeOK

\* The initial state is well typed.
LEMMA InitType == Init => TypeOK
<1> SUFFICES ASSUME Init PROVE TypeOK
  OBVIOUS
<1>1. [LargeHeader(None) EXCEPT !.large = FALSE] \in HeaderType
  <2>1. 1 \in Bucket /\ 0 \in Int
    BY SizesAssumption DEF Bucket
  <2>2. LargeHeader(None) \in HeaderType
    BY <2>1 DEF LargeHeader, HeaderType
  <2> QED BY <2>2 DEF HeaderType
<1> QED BY <1>1, IdleType DEF Init, TypeOK

\* Every step keeps the types.
LEMMA NextType == TypeOK /\ [Next]_vars => TypeOK'
<1> SUFFICES ASSUME TypeOK, [Next]_vars PROVE TypeOK'
  OBVIOUS
<1>1. ASSUME NEW t \in Threads, NEW b \in Bucket, AllocFast(t, b) PROVE TypeOK'
  BY <1>1, PopLocalType DEF AllocFast
<1>2. ASSUME NEW t \in Threads, NEW b \in Bucket, AllocSlow(t, b) PROVE TypeOK'
  <2>1. Sweeping(b, None) \in OpType /\ Sweeping(b, None).pc = "sweep"
    BY IdleType DEF Sweeping, OpType, Idle
  <2> QED BY <1>2, <2>1 DEF AllocSlow, TypeOK
<1>3. ASSUME NEW t \in Threads, SweepPage(t) PROVE TypeOK'
  <2> DEFINE b == op[t].bucket
             i == op[t].at
             f == pages[t][b][i]
             left == header[f].used - FreedCount(f)
  <2>1. b \in Bucket /\ i \in Nat /\ i \in DOMAIN pages[t][b] /\ pages[t][b] \in Seq(Pages)
    <3>1. op[t] \in OpType
      BY DEF TypeOK
    <3>2. b \in Bucket /\ i \in Nat
      BY <3>1 DEF OpType
    <3>3. i \in DOMAIN pages[t][b]
      BY <1>3 DEF SweepPage
    <3> QED BY <3>2, <3>3 DEF TypeOK
  <2>2. f \in Pages /\ cross[f] \in Seq(Handle) /\ local[t][b] \in Seq(Handle)
    BY <2>1 DEF TypeOK
  <2>3. left \in Int /\ cross[f] \o local[t][b] \in Seq(Handle)
    BY <2>2, SpliceLemma DEF TypeOK, HeaderType, FreedCount
  <2>4. RemoveAt(pages[t][b], i) \in Seq(Pages)
    BY <2>1, RemoveAtLemma
  <2>5. /\ local' = [local EXCEPT ![t][b] = cross[f] \o @]
        /\ cross' = [cross EXCEPT ![f] = <<>>]
        /\ header' = [header EXCEPT ![f].used = left]
        /\ held' = held
        /\ \/ /\ pages' = [pages EXCEPT ![t][b] = RemoveAt(@, i)]
              /\ live' = live \ {f}
              /\ released' = released \cup {f}
              /\ op' = op
           \/ /\ op' = [op EXCEPT ![t].at = i + 1]
              /\ UNCHANGED <<pages, live, released>>
    BY <1>3 DEF SweepPage
  <2>6. [header[f] EXCEPT !.used = left] \in HeaderType
    BY <2>2, <2>3, UsedType DEF TypeOK
  <2>7. [op[t] EXCEPT !.at = i + 1] \in OpType
    <3>1. op[t] \in OpType /\ i + 1 \in Nat \ {0}
      BY <2>1 DEF TypeOK
    <3> QED BY <3>1 DEF OpType
  <2> HIDE DEF b, i, f, left
  <2>8. local' \in [Threads -> [Bucket -> Seq(Handle)]]
    BY <2>1, <2>3, <2>5 DEF TypeOK
  <2>9. cross' \in [Pages -> Seq(Handle)]
    BY <2>2, <2>5 DEF TypeOK
  <2>10. header' \in [Pages -> HeaderType]
    BY <2>2, <2>5, <2>6 DEF TypeOK
  <2>11. /\ pages' \in [Threads -> [Bucket -> Seq(Pages)]]
         /\ live' \subseteq Pages /\ released' \subseteq Pages
    <3>1. CASE pages' = [pages EXCEPT ![t][b] = RemoveAt(@, i)] /\ live' = live \ {f}
               /\ released' = released \cup {f}
      <4>1. pages' \in [Threads -> [Bucket -> Seq(Pages)]]
        BY <2>1, <2>4, <3>1 DEF TypeOK
      <4> QED BY <2>2, <3>1, <4>1 DEF TypeOK
    <3>2. CASE UNCHANGED <<pages, live, released>>
      BY <3>2 DEF TypeOK
    <3> QED BY <2>5, <3>1, <3>2
  <2>12. op' \in [Threads -> OpType] /\ \A u \in Threads : op'[u].pc = op[u].pc /\ op'[u].blk = op[u].blk
    <3>1. CASE op' = op
      BY <3>1 DEF TypeOK
    <3>2. CASE op' = [op EXCEPT ![t].at = i + 1]
      BY <2>7, <3>2 DEF TypeOK, OpType
    <3> QED BY <2>5, <3>1, <3>2
  <2> QED BY <2>5, <2>8, <2>9, <2>10, <2>11, <2>12 DEF TypeOK
<1>4. ASSUME NEW t \in Threads, SlowPop(t) PROVE TypeOK'
  <2>1. op[t].bucket \in Bucket /\ op[t].blk \in Handle \cup {None}
    BY DEF TypeOK, OpType
  <2> QED BY <1>4, <2>1, PopLocalType DEF SlowPop
<1>5. ASSUME NEW t \in Threads, SlowFail(t) PROVE TypeOK'
  <2>1. held' \in [Handle -> Nat]
    BY <1>5 DEF SlowFail, TypeOK, OpType
  <2> QED BY <1>5, <2>1, IdleType DEF SlowFail, TypeOK
<1>6. ASSUME NEW t \in Threads, NEW f \in Pages, SlowCarve(t, f) PROVE TypeOK'
  <2> DEFINE b == op[t].bucket
  <2>1. b \in Bucket /\ op[t].blk \in Handle \cup {None}
    BY DEF TypeOK, OpType
  <2>2. SmallHeader(t, b) \in HeaderType
    BY <2>1 DEF SmallHeader, HeaderType
  <2>3. <<f>> \o pages[t][b] \in Seq(Pages)
    BY <2>1, ConsLemma DEF TypeOK
  <2>4. local' \in [Threads -> [Bucket -> Seq(Handle)]]
    BY <1>6, <2>1, CarvedLemma DEF SlowCarve, TypeOK
  <2>5. pages' \in [Threads -> [Bucket -> Seq(Pages)]]
    BY <1>6, <2>1, <2>3 DEF SlowCarve, TypeOK
  <2>6. header' \in [Pages -> HeaderType] /\ cross' \in [Pages -> Seq(Handle)] /\ live' \subseteq Pages
    BY <1>6, <2>2 DEF SlowCarve, TypeOK
  <2>7. <<f, 1>> \in Handle /\ Deliver(t, <<f, 1>>, op[t].blk)
    BY <1>6, HandleLemma DEF SlowCarve
  <2> QED BY <1>6, <2>1, <2>4, <2>5, <2>6, <2>7, DeliverType DEF SlowCarve, TypeOK
<1>7. ASSUME NEW t \in Threads, NEW f \in Pages, AllocLarge(t, f) PROVE TypeOK'
  <2>1. <<f, 0>> \in Handle /\ Deliver(t, <<f, 0>>, None) /\ TakeLarge(t, f, None)
    BY <1>7, HandleLemma DEF AllocLarge
  <2> QED BY <2>1, DeliverType, TakeLargeType DEF TakeLarge, TypeOK
<1>8. ASSUME NEW t \in Threads, NEW x \in Handle, Free(t, x) PROVE TypeOK'
  <2>1. held' \in [Handle -> Nat]
    BY <1>8 DEF Free, TypeOK
  <2> QED BY <1>8, <2>1, DeallocType DEF Free
<1>9. ASSUME NEW t \in Threads, DropOld(t) PROVE TypeOK'
  <2>1. op[t].blk \in Handle
    BY <1>9 DEF DropOld, TypeOK, OpType
  <2> QED BY <1>9, <2>1, DeallocType DEF DropOld, TypeOK
<1>10. ASSUME NEW t \in Threads, PushOk(t) PROVE TypeOK'
  <2> DEFINE x == op[t].blk
  <2>1. x \in Handle /\ x[1] \in Pages /\ cross[x[1]] \in Seq(Handle)
    BY <1>10, HandleLemma DEF PushOk, TypeOK, OpType
  <2>2. From(cross[x[1]], op[t].seen) \in Seq(Handle)
    BY <2>1, FromLemma, HandleLemma
  <2>3. <<x>> \o From(cross[x[1]], op[t].seen) \in Seq(Handle)
    BY <2>1, <2>2, ConsLemma
  <2>4. cross' \in [Pages -> Seq(Handle)]
    BY <1>10, <2>1, <2>3 DEF PushOk, TypeOK
  <2> QED BY <1>10, <2>4, IdleType DEF PushOk, TypeOK
<1>11. ASSUME NEW t \in Threads, PushRetry(t) PROVE TypeOK'
  <2>1. op[t].blk \in Handle /\ op[t].blk[1] \in Pages
    BY <1>11, HandleLemma DEF PushRetry, TypeOK, OpType
  <2>2. Top(cross[op[t].blk[1]]) \in Handle \cup {None}
    BY <2>1 DEF Top, TypeOK
  <2>3. op' \in [Threads -> OpType] /\ \A u \in Threads : op'[u].pc = op[u].pc /\ op'[u].blk = op[u].blk
    BY <1>11, <2>2 DEF PushRetry, TypeOK, OpType
  <2> QED BY <1>11, <2>3 DEF PushRetry, TypeOK
<1>12. ASSUME NEW t \in Threads, NEW x \in Handle, NEW b \in Bucket, GrowFast(t, x, b) PROVE TypeOK'
  <2> DEFINE y == local[t][b][1]
  <2>1. local[t][b] \in Seq(Handle) /\ local[t][b] # <<>>
    BY <1>12 DEF GrowFast, TypeOK
  <2>2. y \in Handle /\ y[1] \in Pages /\ Tail(local[t][b]) \in Seq(Handle)
    BY <2>1, PopLemma, HandleLemma
  <2>3. local' \in [Threads -> [Bucket -> Seq(Handle)]]
    BY <1>12, <2>2 DEF GrowFast, TypeOK
  <2>4. header' \in [Pages -> HeaderType]
    <3>1. header[y[1]] \in HeaderType /\ header[y[1]].used + 1 \in Int
      BY <2>2 DEF TypeOK, HeaderType
    <3>2. [header[y[1]] EXCEPT !.used = header[y[1]].used + 1] \in HeaderType
      BY <3>1, UsedType
    <3>3. header' = [header EXCEPT ![y[1]].used = header[y[1]].used + 1]
      BY <1>12 DEF GrowFast, UsedAfterPop
    <3> HIDE DEF y
    <3> QED BY <2>2, <3>2, <3>3 DEF TypeOK
  <2>5. held' \in [Handle -> Nat]
    BY <1>12, <2>2, HandOverType DEF GrowFast, TypeOK
  <2>6. Dropping(x) \in OpType /\ Dropping(x).blk = x /\ x # None
    BY IdleType, HandleLemma DEF Dropping, OpType, Idle
  <2> QED BY <1>12, <2>3, <2>4, <2>5, <2>6 DEF GrowFast, TypeOK
<1>13. ASSUME NEW t \in Threads, NEW x \in Handle, NEW b \in Bucket, GrowSlow(t, x, b) PROVE TypeOK'
  <2>1. Sweeping(b, x) \in OpType /\ Sweeping(b, x).pc = "sweep"
    BY IdleType DEF Sweeping, OpType, Idle
  <2>2. held' \in [Handle -> Nat]
    BY <1>13 DEF GrowSlow, TypeOK
  <2> QED BY <1>13, <2>1, <2>2 DEF GrowSlow, TypeOK
<1>14. ASSUME NEW t \in Threads, NEW x \in Handle, NEW f \in Pages, GrowToLarge(t, x, f) PROVE TypeOK'
  <2>1. Dropping(x) \in OpType /\ Dropping(x).blk = x /\ x # None
    BY IdleType, HandleLemma DEF Dropping, OpType, Idle
  <2>2. held' \in [Handle -> Nat]
    BY <1>14, HandleLemma, HandOverType DEF GrowToLarge, TypeOK
  <2> QED BY <1>14, <2>1, <2>2, TakeLargeType DEF GrowToLarge, TakeLarge, TypeOK
<1>15. ASSUME NEW t \in Threads, NEW f \in Pages, NEW g \in Pages, MoveLarge(t, f, g) PROVE TypeOK'
  <2>1. \A o \in {header[f].owner, t} : LargeHeader(o) \in HeaderType
    BY SizesAssumption DEF LargeHeader, HeaderType, Bucket, TypeOK
  <2>2. header' \in [Pages -> HeaderType]
    BY <1>15, <2>1 DEF MoveLarge, TypeOK
  <2>3. held' \in [Handle -> Nat]
    BY <1>15, HandleLemma, HandOverType DEF MoveLarge, TypeOK
  <2>4. live' \subseteq Pages /\ cross' \in [Pages -> Seq(Handle)] /\ UNCHANGED <<local, pages, op, released>>
    BY <1>15 DEF MoveLarge, TypeOK
  <2> QED BY <2>2, <2>3, <2>4 DEF TypeOK
<1>16. CASE UNCHANGED vars
  BY <1>16 DEF vars, TypeOK
<1> QED
  BY <1>1, <1>2, <1>3, <1>4, <1>5, <1>6, <1>7, <1>8, <1>9, <1>10, <1>11, <1>12, <1>13, <1>14,
     <1>15, <1>16 DEF Next

\* Every state heap_allocator reaches is well typed: its lists, headers and
\* running operations never point outside the pages, released pages or not.
THEOREM TypeCorrect == Spec => []TypeOK
<1> QED BY InitType, NextType, PTL DEF Spec

-----------------------------------------------------------------------------
(* Places.                                                                 *)

\* A free list has blocks of carved pages of its own thread and bucket ...
LocalHome ==
    \A t \in Threads, b \in Bucket : \A x \in ToSet(local[t][b]) :
        x \in Block /\ x[1] \in SmallPages /\ header[x[1]].owner = t /\ header[x[1]].bucket = b

\* ... a page's cross-thread stack has blocks of that page ...
CrossHome == \A f \in Pages : \A x \in ToSet(cross[f]) : x \in Block /\ x[1] = f /\ f \in SmallPages

\* ... thread_cache.pages has carved pages of that thread and bucket ...
PagesHome ==
    \A t \in Threads, b \in Bucket : \A f \in ToSet(pages[t][b]) :
        f \in SmallPages /\ header[f].owner = t /\ header[f].bucket = b

\* ... callers have blocks of carved pages and payloads of large ones ...
HeldHome == \A x \in Handle : Held(x) => x[1] \in live /\ (x \in Block <=> ~header[x[1]].large)

\* ... grow and dealloc work on blocks of carved pages ...
OpHome ==
    \A t \in Threads :
        /\ op[t].pc = "idle" => op[t].blk = None
        /\ op[t].blk # None => op[t].blk \in Block /\ op[t].blk[1] \in SmallPages

\* ... and every carved page has an owner.
OwnerHome == \A f \in SmallPages : header[f].owner \in Threads

Home == LocalHome /\ CrossHome /\ PagesHome /\ HeldHome /\ OpHome /\ OwnerHome

\* The blocks of f that used_count counts.
InUse(f) == Slots(f) \ ToSet(local[header[f].owner][header[f].bucket])
Exact == \A f \in SmallPages : header[f].used = Cardinality(InUse(f))

Placed == Home /\ Somewhere /\ NowhereElse /\ Once /\ Exact
IInv == TypeOK /\ (Intact => Placed)

\* What most steps leave alone: which pages are carved, by whom, for what.
SameSmall ==
    /\ SmallPages' = SmallPages
    /\ \A f \in SmallPages : header'[f].owner = header[f].owner /\ header'[f].bucket = header[f].bucket

\* The lists of Once.
LocalOnce ==
    /\ \A t \in Threads, b \in Bucket : IsInjective(local[t][b])
    /\ \A t, u \in Threads, b, c \in Bucket :
          ToSet(local[t][b]) \cap ToSet(local[u][c]) # {} => t = u /\ b = c

-----------------------------------------------------------------------------
(* One place at a time.                                                    *)

\* A thread's free list becomes r, whose new blocks are on no free list yet.
LEMMA LocalLemma ==
    ASSUME TypeOK, LocalOnce, NEW t \in Threads, NEW b \in Bucket, NEW r \in Seq(Handle),
           local' = [local EXCEPT ![t][b] = r], IsInjective(r),
           \A x \in ToSet(r) : Cached(x) => x \in ToSet(local[t][b])
    PROVE  /\ LocalOnce'
           /\ \A x \in Handle :
                 Cached(x)' <=> x \in ToSet(r) \/ (Cached(x) /\ x \notin ToSet(local[t][b]))
<1>1. /\ local'[t][b] = r
      /\ \A u \in Threads, c \in Bucket : u # t \/ c # b => local'[u][c] = local[u][c]
  BY DEF TypeOK
<1>2. \A u \in Threads, c \in Bucket : IsInjective(local'[u][c])
  BY <1>1 DEF LocalOnce
<1>3. ASSUME NEW u \in Threads, NEW v \in Threads, NEW c \in Bucket, NEW d \in Bucket,
             NEW x \in ToSet(local'[u][c]) \cap ToSet(local'[v][d])
      PROVE  u = v /\ c = d
  <2>1. CASE u = t /\ c = b /\ ~(v = t /\ d = b)
    <3>1. x \in ToSet(r) /\ x \in ToSet(local[v][d])
      BY <1>1, <1>3, <2>1
    <3>2. x \in ToSet(local[t][b])
      BY <3>1 DEF Cached
    <3> QED BY <3>1, <3>2 DEF LocalOnce
  <2>2. CASE v = t /\ d = b /\ ~(u = t /\ c = b)
    <3>1. x \in ToSet(r) /\ x \in ToSet(local[u][c])
      BY <1>1, <1>3, <2>2
    <3>2. x \in ToSet(local[t][b])
      BY <3>1 DEF Cached
    <3> QED BY <3>1, <3>2 DEF LocalOnce
  <2>3. CASE ~(u = t /\ c = b) /\ ~(v = t /\ d = b)
    BY <1>1, <1>3, <2>3 DEF LocalOnce
  <2> QED BY <2>1, <2>2, <2>3
<1>4. LocalOnce'
  BY <1>2, <1>3 DEF LocalOnce
<1>5. ASSUME NEW x \in Handle
      PROVE  Cached(x)' <=> x \in ToSet(r) \/ (Cached(x) /\ x \notin ToSet(local[t][b]))
  <2>1. ASSUME Cached(x)' PROVE x \in ToSet(r) \/ (Cached(x) /\ x \notin ToSet(local[t][b]))
    <3>1. PICK u \in Threads, c \in Bucket : x \in ToSet(local'[u][c])
      BY <2>1 DEF Cached
    <3>2. CASE u = t /\ c = b
      BY <1>1, <3>1, <3>2
    <3>3. CASE ~(u = t /\ c = b)
      <4>1. x \in ToSet(local[u][c])
        BY <1>1, <3>1, <3>3
      <4>2. x \notin ToSet(local[t][b])
        BY <3>3, <4>1 DEF LocalOnce
      <4> QED BY <4>1, <4>2 DEF Cached
    <3> QED BY <3>2, <3>3
  <2>2. ASSUME x \in ToSet(r) PROVE Cached(x)'
    BY <1>1, <2>2 DEF Cached
  <2>3. ASSUME Cached(x), x \notin ToSet(local[t][b]) PROVE Cached(x)'
    <3>1. PICK u \in Threads, c \in Bucket : x \in ToSet(local[u][c])
      BY <2>3 DEF Cached
    <3>2. x \in ToSet(local'[u][c])
      BY <1>1, <2>3, <3>1
    <3> QED BY <3>2 DEF Cached
  <2> QED BY <2>1, <2>2, <2>3
<1> QED BY <1>4, <1>5

\* An operation's record changes: the block it works on is the new record's.
LEMMA OpLemma ==
    ASSUME TypeOK, NEW t \in Threads, NEW o, op' = [op EXCEPT ![t] = o]
    PROVE  \A x \in Handle :
              Moving(x)' <=> o.blk = x \/ \E u \in Threads : u # t /\ op[u].blk = x
<1>1. op'[t] = o /\ \A u \in Threads : u # t => op'[u] = op[u]
  BY DEF TypeOK
<1> QED BY <1>1 DEF Moving

\* The blocks of a page are finitely many.
LEMMA SlotsFinite == \A f \in Pages : IsFiniteSet(Slots(f)) /\ IsFiniteSet(InUse(f))
<1> SUFFICES ASSUME NEW f \in Pages PROVE IsFiniteSet(Slots(f)) /\ IsFiniteSet(InUse(f))
  OBVIOUS
<1>1. IsFiniteSet(Slot) /\ IsFiniteSet({f})
  <2>1. 1 \in Int /\ Capacity \in Int
    BY SizesAssumption
  <2> QED BY <2>1, FS_Interval, FS_Singleton DEF Slot
<1>2. IsFiniteSet(Slots(f))
  BY <1>1, FS_Product DEF Slots
<1> QED BY <1>2, FS_Difference DEF InUse

\* Popping a free list and counting the block in.
LEMMA PopPlaces ==
    ASSUME TypeOK, Placed, NEW t \in Threads, NEW b \in Bucket, local[t][b] # <<>>,
           local' = [local EXCEPT ![t][b] = Tail(@)],
           header' = [header EXCEPT ![local[t][b][1][1]].used = UsedAfterPop(local[t][b][1][1])],
           live' = live
    PROVE  /\ local[t][b][1] \in Block /\ local[t][b][1][1] \in SmallPages
           /\ Cached(local[t][b][1])
           /\ SameSmall /\ LocalOnce' /\ LocalHome' /\ Exact'
           /\ \A f \in Pages : header'[f].large = header[f].large
           /\ \A y \in Handle : Cached(y)' <=> Cached(y) /\ y # local[t][b][1]
<1> DEFINE x == local[t][b][1]
           g == x[1]
           r == Tail(local[t][b])
<1>1. local[t][b] \in Seq(Handle) /\ IsInjective(local[t][b]) /\ LocalOnce
  <2>1. local[t][b] \in Seq(Handle)
    BY DEF TypeOK
  <2> QED BY <2>1 DEF Placed, Once, LocalOnce
<1>2. /\ r \in Seq(Handle) /\ IsInjective(r) /\ ToSet(r) = ToSet(local[t][b]) \ {x}
      /\ x \in ToSet(local[t][b])
  BY <1>1, PopLemma
<1>3. x \in Block /\ g \in SmallPages /\ header[g].owner = t /\ header[g].bucket = b /\ Cached(x)
  BY <1>2 DEF Placed, Home, LocalHome, Cached
<1>4. g \in Pages /\ header[g] \in HeaderType /\ g \in live
  BY <1>3 DEF TypeOK, SmallPages
<1>5. local' = [local EXCEPT ![t][b] = r] /\ header' = [header EXCEPT ![g].used = UsedAfterPop(g)]
  OBVIOUS
<1> HIDE DEF x, g, r
<1>6. LocalOnce' /\ \A y \in Handle : Cached(y)' <=> Cached(y) /\ y # x
  <2>1. LocalOnce' /\ \A y \in Handle :
           Cached(y)' <=> y \in ToSet(r) \/ (Cached(y) /\ y \notin ToSet(local[t][b]))
    BY <1>1, <1>2, <1>5, LocalLemma
  <2>2. \A y \in ToSet(local[t][b]) : Cached(y)
    BY DEF Cached
  <2> QED BY <1>2, <2>1, <2>2
<1>7. /\ header'[g].used = header[g].used + 1
      /\ \A f \in Pages : f # g => header'[f] = header[f]
      /\ \A f \in Pages : /\ header'[f].large = header[f].large
                           /\ header'[f].owner = header[f].owner
                           /\ header'[f].bucket = header[f].bucket
  <2>1. header' = [header EXCEPT ![g] = [header[g] EXCEPT !.used = header[g].used + 1]]
    BY <1>4, <1>5 DEF UsedAfterPop
  <2>2. /\ header'[g] = [header[g] EXCEPT !.used = header[g].used + 1]
        /\ \A f \in Pages : f # g => header'[f] = header[f]
    BY <1>4, <2>1 DEF TypeOK
  <2>3. header[g] \in HeaderType /\ g \in Pages BY <1>4
  <2>4. /\ header'[g].used = header[g].used + 1 /\ header'[g].large = header[g].large
        /\ header'[g].owner = header[g].owner /\ header'[g].bucket = header[g].bucket
    BY ONLY <2>2, <2>3 DEF HeaderType
  <2>5. \A f \in Pages : /\ header'[f].large = header[f].large
                         /\ header'[f].owner = header[f].owner
                         /\ header'[f].bucket = header[f].bucket
    <3> TAKE f \in Pages
    <3>1. CASE f = g BY ONLY <2>4, <3>1
    <3>2. CASE f # g BY ONLY <2>2, <3>2
    <3> QED BY ONLY <3>1, <3>2
  <2> QED BY ONLY <2>2, <2>4, <2>5
<1>8. SameSmall
  BY <1>7 DEF SameSmall, SmallPages, TypeOK
<1>9. /\ local'[t][b] = r
      /\ \A u \in Threads, c \in Bucket : u # t \/ c # b => local'[u][c] = local[u][c]
  BY <1>5 DEF TypeOK
<1>10. LocalHome'
  <2> SUFFICES ASSUME NEW u \in Threads, NEW c \in Bucket, NEW y \in ToSet(local'[u][c])
               PROVE  /\ y \in Block /\ y[1] \in SmallPages'
                      /\ header'[y[1]].owner = u /\ header'[y[1]].bucket = c
    BY DEF LocalHome
  <2>1. y \in ToSet(local[u][c])
    BY <1>2, <1>9
  <2>2. y \in Block /\ y[1] \in SmallPages /\ header[y[1]].owner = u /\ header[y[1]].bucket = c
    BY <2>1 DEF Placed, Home, LocalHome
  <2> QED BY <1>8, <2>2 DEF SameSmall
<1>11. Exact'
  <2> SUFFICES ASSUME NEW f \in SmallPages PROVE header'[f].used = Cardinality(InUse(f)')
    BY <1>8 DEF Exact, SameSmall
  <2>1. /\ f \in Pages /\ header[f] \in HeaderType /\ header[f].owner \in Threads
        /\ header[f].used = Cardinality(InUse(f))
    BY DEF Placed, Home, OwnerHome, Exact, SmallPages, TypeOK
  <2>2. InUse(f)' = Slots(f) \ ToSet(local'[header[f].owner][header[f].bucket])
    BY <1>8 DEF InUse, SameSmall, Slots
  <2>3. CASE f = g
    <3>1. InUse(f)' = InUse(f) \cup {x}
      <4>1. x \in Slots(f)
        BY <1>3, <2>3, HandleLemma DEF g
      <4>2. InUse(f)' = Slots(f) \ ToSet(r) /\ InUse(f) = Slots(f) \ ToSet(local[t][b])
        BY <1>3, <1>9, <2>2, <2>3 DEF InUse
      <4> QED BY <1>2, <4>1, <4>2
    <3>2. x \notin InUse(f)
      BY <1>2, <1>3, <2>3 DEF InUse
    <3>3. Cardinality(InUse(f)') = Cardinality(InUse(f)) + 1
      BY <2>1, <3>1, <3>2, SlotsFinite, FS_AddElement
    <3> QED BY <1>7, <2>1, <2>3, <3>3
  <2>4. CASE f # g
    <3>1. x \notin Slots(f)
      BY <2>4 DEF Slots, g
    <3>2. InUse(f)' = InUse(f)
      BY <1>2, <1>9, <2>1, <2>2, <3>1 DEF InUse, HeaderType
    <3> QED BY <1>7, <2>1, <2>4, <3>2
  <2> QED BY <2>3, <2>4
<1> QED BY <1>3, <1>6, <1>7, <1>8, <1>10, <1>11 DEF x, g

\* Pushing a block on its owner's free list and counting it out.
LEMMA PushPlaces ==
    ASSUME TypeOK, Placed, NEW t \in Threads, NEW x \in Block, x[1] \in SmallPages,
           header[x[1]].owner = t, ~Cached(x),
           local' = [local EXCEPT ![t][header[x[1]].bucket] = <<x>> \o @],
           header' = [header EXCEPT ![x[1]].used = UsedAfterOwnFree(x[1])],
           live' = live
    PROVE  /\ SameSmall /\ LocalOnce' /\ LocalHome' /\ Exact'
           /\ \A f \in Pages : header'[f].large = header[f].large
           /\ \A y \in Handle : Cached(y)' <=> Cached(y) \/ y = x
<1> DEFINE g == x[1]
           b == header[g].bucket
           r == <<x>> \o local[t][b]
<1>1. g \in Pages /\ header[g] \in HeaderType /\ b \in Bucket /\ g \in live
  BY DEF TypeOK, SmallPages, HeaderType
<1>2. local[t][b] \in Seq(Handle) /\ IsInjective(local[t][b]) /\ LocalOnce
  <2>1. local[t][b] \in Seq(Handle)
    BY <1>1 DEF TypeOK
  <2> QED BY <1>1, <2>1 DEF Placed, Once, LocalOnce
<1>3. x \in Handle /\ x \notin ToSet(local[t][b])
  BY <1>1, HandleLemma DEF Cached
<1>4. r \in Seq(Handle) /\ IsInjective(r) /\ ToSet(r) = {x} \cup ToSet(local[t][b])
  BY <1>2, <1>3, ConsLemma
<1>5. /\ local' = [local EXCEPT ![t][b] = r]
      /\ header' = [header EXCEPT ![g].used = UsedAfterOwnFree(g)]
      /\ header[g].bucket = b /\ header[g].owner = t
  OBVIOUS
<1> HIDE DEF b, r
<1>6. LocalOnce' /\ \A y \in Handle : Cached(y)' <=> Cached(y) \/ y = x
  <2>1. LocalOnce' /\ \A y \in Handle :
           Cached(y)' <=> y \in ToSet(r) \/ (Cached(y) /\ y \notin ToSet(local[t][b]))
    <3>1. \A y \in ToSet(r) : Cached(y) => y \in ToSet(local[t][b])
      BY <1>4
    <3>2. r \in Seq(Handle) /\ IsInjective(r) /\ b \in Bucket /\ LocalOnce
      BY <1>1, <1>2, <1>4
    <3>3. local' = [local EXCEPT ![t][b] = r]
      BY <1>5
    <3> HIDE DEF g
    <3> QED BY <3>1, <3>2, <3>3, LocalLemma
  <2>2. \A y \in ToSet(local[t][b]) : Cached(y)
    BY <1>1 DEF Cached
  <2> QED BY <1>4, <2>1, <2>2
<1>7. /\ header'[g].used = header[g].used - 1
      /\ \A f \in Pages : f # g => header'[f] = header[f]
      /\ \A f \in Pages : /\ header'[f].large = header[f].large
                           /\ header'[f].owner = header[f].owner
                           /\ header'[f].bucket = header[f].bucket
  BY <1>1, <1>5 DEF TypeOK, HeaderType, UsedAfterOwnFree
<1>8. SameSmall
  BY <1>7 DEF SameSmall, SmallPages, TypeOK
<1>9. /\ local'[t][b] = r
      /\ \A u \in Threads, c \in Bucket : u # t \/ c # b => local'[u][c] = local[u][c]
  BY <1>1, <1>5 DEF TypeOK
<1>10. LocalHome'
  <2> SUFFICES ASSUME NEW u \in Threads, NEW c \in Bucket, NEW y \in ToSet(local'[u][c])
               PROVE  /\ y \in Block /\ y[1] \in SmallPages'
                      /\ header'[y[1]].owner = u /\ header'[y[1]].bucket = c
    BY DEF LocalHome
  <2>1. y \in ToSet(local[u][c]) \/ (y = x /\ u = t /\ c = b)
    BY <1>4, <1>9
  <2>2. y \in Block /\ y[1] \in SmallPages /\ header[y[1]].owner = u /\ header[y[1]].bucket = c
    BY <1>5, <2>1 DEF Placed, Home, LocalHome
  <2> QED BY <1>8, <2>2 DEF SameSmall
<1>11. Exact'
  <2> SUFFICES ASSUME NEW f \in SmallPages PROVE header'[f].used = Cardinality(InUse(f)')
    BY <1>8 DEF Exact, SameSmall
  <2>1. /\ f \in Pages /\ header[f] \in HeaderType /\ header[f].owner \in Threads
        /\ header[f].used = Cardinality(InUse(f))
    BY DEF Placed, Home, OwnerHome, Exact, SmallPages, TypeOK
  <2>2. InUse(f)' = Slots(f) \ ToSet(local'[header[f].owner][header[f].bucket])
    BY <1>8 DEF InUse, SameSmall, Slots
  <2>3. CASE f = g
    <3>1. InUse(f)' = InUse(f) \ {x}
      BY <1>4, <1>5, <1>9, <2>2, <2>3 DEF InUse
    <3>2. x \in InUse(f)
      BY <1>3, <1>5, <2>3, HandleLemma DEF InUse
    <3>3. Cardinality(InUse(f)') = Cardinality(InUse(f)) - 1
      BY <2>1, <3>1, <3>2, SlotsFinite, FS_RemoveElement
    <3> QED BY <1>7, <2>1, <2>3, <3>3
  <2>4. CASE f # g
    <3>1. x \notin Slots(f)
      BY <2>4 DEF Slots
    <3>2. InUse(f)' = InUse(f)
      <4>1. CASE header[f].owner = t /\ header[f].bucket = b
        BY <1>4, <1>9, <2>2, <3>1, <4>1 DEF InUse
      <4>2. CASE ~(header[f].owner = t /\ header[f].bucket = b)
        <5>1. header[f].bucket \in Bucket
          BY <2>1 DEF HeaderType
        <5> QED BY <1>9, <2>1, <2>2, <4>2, <5>1 DEF InUse
      <4> QED BY <4>1, <4>2
    <3> QED BY <1>7, <2>1, <2>4, <3>2
  <2> QED BY <2>3, <2>4
<1> QED BY <1>6, <1>7, <1>8, <1>10, <1>11
-----------------------------------------------------------------------------
(* What a step leaves alone.                                               *)

\* The stacks of Once, its operations and its callers.
CrossOnce == \A f \in Pages : IsInjective(cross[f])
OpOnce == \A t, u \in Threads : op[t].blk = op[u].blk => t = u \/ op[t].blk = None
HeldOnce == \A x \in Handle : held[x] <= 1

\* Once is about lists, stacks, operations and callers, one part each.
LEMMA OnceParts == Once <=> LocalOnce /\ CrossOnce /\ OpOnce /\ HeldOnce
  BY DEF Once, LocalOnce, CrossOnce, OpOnce, HeldOnce

\* Placed after a step, from its parts.
LEMMA PlacedNext ==
    ASSUME LocalHome', CrossHome', PagesHome', HeldHome', OpHome', OwnerHome', Somewhere',
           NowhereElse', LocalOnce', CrossOnce', OpOnce', HeldOnce', Exact'
    PROVE  Placed'
  BY DEF Placed, Home, Once, LocalOnce, CrossOnce, OpOnce, HeldOnce

\* A step that leaves pages and the carved pages alone keeps what is known of them.
LEMMA KeepPages ==
    ASSUME Placed, SameSmall, pages' = pages
    PROVE  PagesHome' /\ OwnerHome'
<1>1. PagesHome /\ OwnerHome
  BY DEF Placed, Home
<1>2. PagesHome'
  BY <1>1 DEF PagesHome, SameSmall
<1>3. OwnerHome'
  BY <1>1 DEF OwnerHome, SameSmall
<1> QED BY <1>2, <1>3

\* So does one that leaves the cross-thread stacks alone ...
LEMMA KeepCross ==
    ASSUME Placed, SmallPages \subseteq SmallPages', cross' = cross
    PROVE  CrossHome' /\ CrossOnce' /\ \A x \in Handle : Stacked(x)' <=> Stacked(x)
<1>1. CrossHome /\ CrossOnce
  BY OnceParts DEF Placed, Home
<1>2. CrossHome'
  BY <1>1 DEF CrossHome
<1>3. CrossOnce'
  BY <1>1 DEF CrossOnce
<1>4. \A x \in Handle : Stacked(x)' <=> Stacked(x)
  BY DEF Stacked
<1> QED BY <1>2, <1>3, <1>4

\* ... and one that leaves the free lists and used_count alone.
LEMMA KeepLocal ==
    ASSUME Placed, SameSmall, local' = local,
           \A f \in SmallPages : header'[f].used = header[f].used
    PROVE  /\ LocalHome' /\ LocalOnce' /\ Exact'
           /\ \A x \in Handle : Cached(x)' <=> Cached(x)
<1>1. LocalHome /\ LocalOnce /\ Exact
  BY OnceParts DEF Placed, Home
<1>2. LocalHome'
  BY <1>1 DEF LocalHome, SameSmall
<1>3. LocalOnce'
  BY <1>1 DEF LocalOnce
<1>4. Exact'
  BY <1>1 DEF Exact, InUse, Slots, SameSmall
<1>5. \A x \in Handle : Cached(x)' <=> Cached(x)
  BY DEF Cached
<1> QED BY <1>2, <1>3, <1>4, <1>5

\* An operation's record changes, and with it at most the block it works on.
LEMMA OpPlaces ==
    ASSUME TypeOK, Placed, SmallPages \subseteq SmallPages',
           NEW t \in Threads, NEW o, op' = [op EXCEPT ![t] = o],
           \/ o.blk \in {None, op[t].blk}
           \/ o.blk \in Block /\ o.blk[1] \in SmallPages /\ ~\E u \in Threads \ {t} : op[u].blk = o.blk,
           o.pc = "idle" => o.blk = None
    PROVE  OpHome' /\ OpOnce'
<1>1. op'[t] = o /\ \A u \in Threads : u # t => op'[u] = op[u]
  BY DEF TypeOK
<1>2. OpHome /\ OpOnce
  BY OnceParts DEF Placed, Home
<1>3. OpHome'
  <2> SUFFICES ASSUME NEW u \in Threads
               PROVE  /\ op'[u].pc = "idle" => op'[u].blk = None
                      /\ op'[u].blk # None => op'[u].blk \in Block /\ op'[u].blk[1] \in SmallPages'
    BY DEF OpHome
  <2>1. CASE u = t
    BY <1>1, <1>2, <2>1 DEF OpHome
  <2>2. CASE u # t
    BY <1>1, <1>2, <2>2 DEF OpHome
  <2> QED BY <2>1, <2>2
<1>4. OpOnce'
  BY <1>1, <1>2, HandleLemma DEF OpOnce
<1> QED BY <1>3, <1>4

\* Handing block x to the caller, whatever the operation goes on with.
LEMMA DeliverPlaces ==
    ASSUME TypeOK, Placed, SmallPages \subseteq SmallPages',
           NEW t \in Threads, NEW x \in Handle, ~Held(x), Deliver(t, x, op[t].blk)
    PROVE  /\ OpHome' /\ OpOnce' /\ HeldOnce'
           /\ \A y \in Handle : Held(y)' <=> Held(y) \/ y = x
           /\ \A y \in Handle : Moving(y)' <=> Moving(y)
<1> DEFINE o == IF op[t].blk = None THEN Idle ELSE Dropping(op[t].blk)
<1>1. o.blk = op[t].blk /\ (o.pc = "idle" => o.blk = None) /\ op' = [op EXCEPT ![t] = o]
  BY IdleType DEF Dropping, Deliver, Idle
<1> HIDE DEF o
<1>2. OpHome' /\ OpOnce'
  BY <1>1, OpPlaces
<1>3. \A y \in Handle : Moving(y)' <=> Moving(y)
  BY <1>1, OpLemma DEF Moving
<1>4. held[x] = 0 /\ held' = [held EXCEPT ![x] = @ + 1] /\ HeldOnce
  BY OnceParts DEF Deliver, Held, TypeOK, Placed
<1>5. HeldOnce' /\ \A y \in Handle : Held(y)' <=> Held(y) \/ y = x
  BY <1>4 DEF HeldOnce, Held, TypeOK
<1> QED BY <1>2, <1>3, <1>5

\* Taking block x from the caller.
LEMMA TakePlaces ==
    ASSUME TypeOK, Placed, NEW x \in Handle, Held(x), held' = [held EXCEPT ![x] = @ - 1]
    PROVE  HeldOnce' /\ \A y \in Handle : Held(y)' <=> Held(y) /\ y # x
<1>1. HeldOnce /\ held[x] = 1
  BY OnceParts DEF HeldOnce, Held, TypeOK, Placed
<1> QED BY <1>1 DEF HeldOnce, Held, TypeOK

\* Taking block x from the caller and handing out block y.
LEMMA SwapPlaces ==
    ASSUME TypeOK, Placed, NEW x \in Handle, NEW y \in Handle, Held(x), ~Held(y),
           held' = [held EXCEPT ![x] = @ - 1, ![y] = @ + 1]
    PROVE  HeldOnce' /\ \A z \in Handle : Held(z)' <=> (Held(z) /\ z # x) \/ z = y
<1>1. HeldOnce /\ held[x] = 1 /\ held[y] = 0 /\ x # y
  BY OnceParts DEF HeldOnce, Held, TypeOK, Placed
<1>2. held'[x] = 0 /\ held'[y] = 1 /\ \A z \in Handle : z # x /\ z # y => held'[z] = held[z]
  BY <1>1 DEF TypeOK
<1> QED BY <1>1, <1>2 DEF HeldOnce, Held

-----------------------------------------------------------------------------
(* alloc.                                                                  *)

\* alloc's fast path, and its pop after a sweep.
LEMMA PopLocalPlaced ==
    ASSUME TypeOK, Placed, NEW t \in Threads, NEW b \in Bucket, PopLocal(t, b, op[t].blk)
    PROVE  Placed'
<1> DEFINE x == local[t][b][1]
<1>1. /\ local[t][b] # <<>> /\ Deliver(t, x, op[t].blk)
      /\ local' = [local EXCEPT ![t][b] = Tail(@)]
      /\ header' = [header EXCEPT ![x[1]].used = UsedAfterPop(x[1])]
      /\ live' = live /\ cross' = cross /\ pages' = pages
  BY DEF PopLocal
<1>2. /\ x \in Block /\ x[1] \in SmallPages /\ Cached(x)
      /\ SameSmall /\ LocalOnce' /\ LocalHome' /\ Exact'
      /\ \A f \in Pages : header'[f].large = header[f].large
      /\ \A y \in Handle : Cached(y)' <=> Cached(y) /\ y # x
  BY <1>1, PopPlaces
<1> HIDE DEF x
<1>3. SmallPages \subseteq SmallPages' /\ x \in Handle /\ NowhereElse /\ Somewhere
  BY <1>2, HandleLemma DEF SameSmall, Placed
<1>4. ~Held(x) /\ ~Moving(x) /\ ~Stacked(x)
  BY <1>2, <1>3 DEF NowhereElse
<1>5. /\ OpHome' /\ OpOnce' /\ HeldOnce'
      /\ \A y \in Handle : Held(y)' <=> Held(y) \/ y = x
      /\ \A y \in Handle : Moving(y)' <=> Moving(y)
  BY <1>1, <1>3, <1>4, DeliverPlaces
<1>6. CrossHome' /\ CrossOnce' /\ \A y \in Handle : Stacked(y)' <=> Stacked(y)
  BY <1>1, <1>3, KeepCross
<1>7. PagesHome' /\ OwnerHome'
  BY <1>1, <1>2, KeepPages
<1>8. NowhereElse'
  BY <1>2, <1>3, <1>4, <1>5, <1>6 DEF NowhereElse
<1>9. Somewhere'
  <2> SUFFICES ASSUME NEW f \in SmallPages, NEW y \in Slots(f)
               PROVE  Held(y)' \/ Moving(y)' \/ Stacked(y)' \/ Cached(y)'
    BY <1>2 DEF Somewhere, SameSmall, Slots
  <2>1. y \in Handle
    BY HandleLemma DEF SmallPages, TypeOK
  <2> QED BY <1>2, <1>3, <1>5, <1>6, <2>1 DEF Somewhere
<1>10. HeldHome'
  <2> SUFFICES ASSUME NEW y \in Handle, Held(y)'
               PROVE  y[1] \in live' /\ (y \in Block <=> ~header'[y[1]].large)
    BY DEF HeldHome
  <2>1. CASE y = x
    BY <1>1, <1>2, <2>1 DEF SmallPages, TypeOK
  <2>2. CASE y # x
    <3>1. Held(y) /\ y[1] \in Pages
      BY <1>5, <2>2, HandleLemma
    <3> QED BY <1>1, <1>2, <3>1 DEF Placed, Home, HeldHome
  <2> QED BY <2>1, <2>2
<1> QED BY <1>2, <1>5, <1>6, <1>7, <1>8, <1>9, <1>10, PlacedNext
\* collect_and_sweep steals the stack of a page and keeps the page.
LEMMA SweepPlaced ==
    ASSUME TypeOK, Placed, NEW t \in Threads, SweepPage(t), released' = {}, released = {}
    PROVE  Placed'
<1> DEFINE b == op[t].bucket
           i == op[t].at
           f == pages[t][b][i]
           o == [op[t] EXCEPT !.at = i + 1]
           r == cross[f] \o local[t][b]
<1>1. /\ i \in DOMAIN pages[t][b]
      /\ local' = [local EXCEPT ![t][b] = r]
      /\ cross' = [cross EXCEPT ![f] = <<>>]
      /\ header' = [header EXCEPT ![f].used = header[f].used - Len(cross[f])]
      /\ op' = [op EXCEPT ![t] = o]
      /\ pages' = pages /\ live' = live /\ held' = held
  BY DEF SweepPage, FreedCount
<1>2. b \in Bucket /\ op[t] \in OpType /\ pages[t][b] \in Seq(Pages)
  BY DEF TypeOK, OpType
<1>3. /\ f \in ToSet(pages[t][b]) /\ f \in SmallPages /\ f \in Pages
      /\ header[f].owner = t /\ header[f].bucket = b
  <2>1. f \in ToSet(pages[t][b])
    BY <1>1 DEF ToSet
  <2> QED BY <1>2, <2>1 DEF Placed, Home, PagesHome, SmallPages, TypeOK
<1>4. /\ cross[f] \in Seq(Handle) /\ IsInjective(cross[f])
      /\ local[t][b] \in Seq(Handle) /\ IsInjective(local[t][b])
      /\ header[f] \in HeaderType
  BY <1>2, <1>3, OnceParts DEF TypeOK, Placed, CrossOnce, LocalOnce
<1>5. \A x \in ToSet(cross[f]) : /\ x \in Block /\ x \in Handle /\ x[1] = f /\ x \in Slots(f)
                                 /\ Stacked(x) /\ ~Cached(x) /\ ~Held(x) /\ ~Moving(x)
  <2> SUFFICES ASSUME NEW x \in ToSet(cross[f])
               PROVE  /\ x \in Block /\ x \in Handle /\ x[1] = f /\ x \in Slots(f)
                      /\ Stacked(x) /\ ~Cached(x) /\ ~Held(x) /\ ~Moving(x)
    OBVIOUS
  <2>1. x \in Block /\ x[1] = f
    BY <1>3 DEF Placed, Home, CrossHome
  <2>2. x \in Handle /\ x \in Slots(f) /\ Stacked(x)
    BY <2>1, HandleLemma DEF Stacked
  <2> QED BY <2>1, <2>2 DEF Placed, NowhereElse
<1>6. \A x \in ToSet(local[t][b]) : Cached(x)
  BY <1>2 DEF Cached
<1> HIDE DEF b, f, r
<1>7. r \in Seq(Handle) /\ ToSet(r) = ToSet(cross[f]) \cup ToSet(local[t][b]) /\ IsInjective(r)
  <2>1. ToSet(cross[f]) \cap ToSet(local[t][b]) = {}
    BY <1>5, <1>6
  <2> QED BY <1>4, <2>1, SpliceLemma DEF r
<1>8. LocalOnce' /\ \A x \in Handle : Cached(x)' <=> Cached(x) \/ x \in ToSet(cross[f])
  <2>1. \A x \in ToSet(r) : Cached(x) => x \in ToSet(local[t][b])
    BY <1>5, <1>7
  <2>2. LocalOnce
    BY OnceParts DEF Placed
  <2>3. LocalOnce' /\ \A x \in Handle :
           Cached(x)' <=> x \in ToSet(r) \/ (Cached(x) /\ x \notin ToSet(local[t][b]))
    BY <1>1, <1>2, <1>7, <2>1, <2>2, LocalLemma
  <2> QED BY <1>6, <1>7, <2>3
<1>9. CrossOnce' /\ CrossHome' /\ \A x \in Handle : Stacked(x)' <=> Stacked(x) /\ x \notin ToSet(cross[f])
  <2>1. cross'[f] = <<>> /\ \A g \in Pages : g # f => cross'[g] = cross[g]
    BY <1>1, <1>3 DEF TypeOK
  <2>2. ToSet(cross'[f]) = {} /\ IsInjective(cross'[f])
    BY <2>1 DEF ToSet, IsInjective
  <2>3. CrossOnce'
    BY <2>1, <2>2, OnceParts DEF CrossOnce, Placed
  <2>4. SmallPages' = SmallPages
    BY <1>1, <1>3 DEF SmallPages, TypeOK, HeaderType
  <2>5. CrossHome'
    BY <2>1, <2>2, <2>4 DEF CrossHome, Placed, Home
  <2>6. \A x \in Handle : Stacked(x)' <=> Stacked(x) /\ x \notin ToSet(cross[f])
    BY <1>5, <2>1, <2>2, HandleLemma DEF Stacked
  <2> QED BY <2>3, <2>5, <2>6
<1>10. /\ header'[f].used = header[f].used - Len(cross[f])
       /\ \A g \in Pages : g # f => header'[g] = header[g]
       /\ \A g \in Pages : /\ header'[g].large = header[g].large
                           /\ header'[g].owner = header[g].owner
                           /\ header'[g].bucket = header[g].bucket
  <2>1. header' = [header EXCEPT ![f] = [header[f] EXCEPT !.used = header[f].used - Len(cross[f])]]
    BY <1>1, <1>3
  <2>2. /\ header'[f] = [header[f] EXCEPT !.used = header[f].used - Len(cross[f])]
        /\ \A g \in Pages : g # f => header'[g] = header[g]
    BY <1>3, <2>1 DEF TypeOK
  <2> QED BY <1>3, <1>4, <2>2 DEF HeaderType
<1>11. SameSmall
  BY <1>1, <1>10 DEF SameSmall, SmallPages, TypeOK
<1>12. /\ local'[t][b] = r
       /\ \A u \in Threads, c \in Bucket : u # t \/ c # b => local'[u][c] = local[u][c]
  BY <1>1, <1>2 DEF TypeOK
<1>13. LocalHome'
  <2> SUFFICES ASSUME NEW u \in Threads, NEW c \in Bucket, NEW x \in ToSet(local'[u][c])
               PROVE  /\ x \in Block /\ x[1] \in SmallPages'
                      /\ header'[x[1]].owner = u /\ header'[x[1]].bucket = c
    BY DEF LocalHome
  <2>1. x \in ToSet(local[u][c]) \/ (x \in ToSet(cross[f]) /\ u = t /\ c = b)
    BY <1>7, <1>12
  <2>2. x \in Block /\ x[1] \in SmallPages /\ header[x[1]].owner = u /\ header[x[1]].bucket = c
    BY <1>3, <1>5, <2>1 DEF Placed, Home, LocalHome
  <2> QED BY <1>11, <2>2 DEF SameSmall
<1>14. Exact'
  <2> SUFFICES ASSUME NEW g \in SmallPages PROVE header'[g].used = Cardinality(InUse(g)')
    BY <1>11 DEF Exact, SameSmall
  <2>1. /\ g \in Pages /\ header[g] \in HeaderType /\ header[g].owner \in Threads
        /\ header[g].bucket \in Bucket /\ header[g].used = Cardinality(InUse(g))
    BY DEF Placed, Home, OwnerHome, Exact, SmallPages, TypeOK, HeaderType
  <2>2. InUse(g)' = Slots(g) \ ToSet(local'[header[g].owner][header[g].bucket])
    BY <1>11 DEF InUse, SameSmall, Slots
  <2>3. CASE g = f
    <3>1. InUse(g)' = InUse(g) \ ToSet(cross[f])
      BY <1>3, <1>7, <1>12, <2>2, <2>3 DEF InUse
    <3>2. InUse(g) \cap ToSet(cross[f]) = ToSet(cross[f])
      BY <1>3, <1>5, <1>6, <2>3 DEF InUse
    <3>3. Cardinality(ToSet(cross[f])) = Len(cross[f])
      BY <1>4, LengthLemma
    <3>4. Cardinality(InUse(g)') = Cardinality(InUse(g)) - Len(cross[f])
      <4>1. IsFiniteSet(InUse(g))
        BY <2>1, SlotsFinite
      <4>2. Cardinality(InUse(g) \ ToSet(cross[f]))
              = Cardinality(InUse(g)) - Cardinality(InUse(g) \cap ToSet(cross[f]))
        BY <4>1, FS_Difference
      <4> QED BY <3>1, <3>2, <3>3, <4>2
    <3> QED BY <1>10, <2>1, <2>3, <3>4
  <2>4. CASE g # f
    <3>1. ToSet(cross[f]) \cap Slots(g) = {}
      BY <1>5, <2>4 DEF Slots
    <3>2. InUse(g)' = InUse(g)
      <4>1. CASE header[g].owner = t /\ header[g].bucket = b
        BY <1>7, <1>12, <2>2, <3>1, <4>1 DEF InUse
      <4>2. CASE ~(header[g].owner = t /\ header[g].bucket = b)
        BY <1>12, <2>1, <2>2, <4>2 DEF InUse
      <4> QED BY <4>1, <4>2
    <3> QED BY <1>10, <2>1, <2>4, <3>2
  <2> QED BY <2>3, <2>4
<1>15. OpHome' /\ OpOnce' /\ \A x \in Handle : Moving(x)' <=> Moving(x)
  <2>1. o.blk = op[t].blk /\ (o.pc = "idle" => o.blk = None)
    BY <1>2 DEF OpType, SweepPage
  <2> HIDE DEF o
  <2>2. OpHome' /\ OpOnce'
    BY <1>1, <1>11, <2>1, OpPlaces DEF SameSmall
  <2> QED BY <1>1, <2>1, <2>2, OpLemma DEF Moving
<1>16. HeldOnce' /\ HeldHome' /\ \A x \in Handle : Held(x)' <=> Held(x)
  BY <1>1, <1>10, OnceParts, HandleLemma DEF HeldOnce, HeldHome, Held, Placed, Home
<1>17. PagesHome' /\ OwnerHome'
  BY <1>1, <1>11, KeepPages
<1>18. NowhereElse'
  BY <1>5, <1>8, <1>9, <1>15, <1>16 DEF NowhereElse, Placed
<1>19. Somewhere'
  <2> SUFFICES ASSUME NEW g \in SmallPages, NEW y \in Slots(g)
               PROVE  Held(y)' \/ Moving(y)' \/ Stacked(y)' \/ Cached(y)'
    BY <1>11 DEF Somewhere, SameSmall, Slots
  <2>1. y \in Handle
    BY HandleLemma DEF SmallPages, TypeOK
  <2> QED BY <1>8, <1>9, <1>15, <1>16, <2>1 DEF Somewhere, Placed
<1> QED BY <1>8, <1>9, <1>13, <1>14, <1>15, <1>16, <1>17, <1>18, <1>19, PlacedNext
\* A page palloc may still hand out: nothing of it is anywhere.
LEMMA FreshPlaces ==
    ASSUME TypeOK, Placed, NEW f \in Pages, f \notin live
    PROVE  /\ cross[f] = <<>>
           /\ \A x \in Handle : x[1] = f => ~Held(x) /\ ~Moving(x) /\ ~Stacked(x) /\ ~Cached(x)
           /\ f \notin SmallPages
<1>1. f \notin SmallPages /\ Home
  BY DEF SmallPages, Placed
<1>2. \A x \in Handle : x[1] = f => ~Held(x)
  BY <1>1 DEF Home, HeldHome
<1>3. \A x \in Handle : x[1] = f => ~Moving(x)
  BY <1>1, HandleLemma DEF Home, OpHome, Moving
<1>4. \A x \in Handle : x[1] = f => ~Cached(x)
  BY <1>1 DEF Home, LocalHome, Cached
<1>5. ToSet(cross[f]) = {}
  BY <1>1 DEF Home, CrossHome
<1>6. \A x \in Handle : x[1] = f => ~Stacked(x)
  BY <1>5 DEF Stacked
<1>7. cross[f] = <<>>
  <2>1. cross[f] \in Seq(Handle)
    BY DEF TypeOK
  <2> QED BY <1>5, <2>1, PopLemma
<1> QED BY <1>1, <1>2, <1>3, <1>4, <1>6, <1>7

\* carve: the first block of the page to the caller, the others on the free list.
LEMMA CarvePlaced ==
    ASSUME TypeOK, Placed, NEW t \in Threads, NEW f \in Pages, SlowCarve(t, f)
    PROVE  Placed'
<1> DEFINE b == op[t].bucket
           r == Carved(f)
           x == <<f, 1>>
<1>1. /\ local[t][b] = <<>> /\ f \notin live
      /\ live' = live \cup {f}
      /\ header' = [header EXCEPT ![f] = SmallHeader(t, b)]
      /\ cross' = [cross EXCEPT ![f] = <<>>]
      /\ pages' = [pages EXCEPT ![t][b] = <<f>> \o @]
      /\ local' = [local EXCEPT ![t][b] = r]
      /\ Deliver(t, x, op[t].blk)
  BY DEF SlowCarve
<1>2. b \in Bucket /\ op[t] \in OpType /\ pages[t][b] \in Seq(Pages)
  BY DEF TypeOK, OpType
<1>3. /\ cross[f] = <<>> /\ f \notin SmallPages
      /\ \A y \in Handle : y[1] = f => ~Held(y) /\ ~Moving(y) /\ ~Stacked(y) /\ ~Cached(y)
  BY <1>1, FreshPlaces
<1>4. /\ r \in Seq(Handle) /\ IsInjective(r) /\ ToSet(r) = Slots(f) \ {x}
      /\ x \in Block /\ x \in Handle /\ x \in Slots(f) /\ Slots(f) \subseteq Block
      /\ Slots(f) \subseteq Handle
  BY CarvedLemma, HandleLemma
<1>5. \A y \in Slots(f) : y[1] = f
  BY DEF Slots
<1> HIDE DEF b, r
<1>6. LocalOnce' /\ \A y \in Handle : Cached(y)' <=> Cached(y) \/ y \in ToSet(r)
  <2>1. \A y \in ToSet(r) : Cached(y) => y \in ToSet(local[t][b])
    BY <1>3, <1>4, <1>5
  <2>2. LocalOnce
    BY OnceParts DEF Placed
  <2>3. LocalOnce' /\ \A y \in Handle :
           Cached(y)' <=> y \in ToSet(r) \/ (Cached(y) /\ y \notin ToSet(local[t][b]))
    BY <1>1, <1>2, <1>4, <2>1, <2>2, LocalLemma
  <2>4. ToSet(local[t][b]) = {}
    BY <1>1 DEF ToSet
  <2> QED BY <2>3, <2>4
<1>7. /\ header'[f] = SmallHeader(t, b)
      /\ \A g \in Pages : g # f => header'[g] = header[g]
      /\ header'[f].large = FALSE /\ header'[f].owner = t
      /\ header'[f].bucket = b /\ header'[f].used = 1
  BY <1>1 DEF TypeOK, SmallHeader
<1>8. SmallPages' = SmallPages \cup {f}
  BY <1>1, <1>3, <1>7 DEF SmallPages, TypeOK
<1>9. /\ local'[t][b] = r
      /\ \A u \in Threads, c \in Bucket : u # t \/ c # b => local'[u][c] = local[u][c]
  BY <1>1, <1>2 DEF TypeOK
<1>10. LocalHome'
  <2> SUFFICES ASSUME NEW u \in Threads, NEW c \in Bucket, NEW y \in ToSet(local'[u][c])
               PROVE  /\ y \in Block /\ y[1] \in SmallPages'
                      /\ header'[y[1]].owner = u /\ header'[y[1]].bucket = c
    BY DEF LocalHome
  <2>1. CASE u = t /\ c = b
    BY <1>4, <1>5, <1>7, <1>8, <1>9, <2>1
  <2>2. CASE ~(u = t /\ c = b)
    <3>1. y \in ToSet(local[u][c])
      BY <1>9, <2>2
    <3>2. y \in Block /\ y[1] \in SmallPages /\ header[y[1]].owner = u /\ header[y[1]].bucket = c
      BY <3>1 DEF Placed, Home, LocalHome
    <3> QED BY <1>3, <1>7, <1>8, <3>2 DEF SmallPages, TypeOK
  <2> QED BY <2>1, <2>2
<1>11. PagesHome'
  <2> SUFFICES ASSUME NEW u \in Threads, NEW c \in Bucket, NEW g \in ToSet(pages'[u][c])
               PROVE  g \in SmallPages' /\ header'[g].owner = u /\ header'[g].bucket = c
    BY DEF PagesHome
  <2>1. pages'[t][b] = <<f>> \o pages[t][b] /\ (u # t \/ c # b => pages'[u][c] = pages[u][c])
    BY <1>1, <1>2 DEF TypeOK
  <2>2. ToSet(<<f>> \o pages[t][b]) = {f} \cup ToSet(pages[t][b])
    BY <1>2, ConsLemma
  <2>3. (g = f /\ u = t /\ c = b) \/ g \in ToSet(pages[u][c])
    BY <2>1, <2>2
  <2>4. CASE g = f /\ u = t /\ c = b
    BY <1>7, <1>8, <2>4
  <2>5. CASE g \in ToSet(pages[u][c])
    <3>1. g \in SmallPages /\ header[g].owner = u /\ header[g].bucket = c
      BY <2>5 DEF Placed, Home, PagesHome
    <3> QED BY <1>3, <1>7, <1>8, <3>1 DEF SmallPages, TypeOK
  <2> QED BY <2>3, <2>4, <2>5
<1>12. OwnerHome'
  BY <1>3, <1>7, <1>8 DEF OwnerHome, Placed, Home, SmallPages, TypeOK
<1>13. Exact'
  <2> SUFFICES ASSUME NEW g \in SmallPages' PROVE header'[g].used = Cardinality(InUse(g)')
    BY DEF Exact
  <2>1. InUse(g)' = Slots(g) \ ToSet(local'[header'[g].owner][header'[g].bucket])
    BY DEF InUse, Slots
  <2>2. CASE g = f
    <3>1. InUse(g)' = {x}
      BY <1>4, <1>7, <1>9, <2>1, <2>2
    <3> QED BY <1>7, <2>2, <3>1, FS_Singleton
  <2>3. CASE g # f
    <3>1. g \in SmallPages /\ g \in Pages /\ header'[g] = header[g]
      BY <1>7, <1>8, <2>3 DEF SmallPages, TypeOK
    <3>2. /\ header[g].owner \in Threads /\ header[g].bucket \in Bucket
          /\ header[g].used = Cardinality(InUse(g))
      BY <3>1 DEF Placed, Home, OwnerHome, Exact, TypeOK, HeaderType
    <3>3. ToSet(r) \cap Slots(g) = {}
      BY <1>4, <1>5, <2>3 DEF Slots
    <3>4. InUse(g)' = InUse(g)
      <4>1. CASE header[g].owner = t /\ header[g].bucket = b
        <5>1. ToSet(local[t][b]) = {}
          BY <1>1 DEF ToSet
        <5> QED BY <1>9, <2>1, <3>1, <3>3, <4>1, <5>1 DEF InUse
      <4>2. CASE ~(header[g].owner = t /\ header[g].bucket = b)
        BY <1>9, <2>1, <3>1, <3>2, <4>2 DEF InUse
      <4> QED BY <4>1, <4>2
    <3> QED BY <3>1, <3>2, <3>4
  <2> QED BY <2>2, <2>3
<1>14. CrossHome' /\ CrossOnce' /\ \A y \in Handle : Stacked(y)' <=> Stacked(y)
  <2>1. cross' = cross
    BY <1>1, <1>3 DEF TypeOK
  <2> QED BY <1>8, <2>1, KeepCross
<1>15. /\ OpHome' /\ OpOnce' /\ HeldOnce'
       /\ \A y \in Handle : Held(y)' <=> Held(y) \/ y = x
       /\ \A y \in Handle : Moving(y)' <=> Moving(y)
  <2>1. ~Held(x) /\ x \in Handle /\ SmallPages \subseteq SmallPages' /\ Deliver(t, x, op[t].blk)
    BY <1>1, <1>3, <1>4, <1>8
  <2> HIDE DEF x
  <2> QED BY <2>1, DeliverPlaces
<1>16. HeldHome'
  <2> SUFFICES ASSUME NEW y \in Handle, Held(y)'
               PROVE  y[1] \in live' /\ (y \in Block <=> ~header'[y[1]].large)
    BY DEF HeldHome
  <2>1. CASE y = x
    BY <1>1, <1>4, <1>7, <2>1
  <2>2. CASE y # x
    <3>1. Held(y) /\ y[1] \in Pages
      BY <1>15, <2>2, HandleLemma
    <3>2. y[1] # f
      BY <1>3, <3>1
    <3> QED BY <1>1, <1>7, <3>1, <3>2 DEF Placed, Home, HeldHome
  <2> QED BY <2>1, <2>2
<1>17. NowhereElse'
  <2>1. NowhereElse
    BY DEF Placed
  <2> HIDE DEF x
  <2>2. \A y \in Handle : y \in ToSet(r) => ~Held(y) /\ ~Moving(y) /\ ~Stacked(y) /\ y # x
    BY <1>3, <1>4, <1>5
  <2>3. ~Moving(x) /\ ~Stacked(x) /\ ~Cached(x)
    BY <1>3, <1>4, <1>5
  <2> QED BY <1>6, <1>14, <1>15, <2>1, <2>2, <2>3 DEF NowhereElse
<1>18. Somewhere'
  <2> SUFFICES ASSUME NEW g \in SmallPages', NEW y \in Slots(g)
               PROVE  Held(y)' \/ Moving(y)' \/ Stacked(y)' \/ Cached(y)'
    BY DEF Somewhere, Slots
  <2>1. y \in Handle
    BY <1>8, HandleLemma DEF SmallPages, TypeOK
  <2>2. CASE g = f
    BY <1>4, <1>6, <1>15, <2>1, <2>2
  <2>3. CASE g # f
    BY <1>6, <1>8, <1>14, <1>15, <2>1, <2>3 DEF Somewhere, Placed
  <2> QED BY <2>2, <2>3
<1> QED BY <1>6, <1>10, <1>11, <1>12, <1>13, <1>14, <1>15, <1>16, <1>17, <1>18, PlacedNext
\* palloc has no page: a grow leaves the old block with its caller.
LEMMA SlowFailPlaced ==
    ASSUME TypeOK, Placed, NEW t \in Threads, SlowFail(t)
    PROVE  Placed'
<1> DEFINE x == op[t].blk
<1>1. /\ held' = IF x = None THEN held ELSE [held EXCEPT ![x] = @ + 1]
      /\ op' = [op EXCEPT ![t] = Idle]
      /\ live' = live /\ header' = header /\ cross' = cross /\ local' = local /\ pages' = pages
  BY DEF SlowFail
<1>2. SameSmall
  BY <1>1 DEF SameSmall, SmallPages
<1>3. /\ PagesHome' /\ OwnerHome' /\ CrossHome' /\ CrossOnce' /\ LocalHome' /\ LocalOnce' /\ Exact'
      /\ \A y \in Handle : Stacked(y)' <=> Stacked(y)
      /\ \A y \in Handle : Cached(y)' <=> Cached(y)
  BY <1>1, <1>2, KeepPages, KeepCross, KeepLocal DEF SameSmall
<1>4. /\ OpHome' /\ OpOnce'
      /\ \A y \in Handle : Moving(y)' <=> \E u \in Threads : u # t /\ op[u].blk = y
  <2> DEFINE o == Idle
  <2>1. op' = [op EXCEPT ![t] = o] /\ o.blk = None /\ None \notin Handle
    BY <1>1, IdleType, HandleLemma
  <2> HIDE DEF o
  <2>2. OpHome' /\ OpOnce'
    BY <1>2, <2>1, OpPlaces DEF SameSmall
  <2>3. \A y \in Handle : Moving(y)' <=> o.blk = y \/ \E u \in Threads : u # t /\ op[u].blk = y
    BY <2>1, OpLemma
  <2> QED BY <2>1, <2>2, <2>3
<1>5. x # None => x \in Block /\ x[1] \in SmallPages /\ x \in Handle
  BY HandleLemma DEF Placed, Home, OpHome
<1>6. OpOnce /\ HeldOnce /\ NowhereElse /\ Somewhere /\ HeldHome
  BY OnceParts DEF Placed, Home
<1> HIDE DEF x
<1>7. x \in Handle => Moving(x)
  BY DEF Moving, x
<1>8. \A y \in Handle : Moving(y)' <=> Moving(y) /\ y # x
  BY <1>4, <1>6, HandleLemma DEF Moving, OpOnce, x
<1>9. HeldOnce' /\ \A y \in Handle : Held(y)' <=> Held(y) \/ y = x
  <2>1. CASE x = None
    BY <1>1, <1>6, <2>1, HandleLemma DEF HeldOnce, Held
  <2>2. CASE x # None
    <3>1. x \in Handle /\ ~Held(x) /\ held[x] = 0
      BY <1>5, <1>6, <1>7, <2>2 DEF NowhereElse, Held, TypeOK
    <3> QED BY <1>1, <1>6, <2>2, <3>1 DEF HeldOnce, Held, TypeOK
  <2> QED BY <2>1, <2>2
<1>10. HeldHome'
  <2> SUFFICES ASSUME NEW y \in Handle, Held(y)'
               PROVE  y[1] \in live' /\ (y \in Block <=> ~header'[y[1]].large)
    BY DEF HeldHome
  <2>1. CASE y = x
    BY <1>1, <1>5, <2>1, HandleLemma DEF SmallPages
  <2>2. CASE y # x
    BY <1>1, <1>6, <1>9, <2>2 DEF HeldHome
  <2> QED BY <2>1, <2>2
<1>11. NowhereElse'
  BY <1>3, <1>6, <1>7, <1>8, <1>9 DEF NowhereElse
<1>12. Somewhere'
  <2> SUFFICES ASSUME NEW f \in SmallPages, NEW y \in Slots(f)
               PROVE  Held(y)' \/ Moving(y)' \/ Stacked(y)' \/ Cached(y)'
    BY <1>2 DEF Somewhere, SameSmall, Slots
  <2>1. y \in Handle
    BY HandleLemma DEF SmallPages, TypeOK
  <2> QED BY <1>3, <1>6, <1>8, <1>9, <2>1 DEF Somewhere
<1> QED BY <1>3, <1>4, <1>9, <1>10, <1>11, <1>12, PlacedNext

\* Going into the slow path: a grow takes its old block from the caller.
LEMMA StartPlaced ==
    ASSUME TypeOK, Placed, NEW t \in Threads, NEW o, op[t].blk = None,
           o.pc # "idle", op' = [op EXCEPT ![t] = o],
           UNCHANGED <<live, header, cross, local, pages>>,
           \/ o.blk = None /\ held' = held
           \/ /\ o.blk \in Block /\ ~header[o.blk[1]].large
              /\ Held(o.blk) /\ held' = [held EXCEPT ![o.blk] = @ - 1]
    PROVE  Placed'
<1> DEFINE x == o.blk
<1>1. SameSmall
  BY DEF SameSmall, SmallPages
<1>2. /\ PagesHome' /\ OwnerHome' /\ CrossHome' /\ CrossOnce' /\ LocalHome' /\ LocalOnce' /\ Exact'
      /\ \A y \in Handle : Stacked(y)' <=> Stacked(y)
      /\ \A y \in Handle : Cached(y)' <=> Cached(y)
  BY <1>1, KeepPages, KeepCross, KeepLocal DEF SameSmall
<1>3. OpOnce /\ HeldOnce /\ NowhereElse /\ Somewhere /\ HeldHome
  BY OnceParts DEF Placed, Home
<1>4. x # None => x \in Block /\ x \in Handle /\ Held(x) /\ x[1] \in SmallPages /\ ~Moving(x)
                  /\ ~Stacked(x) /\ ~Cached(x)
  <2>1. x # None => x \in Block /\ x \in Handle /\ Held(x) /\ ~header[x[1]].large
    BY HandleLemma
  <2> QED BY <1>3, <2>1 DEF HeldHome, NowhereElse, SmallPages
<1>5. OpHome' /\ OpOnce' /\ \A y \in Handle : Moving(y)' <=> Moving(y) \/ y = x
  <2>1. x # None => ~\E u \in Threads \ {t} : op[u].blk = x
    BY <1>4 DEF Moving
  <2>2. OpHome' /\ OpOnce'
    BY <1>1, <1>4, <2>1, OpPlaces DEF SameSmall
  <2>3. \A y \in Handle : Moving(y)' <=> o.blk = y \/ \E u \in Threads : u # t /\ op[u].blk = y
    <3>1. op'[t] = o /\ \A u \in Threads : u # t => op'[u] = op[u]
      BY DEF TypeOK
    <3> QED BY <3>1 DEF Moving
  <2> QED BY <2>2, <2>3, HandleLemma DEF Moving
<1>6. HeldOnce' /\ \A y \in Handle : Held(y)' <=> Held(y) /\ y # x
  <2>1. CASE x = None /\ held' = held
    BY <1>3, <2>1, HandleLemma DEF HeldOnce, Held
  <2>2. CASE x # None /\ held' = [held EXCEPT ![x] = @ - 1]
    <3> HIDE DEF x
    <3> QED BY <1>4, <2>2, TakePlaces
  <2> QED BY <2>1, <2>2, HandleLemma
<1> HIDE DEF x
<1>7. HeldHome'
  BY <1>3, <1>6 DEF HeldHome
<1>8. NowhereElse'
  BY <1>2, <1>3, <1>4, <1>5, <1>6, HandleLemma DEF NowhereElse
<1>9. Somewhere'
  <2> SUFFICES ASSUME NEW f \in SmallPages, NEW y \in Slots(f)
               PROVE  Held(y)' \/ Moving(y)' \/ Stacked(y)' \/ Cached(y)'
    BY <1>1 DEF Somewhere, SameSmall, Slots
  <2>1. y \in Handle
    BY HandleLemma DEF SmallPages, TypeOK
  <2> QED BY <1>2, <1>3, <1>5, <1>6, <2>1 DEF Somewhere
<1> QED BY <1>2, <1>5, <1>6, <1>7, <1>8, <1>9, PlacedNext
\* grow takes its new block from the free list: the old one waits to be dropped.
LEMMA GrowFastPlaced ==
    ASSUME TypeOK, Placed, NEW t \in Threads, NEW x \in Handle, NEW b \in Bucket, GrowFast(t, x, b)
    PROVE  Placed'
<1> DEFINE y == local[t][b][1]
           o == Dropping(x)
<1>1. /\ op[t].pc = "idle" /\ Held(x) /\ ~header[x[1]].large
      /\ local[t][b] # <<>>
      /\ local' = [local EXCEPT ![t][b] = Tail(@)]
      /\ header' = [header EXCEPT ![y[1]].used = UsedAfterPop(y[1])]
      /\ held' = [held EXCEPT ![x] = @ - 1, ![y] = @ + 1]
      /\ op' = [op EXCEPT ![t] = o]
      /\ live' = live /\ cross' = cross /\ pages' = pages
  BY DEF GrowFast, Held
<1>2. /\ y \in Block /\ y[1] \in SmallPages /\ Cached(y)
      /\ SameSmall /\ LocalOnce' /\ LocalHome' /\ Exact'
      /\ \A f \in Pages : header'[f].large = header[f].large
      /\ \A z \in Handle : Cached(z)' <=> Cached(z) /\ z # y
  BY <1>1, PopPlaces
<1> HIDE DEF y
<1>3. /\ OpOnce /\ HeldOnce /\ NowhereElse /\ Somewhere /\ HeldHome
      /\ op[t].blk = None
  BY <1>1, OnceParts DEF Placed, Home, OpHome
<1>4. /\ y \in Handle /\ ~Held(y) /\ ~Moving(y) /\ ~Stacked(y) /\ x # y
      /\ x[1] \in SmallPages /\ x \in Block /\ ~Moving(x) /\ ~Stacked(x) /\ ~Cached(x)
  BY <1>1, <1>2, <1>3, HandleLemma DEF NowhereElse, HeldHome, SmallPages
<1>5. o.blk = x /\ o.pc = "drop" /\ x # None
  BY IdleType, HandleLemma DEF Dropping, Idle
<1> HIDE DEF o
<1>6. OpHome' /\ OpOnce' /\ \A z \in Handle : Moving(z)' <=> Moving(z) \/ z = x
  <2>1. ~\E u \in Threads \ {t} : op[u].blk = x
    BY <1>4 DEF Moving
  <2>2. OpHome' /\ OpOnce'
    BY <1>1, <1>2, <1>4, <1>5, <2>1, OpPlaces DEF SameSmall
  <2>3. \A z \in Handle : Moving(z)' <=> o.blk = z \/ \E u \in Threads : u # t /\ op[u].blk = z
    <3>1. op'[t] = o /\ \A u \in Threads : u # t => op'[u] = op[u]
      BY <1>1 DEF TypeOK
    <3> QED BY <3>1 DEF Moving
  <2> QED BY <1>3, <1>5, <2>2, <2>3, HandleLemma DEF Moving
<1>7. HeldOnce' /\ \A z \in Handle : Held(z)' <=> (Held(z) /\ z # x) \/ z = y
  BY <1>1, <1>4, SwapPlaces
<1>8. CrossHome' /\ CrossOnce' /\ \A z \in Handle : Stacked(z)' <=> Stacked(z)
  BY <1>1, <1>2, KeepCross DEF SameSmall
<1>9. PagesHome' /\ OwnerHome'
  BY <1>1, <1>2, KeepPages
<1>10. HeldHome'
  <2> SUFFICES ASSUME NEW z \in Handle, Held(z)'
               PROVE  z[1] \in live' /\ (z \in Block <=> ~header'[z[1]].large)
    BY DEF HeldHome
  <2>1. CASE z = y
    BY <1>1, <1>2, <2>1 DEF SmallPages, TypeOK
  <2>2. CASE z # y
    <3>1. Held(z) /\ z[1] \in Pages
      BY <1>7, <2>2, HandleLemma
    <3> QED BY <1>1, <1>2, <1>3, <3>1 DEF HeldHome
  <2> QED BY <2>1, <2>2
<1>11. NowhereElse'
  BY <1>2, <1>3, <1>4, <1>6, <1>7, <1>8 DEF NowhereElse
<1>12. Somewhere'
  <2> SUFFICES ASSUME NEW f \in SmallPages, NEW z \in Slots(f)
               PROVE  Held(z)' \/ Moving(z)' \/ Stacked(z)' \/ Cached(z)'
    BY <1>2 DEF Somewhere, SameSmall, Slots
  <2>1. z \in Handle
    BY HandleLemma DEF SmallPages, TypeOK
  <2> QED BY <1>2, <1>3, <1>6, <1>7, <1>8, <2>1 DEF Somewhere
<1> QED BY <1>2, <1>6, <1>7, <1>8, <1>9, <1>10, <1>11, <1>12, PlacedNext

-----------------------------------------------------------------------------
(* Large allocations.                                                      *)

\* Page g becomes the header of a large allocation; pages with no other than large
\* allocations may go back to palloc.
LEMMA LargePlaces ==
    ASSUME TypeOK, Placed, NEW g \in Pages, NEW o, g \notin live,
           g \in live', live' \subseteq live \cup {g}, SmallPages \subseteq live',
           header' = [header EXCEPT ![g] = LargeHeader(o)],
           cross' = [cross EXCEPT ![g] = <<>>],
           local' = local, pages' = pages
    PROVE  /\ SameSmall
           /\ PagesHome' /\ OwnerHome' /\ CrossHome' /\ CrossOnce' /\ LocalHome' /\ LocalOnce' /\ Exact'
           /\ \A x \in Handle : Stacked(x)' <=> Stacked(x)
           /\ \A x \in Handle : Cached(x)' <=> Cached(x)
           /\ ~Held(<<g, 0>>) /\ header'[g].large /\ <<g, 0>> \in Handle /\ <<g, 0>> \notin Block
           /\ \A f \in Pages : f # g => header'[f] = header[f]
<1>1. /\ cross[g] = <<>> /\ g \notin SmallPages
      /\ \A x \in Handle : x[1] = g => ~Held(x)
  BY FreshPlaces
<1>2. header'[g].large /\ \A f \in Pages : f # g => header'[f] = header[f]
  BY DEF TypeOK, LargeHeader
<1>3. SameSmall
  BY <1>1, <1>2 DEF SameSmall, SmallPages, TypeOK
<1>4. cross' = cross
  BY <1>1 DEF TypeOK
<1>5. <<g, 0>> \in Handle /\ <<g, 0>> \notin Block /\ <<g, 0>>[1] = g
  BY HandleLemma
<1>6. \A f \in SmallPages : header'[f].used = header[f].used
  BY <1>1, <1>2 DEF SmallPages, TypeOK
<1>7. /\ PagesHome' /\ OwnerHome' /\ LocalHome' /\ LocalOnce' /\ Exact'
      /\ \A x \in Handle : Cached(x)' <=> Cached(x)
  BY <1>3, <1>6, KeepPages, KeepLocal
<1>8. CrossHome' /\ CrossOnce' /\ \A x \in Handle : Stacked(x)' <=> Stacked(x)
  BY <1>3, <1>4, KeepCross DEF SameSmall
<1> QED BY <1>1, <1>2, <1>3, <1>5, <1>7, <1>8

\* alloc of a size above the largest bucket.
LEMMA AllocLargePlaced ==
    ASSUME TypeOK, Placed, NEW t \in Threads, NEW f \in Pages, AllocLarge(t, f)
    PROVE  Placed'
<1> DEFINE x == <<f, 0>>
<1>1. /\ op[t].pc = "idle" /\ f \notin live /\ live' = live \cup {f}
      /\ header' = [header EXCEPT ![f] = LargeHeader(t)]
      /\ cross' = [cross EXCEPT ![f] = <<>>]
      /\ local' = local /\ pages' = pages
      /\ Deliver(t, x, None)
  BY DEF AllocLarge, TakeLarge
<1>2. op[t].blk = None /\ NowhereElse /\ Somewhere /\ HeldHome
  BY <1>1 DEF Placed, Home, OpHome
<1>3. /\ SameSmall
      /\ PagesHome' /\ OwnerHome' /\ CrossHome' /\ CrossOnce' /\ LocalHome' /\ LocalOnce' /\ Exact'
      /\ \A y \in Handle : Stacked(y)' <=> Stacked(y)
      /\ \A y \in Handle : Cached(y)' <=> Cached(y)
      /\ ~Held(x) /\ header'[f].large /\ x \in Handle /\ x \notin Block
      /\ \A g \in Pages : g # f => header'[g] = header[g]
  <2>1. f \in live' /\ live' \subseteq live \cup {f} /\ SmallPages \subseteq live'
    BY <1>1 DEF SmallPages
  <2> QED BY <1>1, <2>1, LargePlaces
<1>4. ~Moving(x) /\ ~Stacked(x) /\ ~Cached(x)
  BY <1>1, <1>3, FreshPlaces
<1>5. x[1] = f
  OBVIOUS
<1> HIDE DEF x
<1>6. /\ OpHome' /\ OpOnce' /\ HeldOnce'
      /\ \A y \in Handle : Held(y)' <=> Held(y) \/ y = x
      /\ \A y \in Handle : Moving(y)' <=> Moving(y)
  BY <1>1, <1>2, <1>3, DeliverPlaces DEF SameSmall
<1>7. HeldHome'
  <2> SUFFICES ASSUME NEW y \in Handle, Held(y)'
               PROVE  y[1] \in live' /\ (y \in Block <=> ~header'[y[1]].large)
    BY DEF HeldHome
  <2>1. CASE y = x
    BY <1>1, <1>3, <1>5, <2>1
  <2>2. CASE y # x
    <3>1. Held(y) /\ y[1] \in Pages /\ y[1] \in live
      BY <1>2, <1>6, <2>2, HandleLemma DEF HeldHome
    <3> QED BY <1>1, <1>2, <1>3, <3>1 DEF HeldHome
  <2> QED BY <2>1, <2>2
<1>8. NowhereElse'
  BY <1>2, <1>3, <1>4, <1>6 DEF NowhereElse
<1>9. Somewhere'
  <2> SUFFICES ASSUME NEW g \in SmallPages, NEW y \in Slots(g)
               PROVE  Held(y)' \/ Moving(y)' \/ Stacked(y)' \/ Cached(y)'
    BY <1>3 DEF Somewhere, SameSmall, Slots
  <2>1. y \in Handle
    BY HandleLemma DEF SmallPages, TypeOK
  <2> QED BY <1>2, <1>3, <1>6, <2>1 DEF Somewhere
<1> QED BY <1>3, <1>6, <1>7, <1>8, <1>9, PlacedNext
\* grow of a small block beyond the largest bucket.
LEMMA GrowToLargePlaced ==
    ASSUME TypeOK, Placed, NEW t \in Threads, NEW x \in Handle, NEW f \in Pages, GrowToLarge(t, x, f)
    PROVE  Placed'
<1> DEFINE y == <<f, 0>>
           o == Dropping(x)
<1>1. /\ op[t].pc = "idle" /\ Held(x) /\ ~header[x[1]].large
      /\ f \notin live /\ live' = live \cup {f}
      /\ header' = [header EXCEPT ![f] = LargeHeader(t)]
      /\ cross' = [cross EXCEPT ![f] = <<>>]
      /\ local' = local /\ pages' = pages
      /\ held' = [held EXCEPT ![x] = @ - 1, ![y] = @ + 1]
      /\ op' = [op EXCEPT ![t] = o]
  BY DEF GrowToLarge, TakeLarge, Held
<1>2. /\ OpOnce /\ HeldOnce /\ NowhereElse /\ Somewhere /\ HeldHome
      /\ op[t].blk = None
  BY <1>1, OnceParts DEF Placed, Home, OpHome
<1>3. /\ SameSmall
      /\ PagesHome' /\ OwnerHome' /\ CrossHome' /\ CrossOnce' /\ LocalHome' /\ LocalOnce' /\ Exact'
      /\ \A z \in Handle : Stacked(z)' <=> Stacked(z)
      /\ \A z \in Handle : Cached(z)' <=> Cached(z)
      /\ ~Held(y) /\ header'[f].large /\ y \in Handle /\ y \notin Block
      /\ \A g \in Pages : g # f => header'[g] = header[g]
  <2>1. f \in live' /\ live' \subseteq live \cup {f} /\ SmallPages \subseteq live'
    BY <1>1 DEF SmallPages
  <2> QED BY <1>1, <2>1, LargePlaces
<1>4. /\ ~Moving(y) /\ ~Stacked(y) /\ ~Cached(y)
      /\ x[1] \in SmallPages /\ x \in Block /\ ~Moving(x) /\ ~Stacked(x) /\ ~Cached(x)
  <2>1. ~Moving(y) /\ ~Stacked(y) /\ ~Cached(y)
    BY <1>1, <1>3, FreshPlaces
  <2>2. x[1] \in SmallPages /\ x \in Block /\ ~Moving(x) /\ ~Stacked(x) /\ ~Cached(x)
    BY <1>1, <1>2 DEF HeldHome, NowhereElse, SmallPages
  <2> QED BY <2>1, <2>2
<1>5. y[1] = f /\ o.blk = x /\ o.pc = "drop" /\ x # None
  BY IdleType, HandleLemma DEF Dropping, Idle
<1> HIDE DEF y, o
<1>6. OpHome' /\ OpOnce' /\ \A z \in Handle : Moving(z)' <=> Moving(z) \/ z = x
  <2>1. ~\E u \in Threads \ {t} : op[u].blk = x
    BY <1>4 DEF Moving
  <2>2. OpHome' /\ OpOnce'
    BY <1>1, <1>3, <1>4, <1>5, <2>1, OpPlaces DEF SameSmall
  <2>3. op'[t] = o /\ \A u \in Threads : u # t => op'[u] = op[u]
    BY <1>1 DEF TypeOK
  <2> QED BY <1>2, <1>5, <2>2, <2>3, HandleLemma DEF Moving
<1>7. HeldOnce' /\ \A z \in Handle : Held(z)' <=> (Held(z) /\ z # x) \/ z = y
  BY <1>1, <1>3, SwapPlaces
<1>8. HeldHome'
  <2> SUFFICES ASSUME NEW z \in Handle, Held(z)'
               PROVE  z[1] \in live' /\ (z \in Block <=> ~header'[z[1]].large)
    BY DEF HeldHome
  <2>1. CASE z = y
    BY <1>1, <1>3, <1>5, <2>1
  <2>2. CASE z # y
    <3>1. Held(z) /\ z[1] \in Pages /\ z[1] \in live
      BY <1>2, <1>7, <2>2, HandleLemma DEF HeldHome
    <3> QED BY <1>1, <1>2, <1>3, <3>1 DEF HeldHome
  <2> QED BY <2>1, <2>2
<1>9. NowhereElse'
  BY <1>2, <1>3, <1>4, <1>6, <1>7 DEF NowhereElse
<1>10. Somewhere'
  <2> SUFFICES ASSUME NEW g \in SmallPages, NEW z \in Slots(g)
               PROVE  Held(z)' \/ Moving(z)' \/ Stacked(z)' \/ Cached(z)'
    BY <1>3 DEF Somewhere, SameSmall, Slots
  <2>1. z \in Handle
    BY HandleLemma DEF SmallPages, TypeOK
  <2> QED BY <1>2, <1>3, <1>6, <1>7, <2>1 DEF Somewhere
<1> QED BY <1>3, <1>6, <1>7, <1>8, <1>9, <1>10, PlacedNext

\* Only the payload of a large allocation is with a caller.
LEMMA LargeHeld ==
    ASSUME Placed, NEW x \in Handle, Held(x), header[x[1]].large
    PROVE  /\ x = <<x[1], 0>> /\ x[1] \in live /\ x[1] \in Pages /\ x[1] \notin SmallPages
           /\ \A y \in Handle : Held(y) /\ y[1] = x[1] => y = x
<1>1. HeldHome
  BY DEF Placed, Home
<1>2. \A y \in Handle : Held(y) /\ y[1] = x[1] => y = <<x[1], 0>>
  BY <1>1, HandleLemma DEF HeldHome
<1> QED BY <1>1, <1>2, HandleLemma DEF HeldHome, SmallPages

\* grow and shrink of a large allocation that moves.
LEMMA MoveLargePlaced ==
    ASSUME TypeOK, Placed, NEW t \in Threads, NEW f \in Pages, NEW g \in Pages, MoveLarge(t, f, g)
    PROVE  Placed'
<1> DEFINE x == <<f, 0>>
           y == <<g, 0>>
<1>1. /\ Held(x) /\ header[f].large /\ g \notin live
      /\ live' = (live \ {f}) \cup {g}
      /\ cross' = [cross EXCEPT ![g] = <<>>]
      /\ held' = [held EXCEPT ![x] = @ - 1, ![y] = @ + 1]
      /\ local' = local /\ pages' = pages /\ op' = op
  BY DEF MoveLarge, Held
<1>2. PICK o \in {header[f].owner, t} : header' = [header EXCEPT ![g] = LargeHeader(o)]
  BY DEF MoveLarge
<1>3. NowhereElse /\ Somewhere /\ HeldHome /\ OpHome /\ OpOnce
  BY OnceParts DEF Placed, Home
<1>4. /\ x \in Handle /\ x[1] = f /\ f \in live /\ f \notin SmallPages
      /\ \A z \in Handle : Held(z) /\ z[1] = f => z = x
  BY <1>1, HandleLemma, LargeHeld
<1>5. /\ SameSmall
      /\ PagesHome' /\ OwnerHome' /\ CrossHome' /\ CrossOnce' /\ LocalHome' /\ LocalOnce' /\ Exact'
      /\ \A z \in Handle : Stacked(z)' <=> Stacked(z)
      /\ \A z \in Handle : Cached(z)' <=> Cached(z)
      /\ ~Held(y) /\ header'[g].large /\ y \in Handle /\ y \notin Block
      /\ \A h \in Pages : h # g => header'[h] = header[h]
  <2>1. g \in live' /\ live' \subseteq live \cup {g} /\ SmallPages \subseteq live'
    BY <1>1, <1>4 DEF SmallPages
  <2> QED BY <1>1, <1>2, <2>1, LargePlaces
<1>6. y[1] = g /\ ~Moving(y) /\ ~Stacked(y) /\ ~Cached(y)
  BY <1>1, <1>5, FreshPlaces
<1> HIDE DEF x, y
<1>7. OpHome' /\ OpOnce' /\ \A z \in Handle : Moving(z)' <=> Moving(z)
  BY <1>1, <1>3, <1>5 DEF OpHome, OpOnce, Moving, SameSmall
<1>8. HeldOnce' /\ \A z \in Handle : Held(z)' <=> (Held(z) /\ z # x) \/ z = y
  BY <1>1, <1>4, <1>5, SwapPlaces
<1>9. HeldHome'
  <2> SUFFICES ASSUME NEW z \in Handle, Held(z)'
               PROVE  z[1] \in live' /\ (z \in Block <=> ~header'[z[1]].large)
    BY DEF HeldHome
  <2>1. CASE z = y
    BY <1>1, <1>5, <1>6, <2>1
  <2>2. CASE z # y
    <3>1. Held(z) /\ z # x /\ z[1] \in Pages /\ z[1] \in live /\ z[1] # f
      BY <1>3, <1>4, <1>8, <2>2, HandleLemma DEF HeldHome
    <3> QED BY <1>1, <1>3, <1>5, <3>1 DEF HeldHome
  <2> QED BY <2>1, <2>2
<1>10. NowhereElse'
  BY <1>3, <1>5, <1>6, <1>7, <1>8 DEF NowhereElse
<1>11. Somewhere'
  <2> SUFFICES ASSUME NEW h \in SmallPages, NEW z \in Slots(h)
               PROVE  Held(z)' \/ Moving(z)' \/ Stacked(z)' \/ Cached(z)'
    BY <1>5 DEF Somewhere, SameSmall, Slots
  <2>1. z \in Handle /\ z # x
    <3>1. z[1] = h
      BY DEF Slots
    <3> QED BY <1>4, <3>1, HandleLemma DEF SmallPages, TypeOK
  <2> QED BY <1>3, <1>5, <1>7, <1>8, <2>1 DEF Somewhere
<1> QED BY <1>5, <1>7, <1>8, <1>9, <1>10, <1>11, PlacedNext
-----------------------------------------------------------------------------
(* dealloc.                                                                *)

\* Block x is with the caller that frees it, or with the grow that replaced it;
\* then it is nowhere else, and after the step neither has it.
LEMMA DeallocPlaced ==
    ASSUME TypeOK, Placed, NEW t \in Threads, NEW x \in Handle, Dealloc(t, x), pages' = pages,
           \/ Held(x) /\ op[t].blk = None /\ held' = [held EXCEPT ![x] = @ - 1]
           \/ op[t].blk = x /\ held' = held
    PROVE  Placed'
<1> DEFINE f == x[1]
           o == IF header[f].large \/ header[f].owner = t THEN Idle ELSE Pushing(x, Top(cross[f]))
<1>1. /\ NowhereElse /\ Somewhere /\ HeldHome /\ OpHome /\ OpOnce /\ HeldOnce
      /\ x # None /\ f \in Pages
  BY OnceParts, HandleLemma DEF Placed, Home
<1>2. /\ ~Stacked(x) /\ ~Cached(x)
      /\ \A u \in Threads \ {t} : op[u].blk # x
      /\ op[t].blk \in {None, x}
      /\ f \in live /\ (x \in Block <=> ~header[f].large)
  <2>1. CASE Held(x) /\ op[t].blk = None
    BY <1>1, <2>1 DEF NowhereElse, HeldHome, Moving
  <2>2. CASE op[t].blk = x
    <3>1. Moving(x) /\ x \in Block /\ f \in SmallPages
      BY <1>1, <2>2 DEF Moving, OpHome
    <3>2. \A u \in Threads \ {t} : op[u].blk # x
      BY <1>1, <2>2 DEF OpOnce
    <3> QED BY <1>1, <2>2, <3>1, <3>2 DEF NowhereElse, SmallPages
  <2> QED BY <2>1, <2>2
<1>3. HeldOnce' /\ \A y \in Handle : Held(y)' <=> Held(y) /\ y # x
  <2>1. CASE Held(x) /\ held' = [held EXCEPT ![x] = @ - 1]
    BY <2>1, TakePlaces
  <2>2. CASE op[t].blk = x /\ held' = held
    <3>1. ~Held(x)
      BY <1>1, <2>2 DEF NowhereElse, Moving
    <3> QED BY <1>1, <2>2, <3>1 DEF HeldOnce, Held
  <2> QED BY <2>1, <2>2
<1>4. /\ op' = [op EXCEPT ![t] = o]
      /\ o.blk = IF header[f].large \/ header[f].owner = t THEN None ELSE x
      /\ o.pc = "idle" => o.blk = None
  BY IdleType DEF Dealloc, Pushing, Idle
<1> DEFINE pushing == ~header[f].large /\ header[f].owner # t
<1>5. \A y \in Handle : Moving(y)' <=> (Moving(y) /\ y # x) \/ (pushing /\ y = x)
  <2> HIDE DEF o
  <2>1. op'[t] = o /\ \A u \in Threads : u # t => op'[u] = op[u]
    BY <1>4 DEF TypeOK
  <2> QED BY <1>1, <1>2, <1>4, <2>1, HandleLemma DEF Moving
<1>6. SmallPages \subseteq SmallPages' => OpHome' /\ OpOnce'
  <2> SUFFICES ASSUME SmallPages \subseteq SmallPages' PROVE OpHome' /\ OpOnce'
    OBVIOUS
  <2>1. \/ o.blk \in {None, op[t].blk}
        \/ /\ o.blk \in Block /\ o.blk[1] \in SmallPages
           /\ ~\E u \in Threads \ {t} : op[u].blk = o.blk
    BY <1>2, <1>4 DEF SmallPages
  <2> HIDE DEF o
  <2> QED BY <1>4, <2>1, OpPlaces
<1> HIDE DEF o
<1>7. CASE header[f].large
  <2>1. /\ live' = live \ {f} /\ header' = header /\ cross' = cross /\ local' = local
    BY <1>7 DEF Dealloc
  <2>2. SameSmall /\ f \notin SmallPages
    BY <1>7, <2>1 DEF SameSmall, SmallPages
  <2>3. /\ PagesHome' /\ OwnerHome' /\ CrossHome' /\ CrossOnce' /\ LocalHome' /\ LocalOnce' /\ Exact'
        /\ \A y \in Handle : Stacked(y)' <=> Stacked(y)
        /\ \A y \in Handle : Cached(y)' <=> Cached(y)
    BY <2>1, <2>2, KeepPages, KeepCross, KeepLocal DEF SameSmall
  <2>4. HeldHome'
    <3> SUFFICES ASSUME NEW y \in Handle, Held(y)'
                 PROVE  y[1] \in live' /\ (y \in Block <=> ~header'[y[1]].large)
      BY DEF HeldHome
    <3>1. Held(y) /\ y # x
      BY <1>3
    <3>2. y[1] # f
      BY <1>1, <1>2, <1>7, <3>1, HandleLemma DEF HeldHome
    <3> QED BY <1>1, <2>1, <3>1, <3>2 DEF HeldHome
  <2>5. NowhereElse'
    BY <1>1, <1>2, <1>3, <1>5, <1>7, <2>3 DEF NowhereElse
  <2>6. Somewhere'
    <3> SUFFICES ASSUME NEW g \in SmallPages, NEW y \in Slots(g)
                 PROVE  Held(y)' \/ Moving(y)' \/ Stacked(y)' \/ Cached(y)'
      BY <2>2 DEF Somewhere, SameSmall, Slots
    <3>1. y \in Handle /\ y \in Block /\ y # x
      BY <1>2, <1>7, HandleLemma DEF SmallPages, TypeOK
    <3> QED BY <1>1, <1>3, <1>5, <2>3, <3>1 DEF Somewhere
  <2> QED BY <1>3, <1>6, <2>2, <2>3, <2>4, <2>5, <2>6, PlacedNext DEF SameSmall
<1>8. CASE ~header[f].large /\ header[f].owner = t
  <2>1. /\ live' = live /\ cross' = cross
        /\ local' = [local EXCEPT ![t][header[f].bucket] = <<x>> \o @]
        /\ header' = [header EXCEPT ![f].used = UsedAfterOwnFree(f)]
    BY <1>8 DEF Dealloc
  <2>2. x \in Block /\ f \in SmallPages
    BY <1>2, <1>8 DEF SmallPages
  <2>3. /\ SameSmall /\ LocalOnce' /\ LocalHome' /\ Exact'
        /\ \A g \in Pages : header'[g].large = header[g].large
        /\ \A y \in Handle : Cached(y)' <=> Cached(y) \/ y = x
    BY <1>2, <1>8, <2>1, <2>2, PushPlaces
  <2>4. /\ PagesHome' /\ OwnerHome' /\ CrossHome' /\ CrossOnce'
        /\ \A y \in Handle : Stacked(y)' <=> Stacked(y)
    BY <2>1, <2>3, KeepPages, KeepCross DEF SameSmall
  <2>5. HeldHome'
    BY <1>1, <1>3, <2>1, <2>3, HandleLemma DEF HeldHome
  <2>6. NowhereElse'
    BY <1>1, <1>2, <1>3, <1>5, <1>8, <2>3, <2>4 DEF NowhereElse
  <2>7. Somewhere'
    <3> SUFFICES ASSUME NEW g \in SmallPages, NEW y \in Slots(g)
                 PROVE  Held(y)' \/ Moving(y)' \/ Stacked(y)' \/ Cached(y)'
      BY <2>3 DEF Somewhere, SameSmall, Slots
    <3>1. y \in Handle
      BY HandleLemma DEF SmallPages, TypeOK
    <3> QED BY <1>1, <1>3, <1>5, <2>3, <2>4, <3>1 DEF Somewhere
  <2> QED BY <1>3, <1>6, <2>3, <2>4, <2>5, <2>6, <2>7, PlacedNext DEF SameSmall
<1>9. CASE pushing
  <2>1. /\ live' = live /\ header' = header /\ cross' = cross /\ local' = local
    BY <1>9 DEF Dealloc
  <2>2. SameSmall
    BY <2>1 DEF SameSmall, SmallPages
  <2>3. /\ PagesHome' /\ OwnerHome' /\ CrossHome' /\ CrossOnce' /\ LocalHome' /\ LocalOnce' /\ Exact'
        /\ \A y \in Handle : Stacked(y)' <=> Stacked(y)
        /\ \A y \in Handle : Cached(y)' <=> Cached(y)
    BY <2>1, <2>2, KeepPages, KeepCross, KeepLocal DEF SameSmall
  <2>4. HeldHome'
    BY <1>1, <1>3, <2>1 DEF HeldHome
  <2>5. NowhereElse'
    BY <1>1, <1>2, <1>3, <1>5, <2>3 DEF NowhereElse
  <2>6. Somewhere'
    <3> SUFFICES ASSUME NEW g \in SmallPages, NEW y \in Slots(g)
                 PROVE  Held(y)' \/ Moving(y)' \/ Stacked(y)' \/ Cached(y)'
      BY <2>2 DEF Somewhere, SameSmall, Slots
    <3>1. y \in Handle
      BY HandleLemma DEF SmallPages, TypeOK
    <3> QED BY <1>1, <1>3, <1>5, <1>9, <2>3, <3>1 DEF Somewhere
  <2> QED BY <1>3, <1>6, <2>2, <2>3, <2>4, <2>5, <2>6, PlacedNext DEF SameSmall
<1> QED BY <1>7, <1>8, <1>9

\* The CAS succeeds: the head is the one the block links to, so the block goes on
\* top of the whole stack.
LEMMA PushOkPlaced ==
    ASSUME TypeOK, Placed, NEW t \in Threads, PushOk(t)
    PROVE  Placed'
<1> DEFINE x == op[t].blk
           f == x[1]
           s == cross[f]
<1>1. /\ op[t].pc = "push" /\ Top(s) = op[t].seen
      /\ cross' = [cross EXCEPT ![f] = <<x>> \o From(@, op[t].seen)]
      /\ op' = [op EXCEPT ![t] = Idle]
      /\ live' = live /\ header' = header /\ local' = local /\ pages' = pages /\ held' = held
  BY DEF PushOk, HeadUnchanged
<1>2. /\ NowhereElse /\ Somewhere /\ HeldHome /\ OpHome /\ OpOnce /\ HeldOnce /\ CrossHome /\ CrossOnce
  BY OnceParts DEF Placed, Home
<1>3. /\ x \in Block /\ x \in Handle /\ f \in SmallPages /\ f \in Pages
      /\ s \in Seq(Handle) /\ IsInjective(s)
  <2>1. x # None
    BY <1>1 DEF TypeOK
  <2>2. x \in Block /\ f \in SmallPages
    BY <1>2, <2>1 DEF OpHome
  <2> QED BY <1>2, <2>2, HandleLemma DEF CrossOnce, SmallPages, TypeOK
<1>4. Moving(x) /\ ~Held(x) /\ ~Stacked(x) /\ ~Cached(x) /\ \A u \in Threads \ {t} : op[u].blk # x
  <2>1. Moving(x) /\ x # None
    BY <1>3, HandleLemma DEF Moving
  <2> QED BY <1>2, <1>3, <2>1 DEF NowhereElse, OpOnce
<1> DEFINE r == <<x>> \o s
<1>5. cross' = [cross EXCEPT ![f] = r]
  <2>1. From(s, op[t].seen) = s
    BY <1>1, <1>3, FromLemma, HandleLemma
  <2> QED BY <1>1, <2>1
<1>6. IsInjective(r) /\ ToSet(r) = {x} \cup ToSet(s)
  <2>1. x \notin ToSet(s)
    BY <1>4 DEF Stacked
  <2> QED BY <1>3, <2>1, ConsLemma
<1>7. SameSmall
  BY <1>1 DEF SameSmall, SmallPages
<1>8. /\ PagesHome' /\ OwnerHome' /\ LocalHome' /\ LocalOnce' /\ Exact'
      /\ \A y \in Handle : Cached(y)' <=> Cached(y)
  BY <1>1, <1>7, KeepPages, KeepLocal
<1>9. OpHome' /\ OpOnce' /\ \A y \in Handle : Moving(y)' <=> Moving(y) /\ y # x
  <2>1. op'[t] = Idle /\ \A u \in Threads : u # t => op'[u] = op[u]
    BY <1>1 DEF TypeOK
  <2>2. SmallPages' = SmallPages
    BY <1>7 DEF SameSmall
  <2>3. OpHome'
    BY <1>2, <2>1, <2>2, IdleType DEF OpHome
  <2>4. OpOnce'
    BY <1>2, <2>1, IdleType DEF OpOnce
  <2>5. \A y \in Handle : Moving(y)' <=> Moving(y) /\ y # x
    BY <1>4, <2>1, IdleType, HandleLemma DEF Moving
  <2> QED BY <2>3, <2>4, <2>5
<1> HIDE DEF r, s, x, f
<1>10. cross'[f] = r /\ \A g \in Pages : g # f => cross'[g] = cross[g]
  BY <1>3, <1>5 DEF TypeOK
<1>11. CrossHome' /\ CrossOnce' /\ \A y \in Handle : Stacked(y)' <=> Stacked(y) \/ y = x
  <2>1. CrossOnce'
    BY <1>2, <1>6, <1>10 DEF CrossOnce
  <2>2. CrossHome'
    BY <1>2, <1>3, <1>6, <1>7, <1>10 DEF CrossHome, SameSmall, s, f
  <2>3. \A y \in Handle : Stacked(y)' <=> Stacked(y) \/ y = x
    BY <1>3, <1>6, <1>10, HandleLemma DEF Stacked, s, f
  <2> QED BY <2>1, <2>2, <2>3
<1>12. HeldOnce' /\ HeldHome' /\ \A y \in Handle : Held(y)' <=> Held(y)
  BY <1>1, <1>2 DEF HeldOnce, HeldHome, Held
<1>13. NowhereElse'
  BY <1>2, <1>4, <1>8, <1>9, <1>11, <1>12 DEF NowhereElse
<1>14. Somewhere'
  <2> SUFFICES ASSUME NEW g \in SmallPages, NEW y \in Slots(g)
               PROVE  Held(y)' \/ Moving(y)' \/ Stacked(y)' \/ Cached(y)'
    BY <1>7 DEF Somewhere, SameSmall, Slots
  <2>1. y \in Handle
    BY HandleLemma DEF SmallPages, TypeOK
  <2> QED BY <1>2, <1>8, <1>9, <1>11, <1>12, <2>1 DEF Somewhere
<1> QED BY <1>8, <1>9, <1>11, <1>12, <1>13, <1>14, PlacedNext
\* oldHead is reloaded; the operation keeps its block.
LEMMA PushRetryPlaced ==
    ASSUME TypeOK, Placed, NEW t \in Threads, PushRetry(t)
    PROVE  Placed'
<1>1. /\ live' = live /\ header' = header /\ cross' = cross /\ local' = local
      /\ pages' = pages /\ held' = held
      /\ \A u \in Threads : op'[u].blk = op[u].blk /\ op'[u].pc = op[u].pc
  BY DEF PushRetry, TypeOK, OpType
<1>2. /\ NowhereElse /\ Somewhere /\ HeldHome /\ OpHome /\ OpOnce /\ HeldOnce
  BY OnceParts DEF Placed, Home
<1>3. SameSmall /\ SmallPages' = SmallPages
  BY <1>1 DEF SameSmall, SmallPages
<1>4. /\ PagesHome' /\ OwnerHome' /\ CrossHome' /\ CrossOnce' /\ LocalHome' /\ LocalOnce' /\ Exact'
      /\ \A y \in Handle : Stacked(y)' <=> Stacked(y)
      /\ \A y \in Handle : Cached(y)' <=> Cached(y)
  BY <1>1, <1>3, KeepPages, KeepCross, KeepLocal
<1>5. OpHome' /\ OpOnce' /\ \A y : Moving(y)' <=> Moving(y)
  BY <1>1, <1>2, <1>3 DEF OpHome, OpOnce, Moving
<1>6. HeldOnce' /\ HeldHome' /\ \A y : Held(y)' <=> Held(y)
  BY <1>1, <1>2 DEF HeldOnce, HeldHome, Held
<1>7. NowhereElse'
  BY <1>2, <1>4, <1>5, <1>6 DEF NowhereElse
<1>8. Somewhere'
  <2> SUFFICES ASSUME NEW g \in SmallPages, NEW y \in Slots(g)
               PROVE  Held(y)' \/ Moving(y)' \/ Stacked(y)' \/ Cached(y)'
    BY <1>3 DEF Somewhere, Slots
  <2>1. y \in Handle
    BY HandleLemma DEF SmallPages, TypeOK
  <2> QED BY <1>2, <1>4, <1>5, <1>6, <2>1 DEF Somewhere
<1> QED BY <1>4, <1>5, <1>6, <1>7, <1>8, PlacedNext

-----------------------------------------------------------------------------
(* The invariant.                                                          *)

\* At first there are no blocks.
LEMMA InitPlaced == Init => Placed
<1> SUFFICES ASSUME Init PROVE Placed
  OBVIOUS
<1>1. /\ \A t \in Threads, b \in Bucket : local[t][b] = <<>> /\ pages[t][b] = <<>>
      /\ \A f \in Pages : cross[f] = <<>>
      /\ \A x \in Handle : held[x] = 0
      /\ \A t \in Threads : op[t] = Idle
      /\ live = {} /\ SmallPages = {}
  BY DEF Init, SmallPages
<1>2. ToSet(<<>>) = {} /\ IsInjective(<<>>)
  BY DEF ToSet, IsInjective
<1>3. Home
  BY <1>1, <1>2, IdleType DEF Home, LocalHome, CrossHome, PagesHome, HeldHome, OpHome, OwnerHome, Held
<1>4. Somewhere /\ Exact
  BY <1>1 DEF Somewhere, Exact
<1>5. \A x \in Handle : ~Held(x) /\ ~Moving(x) /\ ~Stacked(x) /\ ~Cached(x)
  BY <1>1, <1>2, IdleType, HandleLemma DEF Held, Moving, Stacked, Cached
<1>6. NowhereElse
  BY <1>5 DEF NowhereElse
<1>7. Once
  BY <1>1, <1>2, IdleType DEF Once
<1> QED BY <1>3, <1>4, <1>6, <1>7 DEF Placed

\* Every step that releases no page keeps every block in one place.
LEMMA NextPlaced == TypeOK /\ Placed /\ Next /\ released = {} /\ released' = {} => Placed'
<1> SUFFICES ASSUME TypeOK, Placed, Next, released = {}, released' = {} PROVE Placed'
  OBVIOUS
<1>1. \A t \in Threads : op[t].pc = "idle" => op[t].blk = None
  BY DEF Placed, Home, OpHome
<1>2. ASSUME NEW t \in Threads, NEW b \in Bucket, AllocFast(t, b) PROVE Placed'
  BY <1>1, <1>2, PopLocalPlaced DEF AllocFast
<1>3. ASSUME NEW t \in Threads, NEW b \in Bucket, AllocSlow(t, b) PROVE Placed'
  <2> DEFINE o == Sweeping(b, None)
  <2>1. o.blk = None /\ o.pc # "idle"
    BY DEF Sweeping, Idle
  <2>2. /\ op[t].blk = None /\ op' = [op EXCEPT ![t] = o] /\ held' = held
        /\ UNCHANGED <<live, header, cross, local, pages>>
    BY <1>1, <1>3 DEF AllocSlow
  <2> HIDE DEF o
  <2> QED BY <2>1, <2>2, StartPlaced
<1>4. ASSUME NEW t \in Threads, SweepPage(t) PROVE Placed'
  BY <1>4, SweepPlaced
<1>5. ASSUME NEW t \in Threads, SlowPop(t) PROVE Placed'
  BY <1>5, PopLocalPlaced DEF SlowPop, TypeOK, OpType
<1>6. ASSUME NEW t \in Threads, SlowFail(t) PROVE Placed'
  BY <1>6, SlowFailPlaced
<1>7. ASSUME NEW t \in Threads, NEW f \in Pages, SlowCarve(t, f) PROVE Placed'
  BY <1>7, CarvePlaced
<1>8. ASSUME NEW t \in Threads, NEW f \in Pages, AllocLarge(t, f) PROVE Placed'
  BY <1>8, AllocLargePlaced
<1>9. ASSUME NEW t \in Threads, NEW x \in Handle, Free(t, x) PROVE Placed'
  BY <1>1, <1>9, DeallocPlaced DEF Free, Held
<1>10. ASSUME NEW t \in Threads, DropOld(t) PROVE Placed'
  <2>1. op[t].blk \in Handle
    BY <1>10 DEF DropOld, TypeOK, OpType
  <2> QED BY <1>10, <2>1, DeallocPlaced DEF DropOld
<1>11. ASSUME NEW t \in Threads, PushOk(t) PROVE Placed'
  BY <1>11, PushOkPlaced
<1>12. ASSUME NEW t \in Threads, PushRetry(t) PROVE Placed'
  BY <1>12, PushRetryPlaced
<1>13. ASSUME NEW t \in Threads, NEW x \in Handle, NEW b \in Bucket, GrowFast(t, x, b) PROVE Placed'
  BY <1>13, GrowFastPlaced
<1>14. ASSUME NEW t \in Threads, NEW x \in Handle, NEW b \in Bucket, GrowSlow(t, x, b) PROVE Placed'
  <2> DEFINE o == Sweeping(b, x)
  <2>1. o.blk = x /\ o.pc # "idle"
    BY DEF Sweeping, Idle
  <2>2. /\ op[t].blk = None /\ op' = [op EXCEPT ![t] = o]
        /\ Held(x) /\ ~header[x[1]].large /\ held' = [held EXCEPT ![x] = @ - 1]
        /\ UNCHANGED <<live, header, cross, local, pages>>
    BY <1>1, <1>14 DEF GrowSlow, Held
  <2>3. x \in Block
    BY <2>2 DEF Placed, Home, HeldHome
  <2> HIDE DEF o
  <2> QED BY <2>1, <2>2, <2>3, StartPlaced
<1>15. ASSUME NEW t \in Threads, NEW x \in Handle, NEW f \in Pages, GrowToLarge(t, x, f) PROVE Placed'
  BY <1>15, GrowToLargePlaced
<1>16. ASSUME NEW t \in Threads, NEW f \in Pages, NEW g \in Pages, MoveLarge(t, f, g) PROVE Placed'
  BY <1>16, MoveLargePlaced
<1> QED
  BY <1>2, <1>3, <1>4, <1>5, <1>6, <1>7, <1>8, <1>9, <1>10, <1>11, <1>12, <1>13, <1>14, <1>15,
     <1>16 DEF Next

\* Only a sweep releases pages, and a page once released stays on record.
LEMMA ReleaseLemma ==
    ASSUME [Next]_vars
    PROVE  /\ released \subseteq released'
           /\ released' = released \/ \E t \in Threads : SweepPage(t)
<1>1. ASSUME NEW t \in Threads, NEW b \in Bucket, AllocFast(t, b) \/ AllocSlow(t, b)
      PROVE  released' = released
  BY <1>1 DEF AllocFast, PopLocal, AllocSlow
<1>2. ASSUME NEW t \in Threads, SlowPop(t) \/ SlowFail(t) PROVE released' = released
  BY <1>2 DEF SlowPop, PopLocal, SlowFail
<1>3. ASSUME NEW t \in Threads, NEW f \in Pages, SlowCarve(t, f) \/ AllocLarge(t, f)
      PROVE  released' = released
  BY <1>3 DEF SlowCarve, AllocLarge, TakeLarge
<1>4. ASSUME NEW t \in Threads, NEW x \in Handle, Free(t, x) PROVE released' = released
  BY <1>4 DEF Free
<1>5. ASSUME NEW t \in Threads, DropOld(t) \/ PushOk(t) \/ PushRetry(t) PROVE released' = released
  BY <1>5 DEF DropOld, PushOk, PushRetry
<1>6. ASSUME NEW t \in Threads, NEW x \in Handle, NEW b \in Bucket, GrowFast(t, x, b) \/ GrowSlow(t, x, b)
      PROVE  released' = released
  BY <1>6 DEF GrowFast, GrowSlow
<1>7. ASSUME NEW t \in Threads, NEW x \in Handle, NEW f \in Pages, GrowToLarge(t, x, f)
      PROVE  released' = released
  BY <1>7 DEF GrowToLarge, TakeLarge
<1>8. ASSUME NEW t \in Threads, NEW f \in Pages, NEW g \in Pages, MoveLarge(t, f, g)
      PROVE  released' = released
  BY <1>8 DEF MoveLarge
<1>9. ASSUME NEW t \in Threads, SweepPage(t) PROVE released \subseteq released'
  BY <1>9 DEF SweepPage
<1>10. CASE UNCHANGED vars
  BY <1>10 DEF vars
<1> QED BY <1>1, <1>2, <1>3, <1>4, <1>5, <1>6, <1>7, <1>8, <1>9, <1>10 DEF Next

\* A step of something else changes nothing.
LEMMA StutterPlaced == Placed /\ UNCHANGED vars => Placed'
<1> SUFFICES ASSUME Placed, UNCHANGED vars PROVE Placed'
  OBVIOUS
<1>1. /\ live' = live /\ header' = header /\ cross' = cross /\ local' = local
      /\ pages' = pages /\ held' = held /\ op' = op
  BY DEF vars
<1>2. SameSmall /\ SmallPages' = SmallPages
  BY <1>1 DEF SameSmall, SmallPages
<1>3. /\ PagesHome' /\ OwnerHome' /\ CrossHome' /\ CrossOnce' /\ LocalHome' /\ LocalOnce' /\ Exact'
  BY <1>1, <1>2, KeepPages, KeepCross, KeepLocal
<1>4. HeldHome' /\ HeldOnce' /\ OpHome' /\ OpOnce'
  BY <1>1, <1>2, OnceParts DEF Placed, Home, HeldHome, HeldOnce, OpHome, OpOnce, Held
<1>5. NowhereElse'
  BY <1>1 DEF Placed, NowhereElse, Held, Moving, Stacked, Cached
<1>6. Somewhere'
  BY <1>1, <1>2 DEF Placed, Somewhere, Slots, Held, Moving, Stacked, Cached
<1> QED BY <1>3, <1>4, <1>5, <1>6, PlacedNext

\* The inductive invariant: the types, and until a page is released every block in
\* its one place with every list, header and operation pointing where it should.
THEOREM Invariance == Spec => []IInv
<1>1. Init => IInv
  BY InitType, InitPlaced DEF IInv
<1>2. IInv /\ [Next]_vars => IInv'
  <2> SUFFICES ASSUME IInv, [Next]_vars PROVE IInv'
    OBVIOUS
  <2>1. TypeOK'
    BY NextType DEF IInv
  <2>2. ASSUME released' = {} PROVE Placed'
    <3>1. released = {} /\ TypeOK /\ Placed
      BY <2>2, ReleaseLemma DEF IInv, Intact
    <3> QED BY <2>2, <3>1, NextPlaced, StutterPlaced
  <2> QED BY <2>1, <2>2 DEF IInv, Intact
<1> QED BY <1>1, <1>2, PTL DEF Spec

\* Until a page is released, every block of every carved page is in exactly one
\* place, once, in every interleaving of any number of threads.
THEOREM BlocksInOnePlace == Spec => []BlockInOnePlace
<1>1. IInv => BlockInOnePlace
  BY DEF IInv, Placed, BlockInOnePlace
<1> QED BY <1>1, Invariance, PTL

\* Until a page is released, used_count is the number of blocks that are not on the
\* owner's free list, for every number of threads, pages and blocks.
THEOREM UsedCountExact == Spec => []UsedIsExact
<1>1. IInv => UsedIsExact
  BY DEF IInv, Placed, UsedIsExact, Exact, InUse
<1> QED BY <1>1, Invariance, PTL

\* When a sweep finds used_count at 0, all blocks of the page were on its stack or on
\* the owner's free list: the first page given back to palloc is in nobody's use.
THEOREM FirstReleaseUnused == Spec => ReleasedIsUnused
<1> DEFINE Unused == \A f \in released' \ released : Intact =>
                        \A x \in Slots(f) : ~Held(x)' /\ ~Moving(x)' /\ ~Stacked(x)'
<1>1. IInv /\ [Next]_vars => [Unused]_vars
  <2> SUFFICES ASSUME IInv, [Next]_vars, NEW f \in released' \ released, Intact, NEW x \in Slots(f)
               PROVE  ~Held(x)' /\ ~Moving(x)' /\ ~Stacked(x)'
    OBVIOUS
  <2>1. PICK t \in Threads : SweepPage(t)
    BY ReleaseLemma
  <2> DEFINE b == op[t].bucket
             g == pages[t][b][op[t].at]
  <2>2. /\ op[t].at \in DOMAIN pages[t][b] /\ cross' = [cross EXCEPT ![g] = <<>>]
        /\ header[g].used = Len(cross[g]) /\ f = g
        /\ held' = held /\ op' = op
    <3>1. released' = released \cup {g} /\ header[g].used - FreedCount(g) = 0 /\ op' = op
      BY <2>1 DEF SweepPage
    <3>2. g \in Pages
      <4>1. op[t] \in OpType /\ op[t].at \in DOMAIN pages[t][b]
        BY <2>1 DEF SweepPage, IInv, TypeOK
      <4>2. b \in Bucket
        BY <4>1 DEF OpType
      <4> QED BY <4>1, <4>2 DEF IInv, TypeOK
    <3>3. header[g].used = Len(cross[g]) /\ f = g
      <4>1. Len(cross[g]) \in Int /\ header[g].used \in Int
        BY <3>2 DEF IInv, TypeOK, HeaderType
      <4> QED BY <3>1, <4>1 DEF FreedCount
    <3> QED BY <2>1, <3>1, <3>3 DEF SweepPage
  <2>3. TypeOK /\ Placed
    BY DEF IInv
  <2>4. /\ f \in SmallPages /\ f \in Pages /\ header[f].owner = t /\ header[f].bucket = b /\ b \in Bucket
    <3>1. b \in Bucket /\ f \in ToSet(pages[t][b])
      BY <2>2, <2>3 DEF TypeOK, OpType, ToSet
    <3> QED BY <2>3, <3>1 DEF Placed, Home, PagesHome, SmallPages, TypeOK
  <2>5. cross[f] \in Seq(Handle) /\ IsInjective(cross[f])
    BY <2>3, <2>4, OnceParts DEF TypeOK, Placed, CrossOnce
  <2>6. ToSet(cross[f]) \subseteq InUse(f)
    <3> SUFFICES ASSUME NEW y \in ToSet(cross[f]) PROVE y \in InUse(f)
      OBVIOUS
    <3>1. y \in Block /\ y[1] = f
      BY <2>3, <2>4 DEF Placed, Home, CrossHome
    <3>2. y \in Slots(f) /\ y \in Handle /\ Stacked(y)
      BY <3>1, HandleLemma DEF Stacked
    <3>3. ~Cached(y)
      BY <2>3, <3>2 DEF Placed, NowhereElse
    <3> QED BY <2>4, <3>2, <3>3 DEF InUse, Cached
  <2>7. InUse(f) = ToSet(cross[f])
    <3>1. Cardinality(InUse(f)) = Cardinality(ToSet(cross[f]))
      BY <2>2, <2>3, <2>4, <2>5, LengthLemma DEF Placed, Exact
    <3> QED BY <2>4, <2>6, <3>1, SlotsFinite, FS_Subset
  <2>8. x \in Handle /\ x[1] = f
    BY <2>4, HandleLemma DEF Slots
  <2>9. Stacked(x) \/ Cached(x)
    BY <2>4, <2>7, <2>8 DEF InUse, Stacked, Cached
  <2>10. ~Held(x) /\ ~Moving(x)
    BY <2>3, <2>8, <2>9 DEF Placed, NowhereElse
  <2>11. ~Stacked(x)'
    <3>1. cross'[f] = <<>>
      BY <2>2, <2>3, <2>4 DEF TypeOK
    <3> QED BY <2>8, <3>1 DEF Stacked, ToSet
  <2> QED BY <2>2, <2>10, <2>11 DEF Held, Moving
<1> QED BY <1>1, Invariance, PTL DEF Spec, ReleasedIsUnused

(***************************************************************************)
(* heap_allocator implements BlockPool until a page is released: every     *)
(* step hands out one block nobody has, takes back one that somebody has,  *)
(* moves a large allocation, or changes nothing that callers see.          *)
(***************************************************************************)

\* A grow still copies from the block, or will return it.
Busy(x) == \E t \in Threads : op[t].blk = x /\ op[t].pc # "push"
In(x) == Held(x) \/ Busy(x)

\* While blocks are in one place, Out counts a block 0 or 1 times.
LEMMA OutLemma ==
    ASSUME TypeOK, Placed
    PROVE  Out = [x \in Handle |-> IF In(x) THEN 1 ELSE 0]
<1> SUFFICES ASSUME NEW x \in Handle
             PROVE  held[x] + Cardinality({t \in Threads : op[t].blk = x /\ op[t].pc # "push"})
                      = IF In(x) THEN 1 ELSE 0
  BY DEF Out
<1> DEFINE T == {t \in Threads : op[t].blk = x /\ op[t].pc # "push"}
<1>1. OpOnce /\ HeldOnce /\ NowhereElse
  BY OnceParts DEF Placed
<1>2. held[x] = IF Held(x) THEN 1 ELSE 0
  BY <1>1 DEF HeldOnce, Held, TypeOK
<1>3. CASE Busy(x)
  <2>1. PICK t \in Threads : op[t].blk = x /\ op[t].pc # "push"
    BY <1>3 DEF Busy
  <2>2. T = {t}
    BY <1>1, <2>1, HandleLemma DEF OpOnce
  <2>3. ~Held(x)
    BY <1>1, <2>1 DEF NowhereElse, Moving
  <2> HIDE DEF T
  <2>4. Cardinality(T) = 1
    BY <2>2, FS_Singleton
  <2>5. In(x)
    BY <1>3 DEF In
  <2> QED BY <1>2, <2>3, <2>4, <2>5 DEF T
<1>4. CASE ~Busy(x)
  <2>1. T = {}
    BY <1>4 DEF Busy
  <2>2. Cardinality(T) = 0
    BY <2>1, FS_EmptySet
  <2>3. In(x) <=> Held(x)
    BY <1>4 DEF In
  <2> QED BY <1>2, <2>2, <2>3
<1> QED BY <1>3, <1>4

\* The same after a step.
LEMMA OutNext ==
    ASSUME TypeOK', Placed'
    PROVE  Out' = [x \in Handle |-> IF In(x)' THEN 1 ELSE 0]
<1> SUFFICES ASSUME NEW x \in Handle
             PROVE  held'[x] + Cardinality({t \in Threads : op'[t].blk = x /\ op'[t].pc # "push"})
                      = IF In(x)' THEN 1 ELSE 0
  BY DEF Out
<1> DEFINE T == {t \in Threads : op'[t].blk = x /\ op'[t].pc # "push"}
<1>1. OpOnce' /\ HeldOnce' /\ NowhereElse'
  BY DEF Placed, Once, OpOnce, HeldOnce
<1>2. held'[x] = IF Held(x)' THEN 1 ELSE 0
  BY <1>1 DEF HeldOnce, Held, TypeOK
<1>3. CASE Busy(x)'
  <2>1. PICK t \in Threads : op'[t].blk = x /\ op'[t].pc # "push"
    BY <1>3 DEF Busy
  <2>2. T = {t}
    BY <1>1, <2>1, HandleLemma DEF OpOnce
  <2>3. ~Held(x)'
    BY <1>1, <2>1 DEF NowhereElse, Moving
  <2> HIDE DEF T
  <2>4. Cardinality(T) = 1
    BY <2>2, FS_Singleton
  <2>5. In(x)'
    BY <1>3 DEF In
  <2> QED BY <1>2, <2>3, <2>4, <2>5 DEF T
<1>4. CASE ~Busy(x)'
  <2>1. T = {}
    BY <1>4 DEF Busy
  <2>2. Cardinality(T) = 0
    BY <2>1, FS_EmptySet
  <2>3. In(x)' <=> Held(x)'
    BY <1>4 DEF In
  <2> QED BY <1>2, <2>2, <2>3
<1> QED BY <1>3, <1>4

\* The four things a step can do to who has what.
LEMMA SameOut ==
    ASSUME TypeOK, Placed, TypeOK', Placed', \A y \in Handle : In(y)' <=> In(y)
    PROVE  Out' = Out
  BY OutLemma, OutNext

\* A block nobody had is handed out ...
LEMMA HandOut ==
    ASSUME TypeOK, Placed, TypeOK', Placed', NEW x \in Handle, ~In(x),
           \A y \in Handle : In(y)' <=> In(y) \/ y = x
    PROVE  Pool!Hand(x)
<1>1. /\ Out = [y \in Handle |-> IF In(y) THEN 1 ELSE 0]
      /\ Out' = [y \in Handle |-> IF In(y)' THEN 1 ELSE 0]
  BY OutLemma, OutNext
<1>2. Out' = [Out EXCEPT ![x] = 1]
  BY <1>1
<1> QED BY <1>1, <1>2 DEF Pool!Hand

\* ... a block somebody had comes back ...
LEMMA ReturnIn ==
    ASSUME TypeOK, Placed, TypeOK', Placed', NEW x \in Handle, In(x),
           \A y \in Handle : In(y)' <=> In(y) /\ y # x
    PROVE  Pool!Return(x)
<1>1. /\ Out = [y \in Handle |-> IF In(y) THEN 1 ELSE 0]
      /\ Out' = [y \in Handle |-> IF In(y)' THEN 1 ELSE 0]
  BY OutLemma, OutNext
<1>2. Out' = [Out EXCEPT ![x] = 0]
  BY <1>1
<1> QED BY <1>1, <1>2 DEF Pool!Return

\* ... or a large allocation changes its address.
LEMMA MoveInOut ==
    ASSUME TypeOK, Placed, TypeOK', Placed', NEW x \in Handle, NEW y \in Handle, In(x), ~In(y),
           \A z \in Handle : In(z)' <=> (In(z) /\ z # x) \/ z = y
    PROVE  Pool!Move(x, y)
<1>1. /\ Out = [z \in Handle |-> IF In(z) THEN 1 ELSE 0]
      /\ Out' = [z \in Handle |-> IF In(z)' THEN 1 ELSE 0]
  BY OutLemma, OutNext
<1>2. Out' = [Out EXCEPT ![x] = 0, ![y] = 1]
  BY <1>1
<1> QED BY <1>1, <1>2 DEF Pool!Move

\* A block on a free list, or of a page palloc had, is with nobody.
LEMMA NotIn ==
    ASSUME TypeOK, Placed, NEW x \in Handle, Cached(x) \/ x[1] \notin live
    PROVE  ~In(x)
<1>1. ~Held(x) /\ ~Moving(x)
  <2>1. CASE Cached(x)
    BY <2>1 DEF Placed, NowhereElse
  <2>2. CASE x[1] \notin live
    BY <2>2, HandleLemma, FreshPlaces
  <2> QED BY <2>1, <2>2
<1> QED BY <1>1 DEF In, Busy, Moving

\* Handing x out while the operation keeps its old block.
LEMMA DeliverIn ==
    ASSUME TypeOK, Placed, NEW t \in Threads, NEW x \in Handle, ~In(x),
           Deliver(t, x, op[t].blk), op[t].pc \in {"idle", "sweep"}
    PROVE  \A y \in Handle : In(y)' <=> In(y) \/ y = x
<1>1. /\ \A u \in Threads : op'[u].blk = op[u].blk
      /\ op'[t].pc # "push" /\ \A u \in Threads : u # t => op'[u].pc = op[u].pc
  BY IdleType DEF Deliver, TypeOK, Dropping, Idle
<1>2. \A y \in Handle : Busy(y)' <=> Busy(y)
  BY <1>1 DEF Busy
<1>3. held[x] = 0 /\ held' = [held EXCEPT ![x] = @ + 1]
  BY DEF Deliver, In, Held, TypeOK
<1>4. \A y \in Handle : Held(y)' <=> Held(y) \/ y = x
  BY <1>3 DEF Held, TypeOK
<1> QED BY <1>2, <1>4 DEF In

\* The head of a free list is handed out.
LEMMA PopLocalPool ==
    ASSUME TypeOK, Placed, TypeOK', Placed', NEW t \in Threads, NEW b \in Bucket,
           op[t].pc \in {"idle", "sweep"}, PopLocal(t, b, op[t].blk)
    PROVE  Pool!Next
<1> DEFINE x == local[t][b][1]
<1>1. x \in Handle /\ Cached(x) /\ Deliver(t, x, op[t].blk)
  <2>1. local[t][b] # <<>> /\ local[t][b] \in Seq(Handle)
    BY DEF PopLocal, TypeOK
  <2>2. x \in ToSet(local[t][b]) /\ x \in Handle
    BY <2>1, PopLemma
  <2> QED BY <2>2 DEF PopLocal, Cached
<1> HIDE DEF x
<1>2. ~In(x)
  BY <1>1, NotIn
<1>3. \A y \in Handle : In(y)' <=> In(y) \/ y = x
  BY <1>1, <1>2, DeliverIn
<1>4. Pool!Hand(x)
  BY <1>1, <1>2, <1>3, HandOut
<1> QED BY <1>1, <1>4 DEF Pool!Next

\* dealloc, from the caller or from a grow.
LEMMA DeallocPool ==
    ASSUME TypeOK, Placed, TypeOK', Placed', NEW t \in Threads, NEW x \in Handle, Dealloc(t, x),
           \/ Held(x) /\ op[t].blk = None /\ held' = [held EXCEPT ![x] = @ - 1]
           \/ op[t].blk = x /\ op[t].pc = "drop" /\ held' = held
    PROVE  Pool!Next
<1>1. OpOnce /\ HeldOnce /\ NowhereElse /\ x # None
  BY OnceParts, HandleLemma DEF Placed
<1>2. In(x) /\ \A y \in Handle : Held(y)' <=> Held(y) /\ y # x
  <2>1. CASE Held(x) /\ held' = [held EXCEPT ![x] = @ - 1]
    BY <2>1, TakePlaces DEF In
  <2>2. CASE op[t].blk = x /\ op[t].pc = "drop" /\ held' = held
    <3>1. ~Held(x) /\ Busy(x)
      BY <1>1, <2>2 DEF NowhereElse, Moving, Busy
    <3> QED BY <2>2, <3>1 DEF Held, In
  <2> QED BY <2>1, <2>2
<1>3. \A y \in Handle : Busy(y)' <=> Busy(y) /\ y # x
  <2>1. /\ op'[t].blk = None \/ (op'[t].blk = x /\ op'[t].pc = "push")
        /\ \A u \in Threads : u # t => op'[u] = op[u]
    BY IdleType DEF Dealloc, TypeOK, Pushing, Idle
  <2>2. op[t].blk \in {None, x} /\ \A u \in Threads : u # t => op[u].blk # x
    <3>1. CASE Held(x) /\ op[t].blk = None
      BY <1>1, <3>1 DEF NowhereElse, Moving
    <3>2. CASE op[t].blk = x
      BY <1>1, <3>2 DEF OpOnce
    <3> QED BY <3>1, <3>2
  <2> QED BY <2>1, <2>2, HandleLemma DEF Busy
<1>4. \A y \in Handle : In(y)' <=> In(y) /\ y # x
  BY <1>2, <1>3 DEF In
<1>5. Pool!Return(x)
  BY <1>2, <1>4, ReturnIn
<1> QED BY <1>5 DEF Pool!Next
\* A sweep, a retry and the way into the slow path leave other operations' blocks alone.
LEMMA SameBlocks ==
    ASSUME TypeOK, NEW t \in Threads, SweepPage(t) \/ PushRetry(t)
    PROVE  held' = held /\ \A u \in Threads : op'[u].blk = op[u].blk /\ op'[u].pc = op[u].pc
<1>1. op \in [Threads -> OpType]
  BY DEF TypeOK
<1>2. CASE SweepPage(t)
  <2>1. op' = op \/ op' = [op EXCEPT ![t].at = op[t].at + 1]
    BY <1>2 DEF SweepPage
  <2>2. held' = held
    BY <1>2 DEF SweepPage
  <2>3. CASE op' = [op EXCEPT ![t].at = op[t].at + 1]
    BY <1>1, <2>2, <2>3 DEF OpType
  <2> QED BY <2>1, <2>2, <2>3
<1>3. CASE PushRetry(t)
  <2>1. op' = [op EXCEPT ![t].seen = Top(cross[op[t].blk[1]])] /\ held' = held
    BY <1>3 DEF PushRetry
  <2> QED BY <1>1, <2>1 DEF OpType
<1> QED BY <1>2, <1>3

\* alloc of an idle thread going into the slow path.
LEMMA SlowBlocks ==
    ASSUME TypeOK, Placed, NEW t \in Threads, NEW b \in Bucket, AllocSlow(t, b)
    PROVE  /\ held' = held /\ op'[t].blk = None /\ op[t].blk = None
           /\ \A u \in Threads : u # t => op'[u] = op[u]
<1>1. op[t].pc = "idle" /\ held' = held /\ op' = [op EXCEPT ![t] = Sweeping(b, None)]
  BY DEF AllocSlow
<1>2. Sweeping(b, None).blk = None
  BY DEF Sweeping, Idle
<1> QED BY <1>1, <1>2 DEF TypeOK, Placed, Home, OpHome

\* Steps in which who has what does not change.
LEMMA SilentPool ==
    ASSUME TypeOK, Placed, TypeOK', Placed', NEW t \in Threads,
           \/ \E b \in Bucket : AllocSlow(t, b)
           \/ SweepPage(t) \/ SlowFail(t) \/ PushOk(t) \/ PushRetry(t)
           \/ \E x \in Handle, b \in Bucket : GrowSlow(t, x, b)
    PROVE  Out' = Out
<1>1. OpHome /\ OpOnce /\ HeldOnce /\ NowhereElse
  BY OnceParts DEF Placed, Home
<1>2. CASE \E b \in Bucket : AllocSlow(t, b)
  <2>1. /\ held' = held /\ op'[t].blk = None /\ op[t].blk = None
        /\ \A u \in Threads : u # t => op'[u] = op[u]
    BY <1>2, SlowBlocks
  <2>2. \A y \in Handle : In(y)' <=> In(y)
    BY <2>1, HandleLemma DEF In, Held, Busy
  <2> QED BY <2>2, SameOut
<1>3. CASE SweepPage(t)
  <2>1. held' = held /\ \A u \in Threads : op'[u].blk = op[u].blk /\ op'[u].pc = op[u].pc
    BY <1>3, SameBlocks
  <2>2. \A y \in Handle : In(y)' <=> In(y)
    BY <2>1 DEF In, Held, Busy
  <2> QED BY <2>2, SameOut
<1>4. CASE SlowFail(t)
  <2> DEFINE x == op[t].blk
  <2>1. /\ op'[t] = Idle /\ \A u \in Threads : u # t => op'[u] = op[u]
        /\ held' = IF x = None THEN held ELSE [held EXCEPT ![x] = @ + 1]
        /\ op[t].pc = "sweep" /\ x \in Handle \cup {None}
    BY <1>4 DEF SlowFail, SweptAll, TypeOK, OpType
  <2>2. x # None => Busy(x)
    BY <2>1 DEF Busy
  <2>3. \A y \in Handle : Held(y)' <=> Held(y) \/ y = x
    BY <2>1, HandleLemma DEF Held, TypeOK
  <2>4. \A y \in Handle : Busy(y)' <=> Busy(y) /\ y # x
    BY <1>1, <2>1, IdleType, HandleLemma DEF Busy, OpOnce
  <2> HIDE DEF x
  <2>5. \A y \in Handle : In(y)' <=> In(y)
    BY <2>1, <2>2, <2>3, <2>4, HandleLemma DEF In
  <2> QED BY <2>5, SameOut
<1>5. CASE PushOk(t)
  <2>1. /\ held' = held /\ op[t].pc = "push" /\ op'[t].blk = None
        /\ \A u \in Threads : u # t => op'[u] = op[u]
    BY <1>5, IdleType DEF PushOk, TypeOK
  <2>2. \A y \in Handle : In(y)' <=> In(y)
    BY <2>1, HandleLemma DEF In, Held, Busy
  <2> QED BY <2>2, SameOut
<1>6. CASE PushRetry(t)
  <2>1. held' = held /\ \A u \in Threads : op'[u].blk = op[u].blk /\ op'[u].pc = op[u].pc
    BY <1>6, SameBlocks
  <2>2. \A y \in Handle : In(y)' <=> In(y)
    BY <2>1 DEF In, Held, Busy
  <2> QED BY <2>2, SameOut
<1>7. ASSUME NEW x \in Handle, NEW b \in Bucket, GrowSlow(t, x, b) PROVE Out' = Out
  <2>1. /\ op'[t].blk = x /\ op'[t].pc = "sweep" /\ op[t].blk = None
        /\ \A u \in Threads : u # t => op'[u] = op[u]
        /\ Held(x) /\ held' = [held EXCEPT ![x] = @ - 1]
    BY <1>1, <1>7 DEF GrowSlow, Sweeping, Idle, Held, TypeOK, OpHome
  <2>2. \A y \in Handle : Held(y)' <=> Held(y) /\ y # x
    BY <2>1, TakePlaces
  <2>3. \A y \in Handle : Busy(y)' <=> Busy(y) \/ y = x
    BY <2>1, HandleLemma DEF Busy
  <2>4. \A y \in Handle : In(y)' <=> In(y)
    BY <2>1, <2>2, <2>3 DEF In
  <2> QED BY <2>4, SameOut
<1> QED BY <1>2, <1>3, <1>4, <1>5, <1>6, <1>7

\* grow hands out the new block and goes on holding the old one, now for itself.
LEMMA GrowPool ==
    ASSUME TypeOK, Placed, TypeOK', Placed', NEW t \in Threads, NEW x \in Handle, NEW y \in Handle,
           op[t].pc = "idle", Held(x), ~In(y),
           held' = [held EXCEPT ![x] = @ - 1, ![y] = @ + 1],
           op' = [op EXCEPT ![t] = Dropping(x)]
    PROVE  Pool!Next
<1>1. /\ op'[t].blk = x /\ op'[t].pc = "drop" /\ op[t].blk = None
      /\ \A u \in Threads : u # t => op'[u] = op[u]
  BY DEF Dropping, Idle, TypeOK, Placed, Home, OpHome
<1>2. \A z \in Handle : Held(z)' <=> (Held(z) /\ z # x) \/ z = y
  BY SwapPlaces DEF In
<1>3. \A z \in Handle : Busy(z)' <=> Busy(z) \/ z = x
  BY <1>1, HandleLemma DEF Busy
<1>4. \A z \in Handle : In(z)' <=> In(z) \/ z = y
  BY <1>2, <1>3 DEF In
<1>5. Pool!Hand(y)
  BY <1>4, HandOut
<1> QED BY <1>5 DEF Pool!Next

\* Every step is a step of BlockPool or changes nothing of it.
LEMMA NextPool ==
    ASSUME TypeOK, Placed, TypeOK', Placed', Next
    PROVE  Pool!Next \/ Out' = Out
<1>1. \A t \in Threads : op[t].pc = "idle" => op[t].blk = None
  BY DEF Placed, Home, OpHome
<1>2. ASSUME NEW t \in Threads, NEW b \in Bucket, AllocFast(t, b) PROVE Pool!Next
  BY <1>1, <1>2, PopLocalPool DEF AllocFast
<1>3. ASSUME NEW t \in Threads, SlowPop(t) PROVE Pool!Next
  BY <1>3, PopLocalPool DEF SlowPop, SweptAll, TypeOK, OpType
<1>4. ASSUME NEW t \in Threads, NEW f \in Pages, SlowCarve(t, f) PROVE Pool!Next
  <2> DEFINE x == <<f, 1>>
  <2>1. x \in Handle /\ x[1] = f /\ f \notin live /\ Deliver(t, x, op[t].blk) /\ op[t].pc = "sweep"
    BY <1>4, HandleLemma DEF SlowCarve, SweptAll
  <2> HIDE DEF x
  <2>2. ~In(x)
    BY <2>1, NotIn
  <2>3. Pool!Hand(x)
    BY <2>1, <2>2, DeliverIn, HandOut
  <2> QED BY <2>1, <2>3 DEF Pool!Next
<1>5. ASSUME NEW t \in Threads, NEW f \in Pages, AllocLarge(t, f) PROVE Pool!Next
  <2> DEFINE x == <<f, 0>>
  <2>1. x \in Handle /\ x[1] = f /\ f \notin live /\ Deliver(t, x, op[t].blk) /\ op[t].pc = "idle"
    BY <1>1, <1>5, HandleLemma DEF AllocLarge, TakeLarge
  <2> HIDE DEF x
  <2>2. ~In(x)
    BY <2>1, NotIn
  <2>3. Pool!Hand(x)
    BY <2>1, <2>2, DeliverIn, HandOut
  <2> QED BY <2>1, <2>3 DEF Pool!Next
<1>6. ASSUME NEW t \in Threads, NEW x \in Handle, Free(t, x) PROVE Pool!Next
  BY <1>1, <1>6, DeallocPool DEF Free, Held
<1>7. ASSUME NEW t \in Threads, DropOld(t) PROVE Pool!Next
  <2>1. op[t].blk \in Handle
    BY <1>7 DEF DropOld, TypeOK, OpType
  <2> QED BY <1>7, <2>1, DeallocPool DEF DropOld
<1>8. ASSUME NEW t \in Threads, NEW x \in Handle, NEW b \in Bucket, GrowFast(t, x, b) PROVE Pool!Next
  <2> DEFINE y == local[t][b][1]
  <2>1. /\ op[t].pc = "idle" /\ Held(x) /\ local[t][b] # <<>> /\ local[t][b] \in Seq(Handle)
        /\ held' = [held EXCEPT ![x] = @ - 1, ![y] = @ + 1]
        /\ op' = [op EXCEPT ![t] = Dropping(x)]
    BY <1>8 DEF GrowFast, Held, TypeOK
  <2>2. y \in Handle /\ Cached(y)
    BY <2>1, PopLemma DEF Cached
  <2> HIDE DEF y
  <2>3. ~In(y)
    BY <2>2, NotIn
  <2> QED BY <2>1, <2>2, <2>3, GrowPool
<1>9. ASSUME NEW t \in Threads, NEW x \in Handle, NEW f \in Pages, GrowToLarge(t, x, f) PROVE Pool!Next
  <2> DEFINE y == <<f, 0>>
  <2>1. /\ op[t].pc = "idle" /\ Held(x) /\ y \in Handle /\ y[1] = f /\ f \notin live
        /\ held' = [held EXCEPT ![x] = @ - 1, ![y] = @ + 1]
        /\ op' = [op EXCEPT ![t] = Dropping(x)]
    BY <1>9, HandleLemma DEF GrowToLarge, TakeLarge, Held
  <2> HIDE DEF y
  <2>2. ~In(y)
    BY <2>1, NotIn
  <2> QED BY <2>1, <2>2, GrowPool
<1>10. ASSUME NEW t \in Threads, NEW f \in Pages, NEW g \in Pages, MoveLarge(t, f, g) PROVE Pool!Next
  <2> DEFINE x == <<f, 0>>
             y == <<g, 0>>
  <2>1. /\ Held(x) /\ x \in Handle /\ y \in Handle /\ y[1] = g /\ g \notin live
        /\ held' = [held EXCEPT ![x] = @ - 1, ![y] = @ + 1] /\ op' = op
    BY <1>10, HandleLemma DEF MoveLarge, Held
  <2> HIDE DEF x, y
  <2>2. ~In(y) /\ ~Held(y) /\ In(x)
    BY <2>1, NotIn DEF In
  <2>3. \A z \in Handle : Held(z)' <=> (Held(z) /\ z # x) \/ z = y
    BY <2>1, <2>2, SwapPlaces
  <2>4. ~Busy(x) /\ ~Busy(y) /\ \A z \in Handle : Busy(z)' <=> Busy(z)
    BY <2>1, <2>2 DEF Busy, In, Placed, NowhereElse, Moving
  <2>5. \A z \in Handle : In(z)' <=> (In(z) /\ z # x) \/ z = y
    BY <2>3, <2>4 DEF In
  <2>6. Pool!Move(x, y)
    BY <2>1, <2>2, <2>5, MoveInOut
  <2> QED BY <2>1, <2>6 DEF Pool!Next
<1>11. ASSUME NEW t \in Threads,
              \/ \E b \in Bucket : AllocSlow(t, b)
              \/ SweepPage(t) \/ SlowFail(t) \/ PushOk(t) \/ PushRetry(t)
              \/ \E x \in Handle, b \in Bucket : GrowSlow(t, x, b)
       PROVE  Out' = Out
  BY <1>11, SilentPool
<1> QED BY <1>2, <1>3, <1>4, <1>5, <1>6, <1>7, <1>8, <1>9, <1>10, <1>11 DEF Next

\* Until a page is released heap_allocator is a BlockPool, for every number of
\* threads, buckets, pages and blocks: no block is handed to two callers and none
\* comes back that was not out.
THEOREM ImplementsPool == Spec => PoolUntilRelease
<1>1. IInv /\ IInv' /\ [Next]_vars => [released' # {} \/ Pool!Next]_Out
  <2> SUFFICES ASSUME IInv, IInv', [Next]_vars, released' = {} PROVE Pool!Next \/ Out' = Out
    OBVIOUS
  <2>1. released = {}
    BY ReleaseLemma
  <2>2. TypeOK /\ Placed /\ TypeOK' /\ Placed'
    BY <2>1 DEF IInv, Intact
  <2>3. CASE Next
    BY <2>2, <2>3, NextPool
  <2>4. CASE UNCHANGED vars
    <3>1. held' = held /\ op' = op
      BY <2>4 DEF vars
    <3> QED BY <3>1 DEF Out
  <2> QED BY <2>3, <2>4
<1> QED BY <1>1, Invariance, PTL DEF Spec, PoolUntilRelease

-----------------------------------------------------------------------------
(* Sizes.                                                                  *)

\* A set of numbers that is not empty has a least element.
LEMMA LeastNumber ==
    ASSUME NEW S \in SUBSET Nat, S # {}
    PROVE  \E m \in S : \A k \in S : m <= k
<1>1. PICK m \in S : \A k \in S : ~(<<k, m>> \in OpToRel(<, Nat))
    BY NatLessThanWellFounded, WFMin
<1>2. \A k \in S : ~(k < m) BY <1>1 DEF OpToRel
<1> QED BY <1>2

-----------------------------------------------------------------------------
(* Multiples.                                                              *)

LEMMA MultipleIs ==
    ASSUME NEW x \in Nat, NEW p \in Nat \ {0}, x % p = 0
    PROVE  \E k \in Nat : x = k * p
OBVIOUS

LEMMA MultipleOf ==
    ASSUME NEW k \in Nat, NEW p \in Nat \ {0}
    PROVE  (k * p) % p = 0
OBVIOUS

LEMMA MultipleTimes ==
    ASSUME NEW x \in Nat, NEW k \in Nat, NEW p \in Nat \ {0}, x % p = 0
    PROVE  (k * x) % p = 0
<1>1. PICK i \in Nat : x = i * p BY MultipleIs
<1>2. k * x = (k * i) * p BY <1>1
<1>3. k * i \in Nat OBVIOUS
<1> QED BY <1>2, <1>3, MultipleOf

LEMMA MultipleTransitive ==
    ASSUME NEW x \in Nat, NEW y \in Nat \ {0}, NEW p \in Nat \ {0}, x % y = 0, y % p = 0
    PROVE  x % p = 0
<1>1. PICK k \in Nat : x = k * y BY MultipleIs
<1> QED BY <1>1, MultipleTimes

LEMMA MultipleSum ==
    ASSUME NEW x \in Nat, NEW y \in Nat, NEW p \in Nat \ {0}, x % p = 0, y % p = 0
    PROVE  (x + y) % p = 0
<1>1. PICK i \in Nat : x = i * p BY MultipleIs
<1>2. PICK j \in Nat : y = j * p BY MultipleIs
<1>3. x + y = (i + j) * p BY <1>1, <1>2
<1>4. i + j \in Nat OBVIOUS
<1> QED BY <1>3, <1>4, MultipleOf

LEMMA MultipleDifference ==
    ASSUME NEW x \in Nat, NEW y \in Nat, NEW p \in Nat \ {0}, (x + y) % p = 0, x % p = 0
    PROVE  y % p = 0
<1>1. PICK i \in Nat : x = i * p BY MultipleIs
<1>2. PICK j \in Nat : x + y = j * p BY MultipleIs, x + y \in Nat
<1>3. i <= j
  <2> SUFFICES ASSUME j < i PROVE FALSE OBVIOUS
  <2>1. i = j + (i - j) /\ i - j \in Nat /\ i - j >= 1 OBVIOUS
  <2>2. i * p = j * p + (i - j) * p BY <2>1
  <2>3. (i - j) * p >= p BY <2>1
  <2> QED BY <1>1, <1>2, <2>2, <2>3
<1>4. y = (j - i) * p BY <1>1, <1>2
<1>5. j - i \in Nat BY <1>3
<1> QED BY <1>4, <1>5, MultipleOf

\* The remainder below the divisor.
LEMMA RemainderIs ==
    ASSUME NEW x \in Nat, NEW y \in Nat, NEW p \in Nat \ {0}, x % p = 0, y < p
    PROVE  (x + y) % p = y
<1>1. PICK i \in Nat : x = i * p BY MultipleIs
<1> QED BY <1>1

\* A multiple that is less than another one is a whole divisor less.
LEMMA MultipleGap ==
    ASSUME NEW x \in Nat, NEW y \in Nat, NEW p \in Nat \ {0}, x % p = 0, y % p = 0, x < y
    PROVE  x + p <= y
<1>1. PICK i \in Nat : x = i * p BY MultipleIs
<1>2. PICK j \in Nat : y = j * p BY MultipleIs
<1>3. i < j
  <2> SUFFICES ASSUME j <= i PROVE FALSE OBVIOUS
  <2>1. i * p = j * p + (i - j) * p /\ (i - j) \in Nat OBVIOUS
  <2>2. (i - j) * p >= 0 BY <2>1
  <2> QED BY <1>1, <1>2, <2>1, <2>2
<1>4. j = (i + 1) + (j - i - 1) /\ j - i - 1 \in Nat BY <1>3
<1>5. j * p = (i + 1) * p + (j - i - 1) * p BY <1>4
<1>6. (j - i - 1) * p >= 0 BY <1>4
<1>7. (i + 1) * p = i * p + p OBVIOUS
<1> QED BY <1>1, <1>2, <1>5, <1>6, <1>7

LEMMA QuotientIs ==
    ASSUME NEW x \in Nat, NEW p \in Nat \ {0}
    PROVE  x \div p \in Nat /\ p * (x \div p) <= x
OBVIOUS

LEMMA ProductGrows ==
    ASSUME NEW i \in Nat, NEW j \in Nat, i <= j, NEW b \in Nat
    PROVE  i * b <= b * j
OBVIOUS

-----------------------------------------------------------------------------
(* Powers of two.                                                          *)

LEMMA Halved ==
    ASSUME NEW x \in Nat, HasSingleBit(x), x >= 2
    PROVE  \E h \in Nat : x = 2 * h /\ h > 0 /\ h < x /\ HasSingleBit(h)
<1>1. x % x = 0 /\ x \in 2..x OBVIOUS
<1>2. x % 2 = 0 BY <1>1 DEF HasSingleBit
<1>3. PICK h \in Nat : x = h * 2 BY <1>2, MultipleIs
<1>4. h > 0 /\ h < x /\ x = 2 * h BY <1>3
<1>5. ASSUME NEW d \in 2..h, h % d = 0 PROVE d % 2 = 0
  <2>1. d \in Nat \ {0} /\ d \in 2..x BY <1>4
  <2>2. (2 * h) % d = 0 BY <1>5, <2>1, MultipleTimes
  <2> QED BY <1>4, <2>1, <2>2 DEF HasSingleBit
<1> QED BY <1>4, <1>5 DEF HasSingleBit

\* Of two powers of two the smaller one divides the other.
LEMMA PowersDivide ==
    ASSUME NEW x \in Nat, NEW y \in Nat, HasSingleBit(x), HasSingleBit(y), x <= y
    PROVE  y % x = 0
<1> DEFINE Bad == {b \in Nat : \E a \in Nat : HasSingleBit(a) /\ HasSingleBit(b) /\ a <= b /\ b % a # 0}
<1> SUFFICES ASSUME Bad # {} PROVE FALSE OBVIOUS
<1>1. PICK b \in Bad : \A k \in Bad : b <= k BY LeastNumber
<1>2. PICK a \in Nat : HasSingleBit(a) /\ HasSingleBit(b) /\ a <= b /\ b % a # 0 BY <1>1
<1>3. b \in Nat /\ a > 0 BY <1>1, <1>2 DEF HasSingleBit
<1>4. a >= 2
  <2>1. b % 1 = 0 BY <1>3
  <2>2. a # 1 BY <1>2, <2>1
  <2> QED BY <1>3, <2>2
<1>5. PICK g \in Nat : a = 2 * g /\ g > 0 /\ g < a /\ HasSingleBit(g) BY <1>2, <1>4, Halved
<1>6. b >= 2 BY <1>2, <1>3, <1>4
<1>7. PICK h \in Nat : b = 2 * h /\ h > 0 /\ h < b /\ HasSingleBit(h) BY <1>2, <1>3, <1>6, Halved
<1>8. g <= h BY <1>2, <1>5, <1>7
<1>9. h \notin Bad BY <1>1, <1>3, <1>7
<1>10. h % g = 0 BY <1>5, <1>7, <1>8, <1>9
<1>14. g \in Nat \ {0} BY <1>5
<1>11. PICK k \in Nat : h = k * g BY <1>10, <1>14, MultipleIs
<1>12. b = k * a BY <1>5, <1>7, <1>11
<1>13. b % a = 0 BY <1>3, <1>12, MultipleOf
<1> QED BY <1>2, <1>13

-----------------------------------------------------------------------------
(* Rounding up.                                                            *)

LEMMA AlignUpIs ==
    ASSUME NEW v \in Nat, NEW p \in Nat \ {0}, v + p - 1 < Word, Word \in Nat,
           NEW r, r = AlignUp(v, p)
    PROVE  r \in Nat /\ r % p = 0 /\ v <= r /\ r < v + p
<1>1. PICK sum : sum = v + p - 1 OBVIOUS
<1>2. sum \in Nat /\ sum < Word BY <1>1
<1>3. sum % Word = sum BY <1>2
<1>4. r = sum - (sum % p) BY <1>1, <1>3 DEF AlignUp
<1>5. sum % p \in 0..p - 1 BY <1>2
<1>6. sum = p * (sum \div p) + (sum % p) /\ sum \div p \in Nat BY <1>2
<1>7. PICK q : q = sum \div p OBVIOUS
<1>8. q \in Nat /\ r = p * q BY <1>2, <1>4, <1>5, <1>6, <1>7
<1>9. r = q * p BY <1>8
<1> QED BY <1>1, <1>2, <1>4, <1>5, <1>8, <1>9, MultipleOf

\* What is rounded up stays below every multiple it was below.
LEMMA AlignUpBelow ==
    ASSUME NEW v \in Nat, NEW p \in Nat \ {0}, NEW r \in Nat, r % p = 0, r < v + p,
           NEW m \in Nat, m % p = 0, v <= m
    PROVE  r <= m
<1> SUFFICES ASSUME m < r PROVE FALSE OBVIOUS
<1>1. m + p <= r BY MultipleGap
<1> QED BY <1>1

-----------------------------------------------------------------------------
(* What alloc makes.                                                       *)

LEMMA ConstantsAre ==
    /\ Word \in Nat \ {0} /\ PageSize \in Nat \ {0} /\ MaxSmallSize \in Nat \ {0} /\ Granularity \in Nat \ {0}
    /\ HeaderSize \in Nat /\ HeaderSize + 2 * MaxSmallSize <= PageSize /\ 2 * HeaderSize <= PageSize
    /\ 2 * PageSize <= Word /\ Granularity <= MaxSmallSize /\ 2 * MaxSmallSize <= PageSize
    /\ Word % PageSize = 0 /\ PageSize % MaxSmallSize = 0 /\ MaxSmallSize % Granularity = 0
    /\ PageSize % Granularity = 0
<1>1. /\ Word \in Nat \ {0} /\ PageSize \in Nat \ {0} /\ MaxSmallSize \in Nat \ {0} /\ Granularity \in Nat \ {0}
      /\ HeaderSize \in Nat /\ HeaderSize + 2 * MaxSmallSize <= PageSize /\ 2 * HeaderSize <= PageSize
      /\ Granularity <= MaxSmallSize /\ PageSize < Word /\ Word % PageSize = 0
      /\ HasSingleBit(PageSize) /\ HasSingleBit(MaxSmallSize) /\ HasSingleBit(Granularity)
  BY HeapSizesAssumption
<1>2. PageSize % PageSize = 0 BY <1>1
<1>3. PageSize + PageSize <= Word BY <1>1, <1>2, MultipleGap
<1>4. 2 * MaxSmallSize <= PageSize /\ MaxSmallSize <= PageSize /\ Granularity <= PageSize BY <1>1
<1>5. PageSize % MaxSmallSize = 0 /\ MaxSmallSize % Granularity = 0 /\ PageSize % Granularity = 0
  BY <1>1, <1>4, PowersDivide
<1> QED BY <1>1, <1>3, <1>4, <1>5

\* An alignment that alloc takes, and the larger of it and the granularity.
Aligns(asked) == asked \in Nat /\ asked <= PageSize /\ HasSingleBit(asked)

LEMMA AlignmentIs ==
    ASSUME NEW asked, Aligns(asked), NEW a, a = Larger(asked, Granularity)
    PROVE  /\ asked \in Nat \ {0} /\ PageSize % asked = 0
           /\ a \in Nat \ {0} /\ a <= PageSize /\ HasSingleBit(a) /\ Granularity <= a
           /\ a % asked = 0 /\ a % Granularity = 0 /\ PageSize % a = 0
<1>1. asked \in Nat \ {0} /\ HasSingleBit(asked) /\ asked <= PageSize BY DEF Aligns, HasSingleBit
<1>2. PageSize \in Nat /\ HasSingleBit(PageSize) /\ Granularity \in Nat \ {0} /\ HasSingleBit(Granularity)
  BY HeapSizesAssumption
<1>3. Granularity <= PageSize BY ConstantsAre
<1>4. (a = asked \/ a = Granularity) /\ asked <= a /\ Granularity <= a BY <1>1, <1>2 DEF Larger
<1>5. a \in Nat \ {0} /\ HasSingleBit(a) /\ a <= PageSize BY <1>1, <1>2, <1>3, <1>4
<1>6. PageSize % asked = 0 /\ PageSize % a = 0 BY <1>1, <1>2, <1>5, PowersDivide
<1>7. a % asked = 0 /\ a % Granularity = 0 BY <1>1, <1>2, <1>4, <1>5, PowersDivide
<1> QED BY <1>1, <1>4, <1>5, <1>6, <1>7

\* A region, a header at its start and a payload in it.
IsRegion(r) == r \in [base : Nat, bytes : Nat, large : BOOLEAN, blockSize : Nat, ptr : Nat]

\* What is right with one whose payload is at offset, with the size usable.
LEMMA RightIs ==
    ASSUME NEW r, IsRegion(r), r.base % PageSize = 0,
           NEW offset \in Nat, r.ptr = r.base + offset, offset < PageSize, HeaderSize <= offset,
           offset + UsableSize(r) <= r.bytes, UsableSize(r) \in Nat,
           NEW n \in Nat, n <= UsableSize(r), NEW alignment \in Nat \ {0}
    PROVE  /\ r.ptr % alignment = 0 => Wrong(r, n, alignment) = {}
           /\ r.ptr % alignment # 0 => Wrong(r, n, alignment) = {"alignment"}
<1>1. r.base \in Nat /\ r.bytes \in Nat /\ r.ptr \in Nat BY DEF IsRegion
<1>2. PICK base, ptr, bytes, usable : base = r.base /\ ptr = r.ptr /\ bytes = r.bytes /\ usable = UsableSize(r) OBVIOUS
<1>3. ptr % PageSize = offset BY <1>1, <1>2, ConstantsAre, RemainderIs
<1>4. PageHeader(ptr) = base BY <1>1, <1>2, <1>3 DEF PageHeader
<1>5. ~(n > usable) BY <1>2
<1>6. ~(ptr < base + HeaderSize) BY <1>1, <1>2, ConstantsAre
<1>7. ~(ptr + usable > base + bytes) BY <1>1, <1>2
<1> QED BY <1>2, <1>4, <1>5, <1>6, <1>7 DEF Wrong

\* A large allocation whose payload would start a page past its header is found out.
LEMMA FarIs ==
    ASSUME NEW r, IsRegion(r), r.base % PageSize = 0, r.ptr = r.base + PageSize, NEW n, NEW alignment
    PROVE  "header" \in Wrong(r, n, alignment)
<1>1. r.base \in Nat /\ r.ptr \in Nat BY DEF IsRegion
<1>2. PICK base, ptr : base = r.base /\ ptr = r.ptr OBVIOUS
<1>3. PageSize \in Nat \ {0} /\ PageSize % PageSize = 0 BY ConstantsAre
<1>4. ptr % PageSize = 0 BY <1>1, <1>2, <1>3, MultipleSum
<1>5. PageHeader(ptr) # base BY <1>1, <1>2, <1>3, <1>4 DEF PageHeader
<1> QED BY <1>2, <1>5 DEF Wrong

\* The amount for n bytes after the header, away from the top of the address space.
NearTop(n) == n > Word - 2 * PageSize

LEMMA PagesAre ==
    ASSUME NEW n \in Nat, ~NearTop(n), NEW offset \in 0..PageSize,
           NEW amount, amount = AlignUp((n + offset) % Word, PageSize)
    PROVE  amount \in Nat /\ amount % PageSize = 0 /\ n + offset <= amount /\ amount < Word
<1>1. /\ Word \in Nat \ {0} /\ PageSize \in Nat \ {0} /\ 2 * PageSize <= Word /\ Word % PageSize = 0
  BY ConstantsAre
<1>2. n + offset + PageSize - 1 < Word /\ n + offset \in Nat /\ n + offset < Word BY <1>1 DEF NearTop
<1>3. (n + offset) % Word = n + offset BY <1>1, <1>2
<1>4. amount \in Nat /\ amount % PageSize = 0 /\ n + offset <= amount /\ amount < n + offset + PageSize
  BY <1>1, <1>2, <1>3, AlignUpIs
<1>5. amount < Word BY <1>1, <1>2, <1>4
<1> QED BY <1>4, <1>5

LEMMA AlignUpNat ==
    ASSUME NEW v \in Nat, NEW p \in Nat \ {0}
    PROVE  AlignUp(v, p) \in Nat /\ AlignUp(v, p) % p = 0
<1>1. PICK sum : sum = (v + p - 1) % Word OBVIOUS
<1>2. Word \in Nat \ {0} /\ v + p - 1 \in Nat BY ConstantsAre
<1>3. sum \in Nat BY <1>1, <1>2
<1>4. sum = p * (sum \div p) + (sum % p) /\ sum \div p \in Nat /\ sum % p \in Nat BY <1>3
<1>5. PICK q : q = sum \div p OBVIOUS
<1>6. q \in Nat /\ sum - (sum % p) = p * q BY <1>3, <1>4, <1>5
<1>7. p * q \in Nat /\ p * q = q * p BY <1>6
<1>8. AlignUp(v, p) = sum - (sum % p) BY <1>1 DEF AlignUp
<1> QED BY <1>6, <1>7, <1>8, MultipleOf

\* Where the payload of a large allocation starts, from its header.
LEMMA LargeOffsetIs ==
    ASSUME NEW asked, Aligns(asked), NEW a, a = Larger(asked, Granularity),
           NEW offset, offset = LargeOffset(a)
    PROVE  /\ offset \in 0..PageSize /\ HeaderSize <= offset /\ offset % asked = 0
           /\ offset = PageSize => asked = PageSize
<1>1. /\ asked \in Nat \ {0} /\ PageSize % asked = 0
      /\ a \in Nat \ {0} /\ a <= PageSize /\ HasSingleBit(a) /\ Granularity <= a
      /\ a % asked = 0 /\ PageSize % a = 0
  BY AlignmentIs
<1>2. /\ Word \in Nat \ {0} /\ PageSize \in Nat \ {0} /\ Granularity \in Nat \ {0} /\ HeaderSize \in Nat
      /\ 2 * HeaderSize <= PageSize /\ 2 * PageSize <= Word /\ Granularity <= MaxSmallSize
      /\ 2 * MaxSmallSize <= PageSize /\ MaxSmallSize \in Nat \ {0}
  BY ConstantsAre
<1>3. Larger(a, Granularity) = a BY <1>1, <1>2 DEF Larger
<1>4. offset = AlignUp(HeaderSize, a) BY <1>3 DEF LargeOffset
<1>5. HeaderSize + a - 1 < Word BY <1>1, <1>2
<1>6. offset \in Nat /\ offset % a = 0 /\ HeaderSize <= offset /\ offset < HeaderSize + a
  BY <1>1, <1>2, <1>4, <1>5, AlignUpIs
<1>7. offset <= PageSize BY <1>1, <1>2, <1>6, AlignUpBelow
<1>8. offset % asked = 0 BY <1>1, <1>6, MultipleTransitive
<1>9. ASSUME a # PageSize PROVE offset < PageSize
  <2>1. HasSingleBit(PageSize) /\ PageSize >= 2 BY <1>2, HeapSizesAssumption
  <2>2. PICK h \in Nat : PageSize = 2 * h /\ h > 0 /\ h < PageSize /\ HasSingleBit(h) BY <1>2, <2>1, Halved
  <2>3. a <= h
    <3>1. CASE a = 1 BY <2>2, <3>1
    <3>2. CASE a >= 2
      <4>1. PICK g \in Nat : a = 2 * g /\ g > 0 /\ g < a /\ HasSingleBit(g) BY <1>1, <3>2, Halved
      <4>2. g < h BY <1>1, <1>9, <2>2, <4>1
      <4>3. h % g = 0 BY <2>2, <4>1, <4>2, PowersDivide
      <4>4. g \in Nat \ {0} /\ g % g = 0 BY <4>1
      <4>5. g + g <= h BY <4>2, <4>3, <4>4, MultipleGap
      <4> QED BY <4>1, <4>5
    <3> QED BY <1>1, <3>1, <3>2
  <2>4. h % a = 0 BY <1>1, <2>2, <2>3, PowersDivide
  <2>5. HeaderSize <= h BY <1>2, <2>2
  <2>6. offset <= h BY <1>1, <1>2, <1>6, <2>4, <2>5, AlignUpBelow
  <2> QED BY <1>6, <2>2, <2>6
<1>10. a = PageSize => asked = PageSize
  <2>1. a = asked \/ a = Granularity BY DEF Larger
  <2>2. Granularity < PageSize BY <1>2
  <2> QED BY <1>2, <2>1, <2>2
<1> QED BY <1>2, <1>6, <1>7, <1>8, <1>9, <1>10

\* A region of alloc, and what can be said of its payload but near the top of the address space.
Made(r, n, asked) ==
    /\ IsRegion(r) /\ r.base % PageSize = 0
    /\ ~NearTop(n) => /\ n <= UsableSize(r)
                      /\ Wrong(r, n, asked) # {} =>
                            \/ asked = PageSize /\ "header" \in Wrong(r, n, asked)
                            \/ n = 0 /\ Wrong(r, n, asked) = {"alignment"}

LEMMA LargeIs ==
    ASSUME NEW asked, Aligns(asked), NEW a, a = Larger(asked, Granularity), NEW n \in Nat,
           NEW r \in ServedLarge(n, a)
    PROVE  Made(r, n, asked)
<1>1. PICK offset, amount : offset = LargeOffset(a) /\ amount = AlignUp((n + offset) % Word, PageSize) OBVIOUS
<1>2. /\ offset \in 0..PageSize /\ HeaderSize <= offset /\ offset % asked = 0
      /\ offset = PageSize => asked = PageSize
  BY <1>1, LargeOffsetIs
<1>3. /\ asked \in Nat \ {0} /\ PageSize % asked = 0
  BY AlignmentIs
<1>4. Word \in Nat \ {0} /\ PageSize \in Nat \ {0} BY ConstantsAre
<1>5. PICK base \in Regions(amount) : r = Region(base, amount, TRUE, amount, base + offset)
  BY <1>1 DEF ServedLarge
<1>6. base \in 1..Word - 1 /\ base % PageSize = 0 BY <1>5 DEF Regions
<1>7. base \in Nat /\ offset \in Nat BY <1>2, <1>4, <1>6
<1>8. amount \in Nat
  <2>1. (n + offset) % Word \in Nat BY <1>4, <1>7
  <2> QED BY <1>1, <1>4, <2>1, AlignUpNat
<1>9. r.base = base /\ r.bytes = amount /\ r.blockSize = amount /\ r.ptr = base + offset BY <1>5 DEF Region
<1>12. r.large = TRUE BY <1>5 DEF Region
<1>10. IsRegion(r) BY <1>5, <1>7, <1>8 DEF IsRegion, Region
<1>11. ASSUME ~NearTop(n)
       PROVE  /\ n <= UsableSize(r)
              /\ Wrong(r, n, asked) # {} => asked = PageSize /\ "header" \in Wrong(r, n, asked)
  <2>1. n + offset <= amount /\ amount < Word BY <1>1, <1>2, <1>11, PagesAre
  <2>7. UsableSize(r) = (r.blockSize - (r.ptr - r.base)) % Word BY <1>12 DEF UsableSize
  <2>2. UsableSize(r) = (amount - (base + offset - base)) % Word BY <1>4, <1>7, <1>8, <1>9, <2>7
  <2>3. UsableSize(r) = amount - offset BY <1>4, <1>7, <1>8, <2>1, <2>2
  <2>4. n <= UsableSize(r) /\ UsableSize(r) \in Nat /\ offset + UsableSize(r) <= r.bytes
    BY <1>7, <1>8, <1>9, <2>1, <2>3
  <2>5. CASE offset = PageSize
    <3>1. "header" \in Wrong(r, n, asked) BY <1>6, <1>9, <1>10, <2>5, FarIs
    <3> QED BY <1>2, <2>4, <2>5, <3>1
  <2>6. CASE offset # PageSize
    <3>1. offset < PageSize BY <1>2, <1>4, <2>6
    <3>2. base % asked = 0 BY <1>3, <1>4, <1>6, <1>7, MultipleTransitive
    <3>3. r.ptr % asked = 0 BY <1>2, <1>3, <1>7, <1>9, <3>2, MultipleSum
    <3>4. Wrong(r, n, asked) = {} BY <1>2, <1>3, <1>6, <1>7, <1>9, <1>10, <2>4, <3>1, <3>3, RightIs
    <3> QED BY <2>4, <3>4
  <2> QED BY <2>5, <2>6
<1> QED BY <1>6, <1>9, <1>10, <1>11 DEF Made

\* The size that is asked of the buckets is a multiple of the alignment.
LEMMA AlignedIs ==
    ASSUME NEW n \in Nat, ~NearTop(n), NEW a \in Nat \ {0}, a <= PageSize, a % Granularity = 0,
           NEW c, c = AlignUp(AlignUp(n, a), Granularity)
    PROVE  c \in Nat /\ c % a = 0 /\ c % Granularity = 0 /\ n <= c /\ (n = 0 => c = 0)
<1>1. Word \in Nat \ {0} /\ PageSize \in Nat \ {0} /\ Granularity \in Nat \ {0} /\ 2 * PageSize <= Word
      /\ Granularity <= MaxSmallSize /\ 2 * MaxSmallSize <= PageSize /\ MaxSmallSize \in Nat
  BY ConstantsAre
<1>2. PICK b : b = AlignUp(n, a) OBVIOUS
<1>3. n + a - 1 < Word BY <1>1 DEF NearTop
<1>4. b \in Nat /\ b % a = 0 /\ n <= b /\ b < n + a BY <1>1, <1>2, <1>3, AlignUpIs
<1>5. b % Granularity = 0 BY <1>1, <1>4, MultipleTransitive
<1>6. b + Granularity - 1 < Word BY <1>1, <1>4 DEF NearTop
<1>7. c \in Nat /\ c % Granularity = 0 /\ b <= c /\ c < b + Granularity BY <1>1, <1>2, <1>4, <1>6, AlignUpIs
<1>8. c <= b BY <1>1, <1>4, <1>5, <1>7, AlignUpBelow
<1>9. c = b BY <1>4, <1>7, <1>8
<1>10. 0 % a = 0 OBVIOUS
<1>11. n = 0 => b = 0 BY <1>4, <1>10, AlignUpBelow
<1> QED BY <1>4, <1>7, <1>9, <1>11

\* The block of a bucket is the size it is for.
LEMMA BlockIs ==
    ASSUME NEW c \in Nat \ {0}, c % Granularity = 0
    PROVE  BlockSize(BucketIndex(c)) = c
<1>1. Granularity \in Nat \ {0} BY ConstantsAre
<1>2. PICK k \in Nat : c = k * Granularity BY <1>1, MultipleIs
<1>3. k >= 1 BY <1>1, <1>2
<1>4. PICK g : g = Granularity OBVIOUS
<1>5. g \in Nat \ {0} BY <1>1, <1>4
<1>6. c - 1 = (k - 1) * g + (g - 1) BY <1>2, <1>3, <1>4, <1>5
<1>7. (c - 1) \div g = k - 1 BY <1>3, <1>5, <1>6
<1>8. BucketIndex(c) = k - 1 BY <1>4, <1>7 DEF BucketIndex
<1>9. (k - 1) + 1 = k OBVIOUS
<1> QED BY <1>2, <1>8, <1>9 DEF BlockSize

\* The blocks of a page are in it, past its header.
LEMMA OffsetsAre ==
    ASSUME NEW block \in Nat \ {0}, block <= MaxSmallSize, NEW offset \in BlockOffsets(block)
    PROVE  /\ offset \in Nat /\ HeaderSize <= offset /\ offset + block <= PageSize
           /\ \A p \in Nat \ {0} : block % p = 0 /\ MaxSmallSize % p = 0 => offset % p = 0
<1>1. /\ Word \in Nat \ {0} /\ PageSize \in Nat \ {0} /\ MaxSmallSize \in Nat \ {0} /\ HeaderSize \in Nat
      /\ HeaderSize + 2 * MaxSmallSize <= PageSize /\ 2 * PageSize <= Word
  BY ConstantsAre
<1>2. PICK start : start = AlignUp(HeaderSize, MaxSmallSize) OBVIOUS
<1>3. HeaderSize + MaxSmallSize - 1 < Word BY <1>1
<1>4. start \in Nat /\ start % MaxSmallSize = 0 /\ HeaderSize <= start /\ start < HeaderSize + MaxSmallSize
  BY <1>1, <1>2, <1>3, AlignUpIs
<1>5. start + block <= PageSize BY <1>1, <1>4
<1>6. ASSUME NEW p \in Nat \ {0}, MaxSmallSize % p = 0 PROVE start % p = 0
  BY <1>1, <1>4, <1>6, MultipleTransitive
<1>7. CASE offset = start BY <1>4, <1>5, <1>6, <1>7
<1>8. CASE offset # start
  <2>1. PICK last : last = ((PageSize - start) \div block) - 1 OBVIOUS
  <2>2. PICK k \in 1..last : offset = start + k * block BY <1>2, <1>8, <2>1 DEF BlockOffsets
  <2>3. PageSize - start \in Nat BY <1>1, <1>4, <1>5
  <2>4. PICK room : room = PageSize - start OBVIOUS
  <2>5. room \div block \in Nat /\ block * (room \div block) <= room BY <2>3, <2>4, QuotientIs
  <2>6. PICK q : q = room \div block OBVIOUS
  <2>7. q \in Nat /\ block * q <= room /\ last = q - 1 BY <2>1, <2>4, <2>5, <2>6
  <2>8. k \in Nat /\ k + 1 <= q BY <2>2, <2>7
  <2>9. (k + 1) * block <= block * q
    <3>1. k + 1 \in Nat /\ block \in Nat BY <2>8
    <3> QED BY <2>7, <2>8, <3>1, ProductGrows
  <2>10. (k + 1) * block = k * block + block BY <2>8
  <2>11. k * block \in Nat BY <2>8
  <2>12. offset \in Nat /\ start <= offset /\ offset + block <= PageSize
    BY <1>1, <1>4, <2>2, <2>3, <2>4, <2>7, <2>9, <2>10, <2>11
  <2>13. HeaderSize <= offset BY <1>1, <1>4, <2>12
  <2>14. ASSUME NEW p \in Nat \ {0}, block % p = 0, MaxSmallSize % p = 0 PROVE offset % p = 0
    <3>1. (k * block) % p = 0 BY <2>8, <2>14, MultipleTimes
    <3>2. start % p = 0 BY <1>6, <2>14
    <3> QED BY <1>4, <2>2, <2>11, <3>1, <3>2, MultipleSum
  <2> QED BY <2>12, <2>13, <2>14
<1> QED BY <1>7, <1>8

CarvedOut(size, large, block) ==
    {Region(base, size, large, block, base + offset) : base \in Regions(size), offset \in BlockOffsets(block)}

LEMMA SmallIs ==
    ASSUME NEW asked, Aligns(asked), NEW a, a = Larger(asked, Granularity), a <= MaxSmallSize,
           NEW n \in Nat, NEW c, c = AlignUp(AlignUp(n, a), Granularity), c <= MaxSmallSize,
           NEW r \in ServedSmall(BucketIndex(c))
    PROVE  Made(r, n, asked)
<1>1. /\ asked \in Nat \ {0} /\ PageSize % asked = 0
      /\ a \in Nat \ {0} /\ a <= PageSize /\ a % asked = 0 /\ a % Granularity = 0 /\ HasSingleBit(a)
  BY AlignmentIs
<1>2. /\ PageSize \in Nat \ {0} /\ Granularity \in Nat \ {0} /\ MaxSmallSize \in Nat \ {0}
      /\ Granularity <= MaxSmallSize /\ MaxSmallSize % Granularity = 0
  BY ConstantsAre
<1>3. c \in Nat BY <1>1, <1>2, AlignUpNat
<1>4. PICK block : block = BlockSize(BucketIndex(c)) OBVIOUS
<1>5. c % Granularity = 0
  <2>1. PICK v : v = AlignUp(n, a) OBVIOUS
  <2>2. v \in Nat BY <1>1, <2>1, AlignUpNat
  <2> QED BY <1>2, <2>1, <2>2, AlignUpNat
<1>6. /\ block \in Nat \ {0} /\ block <= MaxSmallSize
      /\ c # 0 => block = c
      /\ c = 0 => block = Granularity
  <2>1. CASE c = 0
    <3>1. BucketIndex(c) = 0 BY <2>1 DEF BucketIndex
    <3>2. block = (0 + 1) * Granularity BY <1>4, <3>1 DEF BlockSize
    <3> QED BY <1>2, <2>1, <3>2
  <2>2. CASE c # 0
    <3>1. c \in Nat \ {0} BY <1>3, <2>2
    <3>2. block = c BY <1>4, <1>5, <3>1, BlockIs
    <3> QED BY <2>2, <3>1, <3>2
  <2> QED BY <2>1, <2>2
<1>7. PICK base \in Regions(PageSize), offset \in BlockOffsets(block) :
          r = Region(base, PageSize, FALSE, block, base + offset)
  <2>1. PICK f, size : f = FALSE /\ size = PageSize OBVIOUS
  <2>2. ServedSmall(BucketIndex(c)) = CarvedOut(PageSize, FALSE, BlockSize(BucketIndex(c)))
    BY DEF ServedSmall, CarvedOut
  <2>3. r \in CarvedOut(size, f, block) BY <1>4, <2>1, <2>2
  <2>4. r \in {Region(base, size, f, block, base + offset) :
                  base \in Regions(size), offset \in BlockOffsets(block)}
    BY <2>3 DEF CarvedOut
  <2>5. \E base \in Regions(size), offset \in BlockOffsets(block) :
            r = Region(base, size, f, block, base + offset)
    BY ONLY <2>4
  <2> QED BY <2>1, <2>5
<1>8. base \in Nat /\ base % PageSize = 0
  <2>1. Word \in Nat BY ConstantsAre
  <2> QED BY <1>7, <2>1 DEF Regions
<1>9. r.base = base /\ r.bytes = PageSize /\ r.blockSize = block /\ r.ptr = base + offset BY <1>7 DEF Region
<1>14. r.large = FALSE BY <1>7 DEF Region
<1>10. /\ offset \in Nat /\ HeaderSize <= offset /\ offset + block <= PageSize
       /\ \A p \in Nat \ {0} : block % p = 0 /\ MaxSmallSize % p = 0 => offset % p = 0
  BY <1>6, <1>7, OffsetsAre
<1>11. IsRegion(r) BY <1>2, <1>6, <1>7, <1>8, <1>10 DEF IsRegion, Region
<1>15. UsableSize(r) = r.blockSize BY <1>14 DEF UsableSize
<1>12. UsableSize(r) = block BY <1>9, <1>15
<1>13. ASSUME ~NearTop(n)
       PROVE  /\ n <= UsableSize(r)
              /\ Wrong(r, n, asked) # {} => n = 0 /\ Wrong(r, n, asked) = {"alignment"}
  <2>1. c % a = 0 /\ n <= c /\ (n = 0 => c = 0) BY <1>1, <1>13, AlignedIs
  <2>2. n <= block BY <1>2, <1>3, <1>6, <2>1
  <2>3. offset < PageSize BY <1>2, <1>6, <1>10
  <2>4. /\ r.ptr % asked = 0 => Wrong(r, n, asked) = {}
        /\ r.ptr % asked # 0 => Wrong(r, n, asked) = {"alignment"}
    <3>1. r.base % PageSize = 0 /\ r.ptr = r.base + offset BY <1>8, <1>9
    <3>2. offset + UsableSize(r) <= r.bytes /\ UsableSize(r) \in Nat /\ n <= UsableSize(r)
      BY <1>6, <1>9, <1>10, <1>12, <2>2
    <3>3. asked \in Nat \ {0} /\ offset \in Nat /\ HeaderSize <= offset BY <1>1, <1>10
    <3> QED BY <1>11, <2>3, <3>1, <3>2, <3>3, RightIs
  <2>5. ASSUME n # 0 PROVE r.ptr % asked = 0
    <3>1. c # 0 /\ c \in Nat BY <1>3, <2>1, <2>5
    <3>2. block = c BY <1>6, <3>1
    <3>3. c % asked = 0 BY <1>1, <1>3, <2>1, MultipleTransitive
    <3>4. MaxSmallSize % asked = 0
      <4>1. HasSingleBit(MaxSmallSize) BY HeapSizesAssumption
      <4>2. MaxSmallSize % a = 0 BY <1>1, <1>2, <4>1, PowersDivide
      <4> QED BY <1>1, <1>2, <4>2, MultipleTransitive
    <3>5. offset % asked = 0 BY <1>1, <1>10, <3>2, <3>3, <3>4
    <3>6. base % asked = 0 BY <1>1, <1>2, <1>8, MultipleTransitive
    <3>7. (base + offset) % asked = 0 BY <1>1, <1>8, <1>10, <3>5, <3>6, MultipleSum
    <3> QED BY <1>9, <3>7
  <2> QED BY <1>12, <2>2, <2>4, <2>5
<1> QED BY <1>8, <1>9, <1>11, <1>13 DEF Made

LEMMA ServedIs ==
    ASSUME NEW asked \in Nat, NEW n \in Nat, NEW r \in Served(n, asked)
    PROVE  Aligns(asked) /\ Made(r, n, asked)
<1>1. PICK a, c : a = Larger(asked, Granularity) /\ c = AlignUp(AlignUp(n, a), Granularity) OBVIOUS
<1>2. HasSingleBit(asked) /\ ~(asked > PageSize) BY DEF Served
<1>3. Aligns(asked) BY <1>2, ConstantsAre DEF Aligns
<1>4. /\ MaxSmallSize \in Nat /\ a \in Nat /\ c \in Nat
  <2>1. a \in Nat \ {0} BY <1>1, <1>3, AlignmentIs
  <2>2. AlignUp(n, a) \in Nat BY <2>1, AlignUpNat
  <2> QED BY <1>1, <2>1, <2>2, AlignUpNat, ConstantsAre
<1>5. CASE c > MaxSmallSize \/ a > MaxSmallSize
  <2>1. r \in ServedLarge(n, a) BY <1>1, <1>2, <1>5 DEF Served
  <2> QED BY <1>1, <1>3, <2>1, LargeIs
<1>6. CASE ~(c > MaxSmallSize \/ a > MaxSmallSize)
  <2>1. r \in ServedSmall(BucketIndex(c)) BY <1>1, <1>2, <1>6 DEF Served
  <2>2. c <= MaxSmallSize /\ a <= MaxSmallSize BY <1>4, <1>6
  <2> QED BY <1>1, <1>3, <2>1, <2>2, SmallIs
<1> QED BY <1>5, <1>6

-----------------------------------------------------------------------------
(* One allocation, from alloc over grow and shrink to dealloc.             *)

LEMMA UsableNat ==
    ASSUME NEW r, IsRegion(r)
    PROVE  UsableSize(r) \in Nat
<1>1. r.base \in Nat /\ r.blockSize \in Nat /\ r.ptr \in Nat /\ Word \in Nat \ {0}
  BY ConstantsAre DEF IsRegion
<1>2. CASE r.large
  <2>1. UsableSize(r) = (r.blockSize - (r.ptr - r.base)) % Word BY <1>2 DEF UsableSize
  <2>2. PICK x : x = r.blockSize - (r.ptr - r.base) OBVIOUS
  <2>3. x \in Int BY <1>1, <2>2
  <2>4. x % Word \in Nat BY <1>1, <2>3
  <2> QED BY <2>1, <2>2, <2>4
<1>3. CASE ~r.large
  <2>1. UsableSize(r) = r.blockSize BY <1>3 DEF UsableSize
  <2> QED BY <1>1, <2>1
<1> QED BY <1>2, <1>3

\* What it says that nothing is wrong.
LEMMA NothingWrongIs ==
    ASSUME NEW r, NEW n, NEW alignment, Wrong(r, n, alignment) = {}
    PROVE  /\ PageHeader(r.ptr) = r.base /\ r.ptr % alignment = 0 /\ ~(n > UsableSize(r))
           /\ ~(r.ptr < r.base + HeaderSize) /\ ~(r.ptr + UsableSize(r) > r.base + r.bytes)
BY Zenon DEF Wrong

\* The allocation that is kept.
Good(r, n, alignment) ==
    /\ IsRegion(r) /\ r.base % PageSize = 0 /\ Aligns(alignment) /\ n \in Nat
    /\ Wrong(r, n, alignment) = {}

\* One of less, or of no more than is usable, is as good.
LEMMA GoodFor ==
    ASSUME NEW r, NEW m, NEW alignment, Good(r, m, alignment), NEW n \in Nat, n <= UsableSize(r)
    PROVE  Made(r, n, alignment) /\ Wrong(r, n, alignment) = {}
<1>1. /\ PageHeader(r.ptr) = r.base /\ r.ptr % alignment = 0
      /\ ~(r.ptr < r.base + HeaderSize) /\ ~(r.ptr + UsableSize(r) > r.base + r.bytes)
  BY NothingWrongIs DEF Good
<1>2. UsableSize(r) \in Nat BY UsableNat DEF Good
<1>3. ~(n > UsableSize(r)) BY <1>2
<1>4. Wrong(r, n, alignment) = {} BY <1>1, <1>3, Zenon DEF Wrong
<1> QED BY <1>4 DEF Made, Good

\* A large allocation that is resized keeps the offset of its payload.
LEMMA ResizedIs ==
    ASSUME NEW m, NEW alignment, Good(got, m, alignment), NEW n \in Nat, NEW r \in Resized(n)
    PROVE  Made(r, n, alignment)
<1>1. IsRegion(got) /\ got.base % PageSize = 0 /\ Aligns(alignment) BY DEF Good
<1>2. /\ PageHeader(got.ptr) = got.base /\ got.ptr % alignment = 0
      /\ ~(got.ptr < got.base + HeaderSize)
  BY NothingWrongIs DEF Good
<1>3. Word \in Nat \ {0} /\ PageSize \in Nat \ {0} /\ HeaderSize \in Nat BY ConstantsAre
<1>4. PICK base, ptr, offset : base = got.base /\ ptr = got.ptr /\ offset = ptr - base OBVIOUS
<1>5. base \in Nat /\ ptr \in Nat BY <1>1, <1>4 DEF IsRegion
<1>6. ptr - (ptr % PageSize) = base BY <1>2, <1>4 DEF PageHeader
<1>7. ptr % PageSize \in 0..PageSize - 1 BY <1>3, <1>5
<1>8. offset \in Nat /\ offset < PageSize /\ HeaderSize <= offset /\ ptr = base + offset
  <2>1. ~(ptr < base + HeaderSize) /\ offset = ptr - base BY <1>2, <1>4
  <2> QED BY <1>3, <1>5, <1>6, <1>7, <2>1
<1>9. alignment \in Nat \ {0} /\ PageSize % alignment = 0 BY <1>1, AlignmentIs
<1>10. offset % alignment = 0
  <2>1. base % PageSize = 0 BY <1>1, <1>4
  <2>2. base % alignment = 0 BY <1>3, <1>5, <1>9, <2>1, MultipleTransitive
  <2>3. (base + offset) % alignment = 0 BY <1>2, <1>4, <1>8
  <2> QED BY <1>5, <1>8, <1>9, <2>2, <2>3, MultipleDifference
<1>11. PICK amount : amount = AlignUp((n + offset) % Word, PageSize) OBVIOUS
<1>12. PICK to \in Regions(amount) : r = Region(to, amount, TRUE, amount, to + offset)
  BY <1>4, <1>11 DEF Resized
<1>13. to \in Nat /\ to % PageSize = 0 BY <1>3, <1>12 DEF Regions
<1>14. amount \in Nat
  <2>1. (n + offset) % Word \in Nat BY <1>3, <1>8
  <2> QED BY <1>3, <1>11, <2>1, AlignUpNat
<1>15. r.base = to /\ r.bytes = amount /\ r.blockSize = amount /\ r.ptr = to + offset BY <1>12 DEF Region
<1>16. r.large = TRUE BY <1>12 DEF Region
<1>17. IsRegion(r) BY <1>8, <1>12, <1>13, <1>14 DEF IsRegion, Region
<1>18. ASSUME ~NearTop(n)
       PROVE  n <= UsableSize(r) /\ Wrong(r, n, alignment) = {}
  <2>1. offset \in 0..PageSize BY <1>3, <1>8
  <2>2. n + offset <= amount /\ amount < Word BY <1>11, <1>18, <2>1, PagesAre
  <2>3. UsableSize(r) = (r.blockSize - (r.ptr - r.base)) % Word BY <1>16 DEF UsableSize
  <2>4. UsableSize(r) = (amount - (to + offset - to)) % Word BY <1>3, <1>8, <1>13, <1>14, <1>15, <2>3
  <2>5. UsableSize(r) = amount - offset BY <1>3, <1>8, <1>13, <1>14, <2>2, <2>4
  <2>6. n <= UsableSize(r) /\ UsableSize(r) \in Nat /\ offset + UsableSize(r) <= r.bytes
    BY <1>8, <1>14, <1>15, <2>2, <2>5
  <2>7. to % alignment = 0 BY <1>3, <1>9, <1>13, MultipleTransitive
  <2>8. r.ptr % alignment = 0 BY <1>8, <1>9, <1>10, <1>13, <1>15, <2>7, MultipleSum
  <2>9. Wrong(r, n, alignment) = {}
    BY <1>8, <1>9, <1>13, <1>15, <1>17, <2>6, <2>8, RightIs
  <2> QED BY <2>6, <2>9
<1> QED BY <1>13, <1>15, <1>17, <1>18 DEF Made

\* What was wrong, and with what.
Excused(log, w) ==
    \/ w.alignment = PageSize /\ "header" \in log
    \/ w.n = 0 /\ log = {"alignment"}
    \/ w.n > Word - 2 * PageSize

SizesInv ==
    /\ wanted \in [n : 0..Word - 1, alignment : 0..PageSize]
    /\ sizeLog \subseteq {"header", "alignment", "size", "outside", "copied outside"}
    /\ got # NoRegion => Good(got, wanted.n, wanted.alignment)
    /\ sizeLog # {} => Excused(sizeLog, wanted)

LEMMA WrongsAre ==
    ASSUME NEW r, NEW n, NEW alignment
    PROVE  Wrong(r, n, alignment) \subseteq {"header", "alignment", "size", "outside", "copied outside"}
BY DEF Wrong

LEMMA NotNoRegion ==
    ASSUME NEW r, IsRegion(r)
    PROVE  r # NoRegion
BY HeapSizesAssumption DEF IsRegion

LEMMA InRange ==
    /\ \A alignment : Aligns(alignment) => alignment \in 0..PageSize
    /\ \A n \in 0..Word - 1 : n \in Nat
<1>1. PageSize \in Nat /\ Word \in Nat BY ConstantsAre
<1> QED BY <1>1 DEF Aligns

\* The answer of an operation that made r.
LEMMA GivesIs ==
    ASSUME NEW r, NEW n \in 0..Word - 1, NEW alignment, Aligns(alignment), Made(r, n, alignment),
           NEW also \in SUBSET {"copied outside"}, ~NearTop(n) => also = {},
           Gives(r, n, alignment, also)
    PROVE  SizesInv'
<1>1. IsRegion(r) /\ r.base % PageSize = 0 BY DEF Made
<1>2. r # NoRegion BY <1>1, NotNoRegion
<1>3. PICK wrong : wrong = also \cup Wrong(r, n, alignment) OBVIOUS
<1>4. /\ sizeLog' = wrong /\ got' = IF wrong = {} THEN r ELSE NoRegion
      /\ wanted' = [n |-> n, alignment |-> alignment]
  BY <1>2, <1>3 DEF Gives
<1>5. wanted'.n = n /\ wanted'.alignment = alignment BY <1>4
<1>6. alignment \in 0..PageSize BY InRange
<1>7. wanted' \in [n : 0..Word - 1, alignment : 0..PageSize] BY <1>4, <1>6
<1>8. sizeLog' \subseteq {"header", "alignment", "size", "outside", "copied outside"}
  BY <1>3, <1>4, WrongsAre
<1>9. n \in Nat BY InRange
<1>10. ASSUME wrong = {} PROVE Good(got', n, alignment)
  <2>1. Wrong(r, n, alignment) = {} /\ got' = r BY <1>3, <1>4, <1>10
  <2> QED BY <1>1, <1>9, <2>1 DEF Good
<1>11. ASSUME wrong # {} PROVE Excused(wrong, wanted')
  <2>1. CASE NearTop(n)
    <3>1. wanted'.n > Word - 2 * PageSize BY <1>5, <2>1 DEF NearTop
    <3> QED BY <3>1 DEF Excused
  <2>2. CASE ~NearTop(n)
    <3>1. wrong = Wrong(r, n, alignment) BY <1>3, <2>2
    <3>2. \/ alignment = PageSize /\ "header" \in wrong
          \/ n = 0 /\ wrong = {"alignment"}
      BY <1>11, <2>2, <3>1 DEF Made
    <3> QED BY <1>5, <3>2 DEF Excused
  <2> QED BY <2>1, <2>2
<1>12. got' # NoRegion => Good(got', wanted'.n, wanted'.alignment) BY <1>4, <1>5, <1>10
<1>13. sizeLog' # {} => Excused(sizeLog', wanted') BY <1>4, <1>11
<1> QED BY <1>7, <1>8, <1>12, <1>13 DEF SizesInv

LEMMA NothingIs ==
    ASSUME NEW n, NEW alignment, Gives(NoRegion, n, alignment, {})
    PROVE  SizesInv'
<1>1. sizeLog' = {} /\ got' = NoRegion /\ wanted' = NothingWanted BY DEF Gives
<1>2. NothingWanted \in [n : 0..Word - 1, alignment : 0..PageSize]
  <2>1. 0 \in 0..Word - 1 /\ Granularity \in 0..PageSize BY ConstantsAre
  <2> QED BY <2>1 DEF NothingWanted
<1> QED BY <1>1, <1>2 DEF SizesInv

LEMMA GrowIs ==
    ASSUME SizesInv, got # NoRegion, NEW n \in 0..Word - 1, GrowBytes(n)
    PROVE  SizesInv'
<1>0. PICK al, m : al = wanted.alignment /\ m = wanted.n OBVIOUS
<1>1. Good(got, m, al) BY <1>0 DEF SizesInv
<1>2. Aligns(al) /\ n \in Nat /\ al \in Nat BY <1>1, InRange DEF Good, Aligns
<1>3. UsableSize(got) \in Nat BY <1>1, UsableNat DEF Good
<1>4. PICK none : none = {} OBVIOUS
<1>5. none \in SUBSET {"copied outside"} /\ (~NearTop(n) => none = {}) BY <1>4
<1>6. CASE n = 0 BY <1>6, NothingIs DEF GrowBytes, DeallocBytes
<1>7. CASE n # 0 /\ n <= UsableSize(got)
  <2>1. Gives(got, n, al, none) BY <1>0, <1>4, <1>7 DEF GrowBytes
  <2>2. Made(got, n, al) BY <1>1, <1>2, <1>7, GoodFor
  <2> QED BY <1>2, <1>5, <2>1, <2>2, GivesIs
<1>8. CASE n # 0 /\ ~(n <= UsableSize(got))
  <2>1. \/ \E r \in Resized(n) : Gives(r, n, al, none)
        \/ \E r \in Served(n, al) :
              Gives(r, n, al, IF UsableSize(r) < UsableSize(got) THEN {"copied outside"} ELSE {})
        \/ UNCHANGED heapSizesVars
    BY <1>0, <1>4, <1>8 DEF GrowBytes
  <2>2. CASE \E r \in Resized(n) : Gives(r, n, al, none)
    <3>1. PICK r \in Resized(n) : Gives(r, n, al, none) BY <2>2
    <3>2. Made(r, n, al) BY <1>1, <1>2, ResizedIs
    <3> QED BY <1>2, <1>5, <3>1, <3>2, GivesIs
  <2>3. CASE \E r \in Served(n, al) :
                Gives(r, n, al, IF UsableSize(r) < UsableSize(got) THEN {"copied outside"} ELSE {})
    <3>1. PICK r \in Served(n, al) :
              Gives(r, n, al, IF UsableSize(r) < UsableSize(got) THEN {"copied outside"} ELSE {})
      BY <2>3
    <3>2. Made(r, n, al) BY <1>2, ServedIs
    <3>3. UsableSize(r) \in Nat BY <3>2, UsableNat DEF Made
    <3>4. ~NearTop(n) => ~(UsableSize(r) < UsableSize(got)) BY <1>2, <1>3, <1>8, <3>2, <3>3 DEF Made
    <3>5. PICK also : also = IF UsableSize(r) < UsableSize(got) THEN {"copied outside"} ELSE {} OBVIOUS
    <3>6. also \in SUBSET {"copied outside"} /\ (~NearTop(n) => also = {}) BY <3>4, <3>5
    <3> QED BY <1>2, <3>1, <3>2, <3>5, <3>6, GivesIs
  <2>4. CASE UNCHANGED heapSizesVars BY <2>4 DEF heapSizesVars, SizesInv
  <2> QED BY <2>1, <2>2, <2>3, <2>4
<1> QED BY <1>6, <1>7, <1>8

LEMMA ShrinkIs ==
    ASSUME SizesInv, got # NoRegion, NEW n \in 0..wanted.n, ShrinkBytes(n)
    PROVE  SizesInv'
<1>0. PICK al, m : al = wanted.alignment /\ m = wanted.n OBVIOUS
<1>1. Good(got, m, al) BY <1>0 DEF SizesInv
<1>2. m \in 0..Word - 1 BY <1>0 DEF SizesInv
<1>3. Word \in Nat BY ConstantsAre
<1>4. n \in 0..Word - 1 /\ n \in Nat /\ n <= m /\ m \in Nat BY <1>0, <1>2, <1>3
<1>5. Aligns(al) BY <1>1 DEF Good
<1>6. UsableSize(got) \in Nat BY <1>1, UsableNat DEF Good
<1>7. PICK none : none = {} OBVIOUS
<1>8. none \in SUBSET {"copied outside"} /\ (~NearTop(n) => none = {}) BY <1>7
<1>9. ~(m > UsableSize(got)) BY <1>1, NothingWrongIs DEF Good
<1>10. n <= UsableSize(got) BY <1>4, <1>6, <1>9
<1>11. CASE n = 0 BY <1>11, NothingIs DEF ShrinkBytes, DeallocBytes
<1>12. CASE n # 0
  <2>1. \/ \E r \in Resized(n) : Gives(r, n, al, none)
        \/ Gives(got, n, al, none)
    BY <1>0, <1>7, <1>12 DEF ShrinkBytes
  <2>2. CASE \E r \in Resized(n) : Gives(r, n, al, none)
    <3>1. PICK r \in Resized(n) : Gives(r, n, al, none) BY <2>2
    <3>2. Made(r, n, al) BY <1>1, <1>4, ResizedIs
    <3> QED BY <1>4, <1>5, <1>8, <3>1, <3>2, GivesIs
  <2>3. CASE Gives(got, n, al, none)
    <3>1. Made(got, n, al) BY <1>1, <1>4, <1>10, GoodFor
    <3> QED BY <1>4, <1>5, <1>8, <2>3, <3>1, GivesIs
  <2> QED BY <2>1, <2>2, <2>3
<1> QED BY <1>11, <1>12

LEMMA AllocIs ==
    ASSUME SizesInv, NEW n \in 0..Word - 1, NEW asked \in 0..PageSize + 1, AllocBytes(n, asked)
    PROVE  SizesInv'
<1>1. n \in Nat /\ asked \in Nat BY InRange, ConstantsAre
<1>2. PICK none : none = {} OBVIOUS
<1>3. none \in SUBSET {"copied outside"} /\ (~NearTop(n) => none = {}) BY <1>2
<1>4. PICK r \in Served(n, asked) \cup {NoRegion} : Gives(r, n, asked, none) BY <1>2 DEF AllocBytes
<1>5. CASE r = NoRegion BY <1>2, <1>4, <1>5, NothingIs
<1>6. CASE r # NoRegion
  <2>1. Aligns(asked) /\ Made(r, n, asked) BY <1>1, <1>4, <1>6, ServedIs
  <2> QED BY <1>3, <1>4, <2>1, GivesIs
<1> QED BY <1>5, <1>6

-----------------------------------------------------------------------------
(* The buckets of the kernel heap.                                         *)

Power(k) == 2^k

LEMMA PowersAre ==
    /\ Power(0) = 1 /\ Power(1) = 2 /\ Power(2) = 4 /\ Power(3) = 8 /\ Power(4) = 16 /\ Power(5) = 32
    /\ Power(6) = 64 /\ Power(7) = 128 /\ Power(8) = 256 /\ Power(9) = 512 /\ Power(10) = 1024
    /\ Power(11) = 2048
BY DEF Power

LEMMA MinIs ==
    ASSUME NEW S \in SUBSET Nat, NEW m \in S, \A k \in S : m <= k
    PROVE  Min(S) = m
<1>1. PICK x : x = CHOOSE y \in S : \A z \in S : y <= z OBVIOUS
<1>2. x \in S /\ \A z \in S : x <= z BY <1>1
<1>3. x <= m /\ m <= x /\ x \in Nat /\ m \in Nat BY <1>2
<1>4. x = m BY <1>3
<1> QED BY <1>1, <1>4 DEF Min

\* The exponent of the power of two that x is rounded up to.
LEMMA ExponentIs ==
    ASSUME NEW j \in 5..11, NEW x \in Nat, Power(j - 1) < x, x <= Power(j)
    PROVE  AlignUpPow2(x) = j
<1> DEFINE Above == {k \in 0..30 : Power(k) > x - 1}
<1>1. j \in {5, 6, 7, 8, 9, 10, 11} OBVIOUS
<1>2. Power(j) \in Nat /\ Power(j - 1) \in Nat /\ Power(j - 1) >= 16
  BY <1>1, PowersAre
<1>3. j \in Above BY <1>2
<1>4. ASSUME NEW k \in Above PROVE j <= k
  <2> SUFFICES ASSUME k < j PROVE FALSE OBVIOUS
  <2>1. k \in 0..10 /\ k <= j - 1 BY <1>1
  <2>2. Power(k) <= Power(j - 1)
    <3>1. k \in {0, 1, 2, 3, 4, 5, 6, 7, 8, 9, 10} BY <2>1
    <3>2. Power(k) \in Nat /\ Power(k) <= 1024 BY <3>1, PowersAre
    <3>3. CASE j = 5 BY <2>1, <3>1, <3>3, PowersAre
    <3>4. CASE j = 6 BY <2>1, <3>1, <3>4, PowersAre
    <3>5. CASE j = 7 BY <2>1, <3>1, <3>5, PowersAre
    <3>6. CASE j = 8 BY <2>1, <3>1, <3>6, PowersAre
    <3>7. CASE j = 9 BY <2>1, <3>1, <3>7, PowersAre
    <3>8. CASE j = 10 BY <2>1, <3>1, <3>8, PowersAre
    <3>9. CASE j = 11 BY <2>1, <3>1, <3>9, PowersAre
    <3> QED BY <1>1, <3>3, <3>4, <3>5, <3>6, <3>7, <3>8, <3>9
  <2>3. Power(k) > x - 1 /\ Power(k) \in Nat
    <3>1. k \in {0, 1, 2, 3, 4, 5, 6, 7, 8, 9, 10} BY <2>1
    <3> QED BY <3>1, PowersAre
  <2> QED BY <1>2, <2>2, <2>3
<1>5. Above \in SUBSET Nat OBVIOUS
<1>6. Min(Above) = j BY <1>3, <1>4, <1>5, MinIs
<1>7. x # 1 BY <1>2
<1>8. AlignUpPow2(x) = Min({k \in 0..30 : 2^k > x - 1}) BY <1>7 DEF AlignUpPow2
<1>9. Above = {k \in 0..30 : 2^k > x - 1} BY DEF Power
<1> QED BY <1>6, <1>8, <1>9

LEMMA BucketIs ==
    ASSUME NEW size \in 1..TinyBuckets[Len(TinyBuckets)]
    PROVE  Size2Bucket(size) + 1 = Min({b \in DOMAIN TinyBuckets : TinyBuckets[b] >= size})
<1> DEFINE Fitting == {b \in DOMAIN TinyBuckets : TinyBuckets[b] >= size}
<1>1. /\ TinyBuckets[1] = 16 /\ TinyBuckets[2] = 32 /\ TinyBuckets[3] = 64 /\ TinyBuckets[4] = 128
      /\ TinyBuckets[5] = 256 /\ TinyBuckets[6] = 512 /\ TinyBuckets[7] = 1024 /\ TinyBuckets[8] = 2048
      /\ Len(TinyBuckets) = 8 /\ DOMAIN TinyBuckets = 1..8
  BY DEF TinyBuckets
<1>2. size \in 1..2048 BY <1>1
<1>3. Fitting \in SUBSET Nat BY <1>1
<1>4. CASE size <= 16
  <2>1. Size2Bucket(size) = 0 BY <1>1, <1>4 DEF Size2Bucket
  <2>2. 1 \in Fitting /\ \A k \in Fitting : 1 <= k BY <1>1, <1>2, <1>4
  <2>3. Min(Fitting) = 1 BY <1>3, <2>2, MinIs
  <2> QED BY <2>1, <2>3
<1>5. ASSUME NEW j \in 5..11, Power(j - 1) < size, size <= Power(j)
      PROVE  Size2Bucket(size) + 1 = Min(Fitting)
  <2>1. j \in {5, 6, 7, 8, 9, 10, 11} BY <1>5
  <2>12. Power(j - 1) \in {16, 32, 64, 128, 256, 512, 1024}
    <3>1. CASE j = 5 BY <3>1, PowersAre, 5 - 1 = 4
    <3>2. CASE j = 6 BY <3>2, PowersAre, 6 - 1 = 5
    <3>3. CASE j = 7 BY <3>3, PowersAre, 7 - 1 = 6
    <3>4. CASE j = 8 BY <3>4, PowersAre, 8 - 1 = 7
    <3>5. CASE j = 9 BY <3>5, PowersAre, 9 - 1 = 8
    <3>6. CASE j = 10 BY <3>6, PowersAre, 10 - 1 = 9
    <3>7. CASE j = 11 BY <3>7, PowersAre, 11 - 1 = 10
    <3> QED BY <2>1, <3>1, <3>2, <3>3, <3>4, <3>5, <3>6, <3>7
  <2>2. Power(j - 1) >= 16 /\ Power(j - 1) \in Nat BY <2>12
  <2>3. AlignUpPow2(size) = j BY <1>2, <1>5, ExponentIs
  <2>4. ~(size <= TinyBuckets[1]) BY <1>1, <1>2, <1>5, <2>2
  <2>5. Size2Bucket(size) = j - 4 BY <2>3, <2>4 DEF Size2Bucket
  <2>6. \A i \in {5, 6, 7, 8, 9, 10, 11} : TinyBuckets[i - 3] = Power(i) /\ TinyBuckets[i - 4] = Power(i - 1)
    BY <1>1, PowersAre
  <2>7. TinyBuckets[j - 3] = Power(j) /\ TinyBuckets[j - 4] = Power(j - 1) BY <2>1, <2>6
  <2>8. j - 3 \in Fitting BY <1>1, <1>5, <2>1, <2>7
  <2>9. ASSUME NEW k \in Fitting PROVE j - 3 <= k
    <3> SUFFICES ASSUME k <= j - 4 PROVE FALSE BY <1>1, <2>1
    <3>1. k \in 1..8 BY <1>1
    <3>2. TinyBuckets[k] <= TinyBuckets[j - 4] BY <1>1, <2>1, <3>1
    <3>3. TinyBuckets[k] >= size OBVIOUS
    <3>4. TinyBuckets[k] \in Nat BY <1>1, <3>1
    <3> QED BY <1>2, <1>5, <2>2, <2>7, <3>2, <3>3, <3>4
  <2>10. j - 3 \in Nat BY <2>1
  <2>11. Min(Fitting) = j - 3 BY <1>3, <2>8, <2>9, MinIs
  <2> QED BY <2>1, <2>5, <2>11
<1>6. ASSUME size > 16 PROVE \E j \in 5..11 : Power(j - 1) < size /\ size <= Power(j)
  <2>1. CASE size <= 32 BY <1>6, <2>1, PowersAre, 5 \in 5..11, 5 - 1 = 4
  <2>2. CASE 32 < size /\ size <= 64 BY <2>2, PowersAre, 6 \in 5..11, 6 - 1 = 5
  <2>3. CASE 64 < size /\ size <= 128 BY <2>3, PowersAre, 7 \in 5..11, 7 - 1 = 6
  <2>4. CASE 128 < size /\ size <= 256 BY <2>4, PowersAre, 8 \in 5..11, 8 - 1 = 7
  <2>5. CASE 256 < size /\ size <= 512 BY <2>5, PowersAre, 9 \in 5..11, 9 - 1 = 8
  <2>6. CASE 512 < size /\ size <= 1024 BY <2>6, PowersAre, 10 \in 5..11, 10 - 1 = 9
  <2>7. CASE 1024 < size /\ size <= 2048 BY <2>7, PowersAre, 11 \in 5..11, 11 - 1 = 10
  <2> QED BY <1>2, <2>1, <2>2, <2>3, <2>4, <2>5, <2>6, <2>7
<1> QED BY <1>2, <1>4, <1>5, <1>6

-----------------------------------------------------------------------------

\* Whatever is asked of heap_allocator, the payload is inside its region and clear of the
\* header, has the alignment and at least the size that was asked for, dealloc finds the header
\* from it, and grow copies no more than fits, but in the three cases that are named; and the
\* bucket of the kernel heap is the smallest that fits.  For every size of a page, of the header,
\* of the address space and of the largest small block.
THEOREM SizesServed == HeapSizesSpec => [](SizesAreServed /\ HeapSizesTypeOK)
<1>1. HeapSizesInit => SizesInv
  <2> SUFFICES ASSUME HeapSizesInit PROVE SizesInv OBVIOUS
  <2>1. 0 \in 0..Word - 1 /\ Granularity \in 0..PageSize BY ConstantsAre
  <2>2. wanted \in [n : 0..Word - 1, alignment : 0..PageSize] BY <2>1 DEF HeapSizesInit, NothingWanted
  <2> QED BY <2>2 DEF HeapSizesInit, SizesInv
<1>2. SizesInv /\ [HeapSizesNext]_heapSizesVars => SizesInv'
  <2> SUFFICES ASSUME SizesInv, [HeapSizesNext]_heapSizesVars PROVE SizesInv' OBVIOUS
  <2>1. CASE \E n \in 0..Word - 1, alignment \in 0..PageSize + 1 : AllocBytes(n, alignment) BY <2>1, AllocIs
  <2>2. CASE got # NoRegion /\ DeallocBytes BY <2>2, NothingIs DEF DeallocBytes
  <2>3. CASE got # NoRegion /\ \E n \in 0..Word - 1 : GrowBytes(n) BY <2>3, GrowIs
  <2>4. CASE got # NoRegion /\ \E n \in 0..wanted.n : ShrinkBytes(n) BY <2>4, ShrinkIs
  <2>5. CASE UNCHANGED heapSizesVars BY <2>5 DEF heapSizesVars, SizesInv
  <2> QED BY <2>1, <2>2, <2>3, <2>4, <2>5 DEF HeapSizesNext
<1>3. BucketsFit BY BucketIs DEF BucketsFit
<1>4. SizesInv => SizesAreServed /\ HeapSizesTypeOK
  BY <1>3 DEF SizesInv, Excused, SizesAreServed, HeapSizesTypeOK
<1> QED BY <1>1, <1>2, <1>4, PTL DEF HeapSizesSpec
=============================================================================
