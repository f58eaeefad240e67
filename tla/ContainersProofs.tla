-------------------------- MODULE ContainersProofs --------------------------
(***************************************************************************)
(* Proofs about what runs in MCContainers, for all values of its           *)
(* constants: the value types, lists and maps of libglox and the stream of *)
(* the log, each with its inductive invariant, and the composition.        *)
(* Vectors and strings are in VectorProofs, sizes in HeapAllocProofs.      *)
(***************************************************************************)
EXTENDS MCContainers, NaturalsInduction, WellFoundedInduction, FiniteSetTheorems, FunctionTheorems, TLAPS

\* A set of numbers that is not empty has a least element.
LEMMA LeastNumber ==
    ASSUME NEW S \in SUBSET Nat, S # {}
    PROVE  \E m \in S : \A k \in S : m <= k
<1>1. PICK m \in S : \A k \in S : ~(<<k, m>> \in OpToRel(<, Nat))
    BY NatLessThanWellFounded, WFMin
<1>2. \A k \in S : ~(k < m) BY <1>1 DEF OpToRel
<1> QED BY <1>2

-----------------------------------------------------------------------------
(* Values.                                                                 *)

Payload == Data \cup {Moved, NoData}

\* The tags of the type that come with a payload, and whether it has an empty object.
PayloadTags ==
    IF kind[1] = "variant" THEN {"alt0", "alt1", "alt2"}
    ELSE IF kind[1] \in {"result", "result&"} THEN {"val", "err"} ELSE {"val"}
HasEmpty == kind[1] \in {"option", "option&", "box"}

\* What an object can stand for, and the object that does.
Meanings == {Nothing} \cup {m \in {<<"none", NoData>>} : HasEmpty} \cup (PayloadTags \X (Data \cup {Moved}))
Shape(m) == [sel |-> m[1], live |-> MemberOf(m[1]), data |-> m[2]]

ObjectsMean == \A v \in Objects : meant[v] \in Meanings /\ obj[v] = Shape(meant[v])

Exempt == ({"get"} \X {"panic"}) \cup {<<"== of references", "wrong member">>,
              <<"emplace own", "wrong member">>, <<"transform err", "changed">>}

\* While nothing went wrong the objects are determined by what they stand for.
ValuesInv ==
    /\ ValuesTypeOK
    /\ fault \subseteq Exempt
    /\ fault = {} => asked[2] = asked[3] /\ ObjectsMean

LEMMA InitMeans == ValuesInit => ValuesInv
BY DEF ValuesInit, ValuesInv, ValuesTypeOK, ObjectsMean, Meanings, Shape, Nothing, Gone, NoQuestion,
       MemberOf, Tag, Live

-----------------------------------------------------------------------------
(* What the steps on the storage do.                                       *)

Events == {"overwritten", "wrong member", "panic", "changed"}
Object == [sel : Tag, live : Live, data : Payload]
Storage == [obj : [Objects -> Object], event : SUBSET Events]

\* w is u with object v as given.
PutsObject(u, w, v, sel, live, data) ==
    /\ w \in Storage
    /\ w.event = u.event
    /\ w.obj = [u.obj EXCEPT ![v] = [sel |-> sel, live |-> live, data |-> data]]

\* A store into a field of an object.
LEMMA FieldLemma ==
    ASSUME NEW u \in Storage, NEW v \in Objects
    PROVE  /\ \A s \in Tag : PutsObject(u, [u EXCEPT !.obj[v].sel = s], v, s, u.obj[v].live, u.obj[v].data)
           /\ \A m \in Live : PutsObject(u, [u EXCEPT !.obj[v].live = m], v, u.obj[v].sel, m, u.obj[v].data)
           /\ \A d \in Payload : PutsObject(u, [u EXCEPT !.obj[v].data = d], v, u.obj[v].sel, u.obj[v].live, d)
<1>1. u = [obj |-> u.obj, event |-> u.event] /\ u.obj \in [Objects -> Object] /\ u.event \in SUBSET Events
  BY DEF Storage
<1>2. PICK o : o = u.obj OBVIOUS
<1>3. PICK x : x = o[v] OBVIOUS
<1>4. x \in Object BY <1>1, <1>2, <1>3
<1>5. ASSUME NEW y \in Object
      PROVE  PutsObject(u, [u EXCEPT !.obj = [o EXCEPT ![v] = y]], v, y.sel, y.live, y.data)
  <2>1. y = [sel |-> y.sel, live |-> y.live, data |-> y.data] BY DEF Object
  <2>2. PICK q : q = [o EXCEPT ![v] = y] OBVIOUS
  <2>3. q \in [Objects -> Object] BY <1>1, <1>2, <2>2
  <2>4. [u EXCEPT !.obj = q] = [obj |-> q, event |-> u.event] BY <1>1
  <2>5. [obj |-> q, event |-> u.event] \in Storage BY <1>1, <2>3 DEF Storage
  <2> QED BY <1>2, <2>1, <2>2, <2>4, <2>5 DEF PutsObject
<1>6. ASSUME NEW s \in Tag
      PROVE  PutsObject(u, [u EXCEPT !.obj[v].sel = s], v, s, u.obj[v].live, u.obj[v].data)
  <2>0. [sel |-> s, live |-> x.live, data |-> x.data] \in Object BY <1>4 DEF Object
  <2>01. [x EXCEPT !.sel = s] = [sel |-> s, live |-> x.live, data |-> x.data] BY <1>4 DEF Object
  <2>1. PICK y \in Object : y = [x EXCEPT !.sel = s] /\ y = [sel |-> s, live |-> x.live, data |-> x.data]
    BY <2>0, <2>01
  <2>2. [u EXCEPT !.obj[v].sel = s] = [u EXCEPT !.obj = [o EXCEPT ![v] = y]] BY <1>2, <1>3, <2>1
  <2> QED BY <1>2, <1>3, <1>5, <2>1, <2>2
<1>7. ASSUME NEW m \in Live
      PROVE  PutsObject(u, [u EXCEPT !.obj[v].live = m], v, u.obj[v].sel, m, u.obj[v].data)
  <2>0. [sel |-> x.sel, live |-> m, data |-> x.data] \in Object BY <1>4 DEF Object
  <2>01. [x EXCEPT !.live = m] = [sel |-> x.sel, live |-> m, data |-> x.data] BY <1>4 DEF Object
  <2>1. PICK y \in Object : y = [x EXCEPT !.live = m] /\ y = [sel |-> x.sel, live |-> m, data |-> x.data]
    BY <2>0, <2>01
  <2>2. [u EXCEPT !.obj[v].live = m] = [u EXCEPT !.obj = [o EXCEPT ![v] = y]] BY <1>2, <1>3, <2>1
  <2> QED BY <1>2, <1>3, <1>5, <2>1, <2>2
<1>8. ASSUME NEW d \in Payload
      PROVE  PutsObject(u, [u EXCEPT !.obj[v].data = d], v, u.obj[v].sel, u.obj[v].live, d)
  <2>0. [sel |-> x.sel, live |-> x.live, data |-> d] \in Object BY <1>4 DEF Object
  <2>01. [x EXCEPT !.data = d] = [sel |-> x.sel, live |-> x.live, data |-> d] BY <1>4 DEF Object
  <2>1. PICK y \in Object : y = [x EXCEPT !.data = d] /\ y = [sel |-> x.sel, live |-> x.live, data |-> d]
    BY <2>0, <2>01
  <2>2. [u EXCEPT !.obj[v].data = d] = [u EXCEPT !.obj = [o EXCEPT ![v] = y]] BY <1>2, <1>3, <2>1
  <2> QED BY <1>2, <1>3, <1>5, <2>1, <2>2
<1> QED BY <1>6, <1>7, <1>8

\* Two stores into one object.
LEMMA TwoPuts ==
    ASSUME NEW u \in Storage, NEW w, NEW z, NEW v \in Objects, NEW s, NEW m, NEW d, NEW s2, NEW m2, NEW d2,
           PutsObject(u, w, v, s, m, d), PutsObject(w, z, v, s2, m2, d2)
    PROVE  PutsObject(u, z, v, s2, m2, d2)
BY DEF PutsObject, Storage

LEMMA FlagLemma ==
    ASSUME NEW u \in Storage, NEW what \in Events
    PROVE  \A c \in BOOLEAN :
           /\ Flag2(u, c, what) \in Storage
           /\ Flag2(u, c, what).obj = u.obj
           /\ Flag2(u, c, what).event = u.event \cup {e \in {what} : c}
BY DEF Flag2, Storage

\* What is known of an object from what it stands for.
LEMMA MeaningLemma ==
    ASSUME NEW m \in Meanings, kind \in Kinds
    PROVE  /\ m = <<m[1], m[2]>> /\ m[1] \in Tag /\ m[2] \in Payload
           /\ MemberOf(m[1]) \in Live /\ Shape(m) \in Object
           /\ m[1] = "gone" => m = Nothing /\ Shape(m) = Gone
           /\ m[1] = "none" => m = <<"none", NoData>> /\ HasEmpty
           /\ m[1] \notin {"none", "gone"} => m[1] \in PayloadTags /\ m[2] \in Data \cup {Moved}
           /\ m[1] \in {"none", "gone"} => MemberOf(m[1]) = "none" /\ m[2] = NoData
           /\ MemberOf(m[1]) \in {"none", m[1]}
<1>1. /\ m = <<m[1], m[2]>> /\ m[1] \in Tag /\ m[2] \in Payload
      /\ m[1] \in Live \cup {"gone"}
      /\ m[1] = "gone" => m = Nothing
      /\ m[1] = "none" => m = <<"none", NoData>> /\ HasEmpty
      /\ m[1] \notin {"none", "gone"} => m[1] \in PayloadTags /\ m[2] \in Data \cup {Moved}
      /\ m[1] \in {"none", "gone"} => m[2] = NoData
  <2>1. CASE m = Nothing BY <2>1 DEF Nothing, Tag, Live, Payload
  <2>2. CASE m = <<"none", NoData>> /\ HasEmpty BY <2>2 DEF Tag, Live, Payload
  <2>3. CASE m \in PayloadTags \X (Data \cup {Moved}) BY <2>3 DEF PayloadTags, Tag, Live, Payload
  <2> QED BY <2>1, <2>2, <2>3 DEF Meanings
<1>2. MemberOf(m[1]) \in {"none", m[1]} /\ (m[1] \in {"none", "gone"} => MemberOf(m[1]) = "none")
  BY DEF MemberOf
<1>3. MemberOf(m[1]) \in Live BY <1>1, <1>2 DEF Live
<1>4. Shape(m) \in Object BY <1>1, <1>3 DEF Shape, Object
<1>5. m[1] = "gone" => Shape(m) = Gone BY <1>1, <1>2 DEF Shape, Gone, Nothing
<1> QED BY <1>1, <1>2, <1>3, <1>4, <1>5

\* Reading the member that lives is no event, and a payload of a class is left moved from.
LEMMA ReadLemma ==
    ASSUME NEW u \in Storage, NEW w \in Objects, NEW member, u.obj[w].live = member
    PROVE  /\ ReadAt(u, w, member) = u
           /\ Trivial \/ member = "none" => MoveOut(u, w, member) = u
           /\ ~(Trivial \/ member = "none") =>
                 PutsObject(u, MoveOut(u, w, member), w, u.obj[w].sel, member, Moved)
<1>1. ReadAt(u, w, member) = u BY DEF ReadAt, Flag2
<1>2. Moved \in Payload BY DEF Payload
<1>3. MoveOut(u, w, member) = IF Trivial \/ member = "none" THEN u ELSE [u EXCEPT !.obj[w].data = Moved]
  BY <1>1 DEF MoveOut
<1> QED BY <1>1, <1>2, <1>3, FieldLemma

\* A member is constructed in storage that needs no destructor.
LEMMA ConstructLemma ==
    ASSUME NEW u \in Storage, NEW v \in Objects, NEW member \in Live, NEW d \in Payload,
           Trivial \/ u.obj[v].live = "none"
    PROVE  PutsObject(u, ConstructAt(u, v, member, d), v, u.obj[v].sel, member, d)
<1>1. Flag2(u, ~Trivial /\ u.obj[v].live # "none", "overwritten") = u BY DEF Flag2
<1>2. PICK x : x = [u EXCEPT !.obj[v].live = member] OBVIOUS
<1>3. PutsObject(u, x, v, u.obj[v].sel, member, u.obj[v].data) BY <1>2, FieldLemma
<1>4. x \in Storage /\ x.obj[v].sel = u.obj[v].sel /\ x.obj[v].live = member
  BY <1>3 DEF PutsObject, Storage
<1>5. PICK y : y = [x EXCEPT !.obj[v].data = d] OBVIOUS
<1>6. PutsObject(x, y, v, u.obj[v].sel, member, d) BY <1>4, <1>5, FieldLemma
<1>7. PutsObject(u, y, v, u.obj[v].sel, member, d) BY <1>3, <1>6, TwoPuts
<1>8. ConstructAt(u, v, member, d) = y BY <1>1, <1>2, <1>5 DEF ConstructAt
<1> QED BY <1>7, <1>8

\* The tag is written after the member.
LEMMA TagLemma ==
    ASSUME NEW u \in Storage, NEW x, NEW v \in Objects, NEW s, NEW member, NEW d, NEW sel \in Tag,
           PutsObject(u, x, v, s, member, d)
    PROVE  PutsObject(u, SetTag(x, v, sel), v, sel, member, d)
<1>1. x \in Storage /\ x.obj[v].live = member /\ x.obj[v].data = d BY DEF PutsObject, Storage
<1>2. PutsObject(x, SetTag(x, v, sel), v, sel, member, d) BY <1>1, FieldLemma DEF SetTag
<1> QED BY <1>2, TwoPuts

\* Where there is no object, one is made.
LEMMA MakeLemma ==
    ASSUME NEW u \in Storage, NEW v \in Objects, NEW m \in Meanings, m # Nothing,
           u.obj[v] = Gone, kind \in Kinds
    PROVE  PutsObject(u, Make(u, v, m[1], m[2]), v, m[1], MemberOf(m[1]), m[2])
<1>1. /\ m[1] \in Tag /\ m[1] # "gone" /\ m[2] \in Payload /\ MemberOf(m[1]) \in {"none", m[1]}
      /\ MemberOf(m[1]) \in Live
      /\ m[1] = "none" => m[2] = NoData
  BY MeaningLemma
<1>2. u.obj[v].sel = "gone" /\ u.obj[v].live = "none" /\ u.obj[v].data = NoData BY DEF Gone
<1>3. CASE m[1] = "none"
  BY <1>1, <1>2, <1>3, FieldLemma DEF Make, SetTag, MemberOf
<1>4. CASE m[1] # "none" /\ MemberOf(m[1]) = "none"
  <2>1. PutsObject(u, PointAt(u, v, m[2]), v, "gone", "none", m[2]) BY <1>1, <1>2, FieldLemma DEF PointAt
  <2> QED BY <1>1, <1>4, <2>1, TagLemma DEF Make
<1>5. CASE m[1] # "none" /\ MemberOf(m[1]) # "none"
  <2>1. PutsObject(u, ConstructAt(u, v, m[1], m[2]), v, "gone", m[1], m[2]) BY <1>1, <1>2, <1>5, ConstructLemma
  <2> QED BY <1>1, <1>5, <2>1, TagLemma DEF Make
<1> QED BY <1>3, <1>4, <1>5

\* The member that lives is destroyed.
LEMMA DestroyLemma ==
    ASSUME NEW u \in Storage, NEW v \in Objects
    PROVE  PutsObject(u, DestroyAt(u, v, u.obj[v].live), v, u.obj[v].sel, "none", NoData)
<1>1. PICK x : x = [u EXCEPT !.obj[v].live = "none"] OBVIOUS
<1>2. PutsObject(u, x, v, u.obj[v].sel, "none", u.obj[v].data) BY <1>1, FieldLemma DEF Live
<1>3. x \in Storage /\ x.obj[v].sel = u.obj[v].sel /\ x.obj[v].live = "none"
  BY <1>2 DEF PutsObject, Storage
<1>4. PICK y : y = [x EXCEPT !.obj[v].data = NoData] OBVIOUS
<1>5. PutsObject(x, y, v, u.obj[v].sel, "none", NoData) BY <1>3, <1>4, FieldLemma DEF Payload
<1>6. PutsObject(u, y, v, u.obj[v].sel, "none", NoData) BY <1>2, <1>5, TwoPuts
<1>7. DestroyAt(u, v, u.obj[v].live) = y BY <1>1, <1>4 DEF DestroyAt, Flag2
<1> QED BY <1>6, <1>7

\* An object in its storage is destroyed: all of it, or only its member.
LEMMA DropLemma ==
    ASSUME NEW u \in Storage, NEW v \in Objects, NEW m \in Meanings, u.obj[v] = Shape(m), kind \in Kinds
    PROVE  /\ MemberOf(m[1]) = "none" => Drop(u, v) = u
           /\ MemberOf(m[1]) # "none" => PutsObject(u, Drop(u, v), v, m[1], "none", NoData)
<1>1. u.obj[v].sel = m[1] /\ u.obj[v].live = MemberOf(m[1]) BY DEF Shape
<1>2. CASE MemberOf(m[1]) = "none" BY <1>1, <1>2 DEF Drop
<1>3. CASE MemberOf(m[1]) # "none"
  <2> DEFINE member == MemberOf(m[1])
  <2>1. Drop(u, v) = DestroyAt(u, v, member) BY <1>1, <1>3 DEF Drop
  <2>2. PutsObject(u, DestroyAt(u, v, member), v, m[1], "none", NoData) BY <1>1, DestroyLemma
  <2> QED BY <1>3, <2>1, <2>2
<1> QED BY <1>2, <1>3

\* An object is assigned, with a member of the same kind in it.
LEMMA AssignLemma ==
    ASSUME NEW u \in Storage, NEW v \in Objects, NEW d \in Payload
    PROVE  PutsObject(u, AssignAt(u, v, u.obj[v].live, d), v, u.obj[v].sel, u.obj[v].live, d)
<1>1. AssignAt(u, v, u.obj[v].live, d) = [u EXCEPT !.obj[v].data = d] BY DEF AssignAt, Flag2
<1> QED BY <1>1, FieldLemma

-----------------------------------------------------------------------------
(* How an operation ends.                                                  *)

\* What holds while nothing went wrong.
ObjectsFine == ValuesInv /\ fault = {}

LEMMA NowIsStorage ==
    ASSUME ObjectsFine
    PROVE  /\ Now \in Storage /\ Now.obj = obj /\ Now.event = {}
           /\ kind \in Kinds /\ ObjectsMean /\ DOMAIN obj = Objects /\ DOMAIN meant = Objects
           /\ \A v \in Objects : obj[v] \in Object /\ meant[v] \in Meanings /\ obj[v] = Shape(meant[v])
           /\ \A v \in Objects : /\ obj[v].sel = meant[v][1]
                                 /\ obj[v].live = MemberOf(meant[v][1])
                                 /\ obj[v].data = meant[v][2]
<1>1. obj \in [Objects -> Object] /\ kind \in Kinds /\ ObjectsMean /\ DOMAIN meant = Objects
  BY DEF ObjectsFine, ValuesInv, ValuesTypeOK, Object, Payload
<1>2. Now \in Storage BY <1>1 DEF Now, Storage
<1> QED BY <1>1, <1>2 DEF Now, ObjectsMean, Shape

\* An object that stands for something else now.
LEMMA OneObjectChanges ==
    ASSUME ObjectsFine, kind' = kind, fault' = {}, asked'[2] = asked'[3],
           NEW v \in Objects, NEW m \in Meanings,
           obj' = [obj EXCEPT ![v] = Shape(m)], meant' = [meant EXCEPT ![v] = m]
    PROVE  ValuesInv'
<1>1. Meanings' = Meanings /\ \A x : Shape(x)' = Shape(x)
  BY DEF Meanings, Shape, MemberOf, PayloadTags, HasEmpty
<1>2. ObjectsMean' BY <1>1, NowIsStorage DEF ObjectsMean
<1>3. Shape(m) \in Object /\ m \in Tag \X Payload BY MeaningLemma, NowIsStorage
<1>4. ValuesTypeOK'
  BY <1>3 DEF ObjectsFine, ValuesInv, ValuesTypeOK, Object, Payload
<1> QED BY <1>2, <1>4 DEF ValuesInv

\* And nothing changes but the question and its answer.
LEMMA NoneChanges ==
    ASSUME ObjectsFine, UNCHANGED <<kind, obj, meant>>, fault' \subseteq Exempt,
           fault' = {} => asked'[2] = asked'[3]
    PROVE  ValuesInv'
<1>1. Meanings' = Meanings /\ \A x : Shape(x)' = Shape(x)
  BY DEF Meanings, Shape, MemberOf, PayloadTags, HasEmpty
<1> QED BY <1>1 DEF ObjectsFine, ValuesInv, ValuesTypeOK, ObjectsMean

\* Something went wrong, which is where the history ends.
LEMMA WrongEnds ==
    ASSUME ObjectsFine, kind' = kind, fault' \subseteq Exempt, fault' # {},
           NEW u \in Storage, obj' = u.obj,
           NEW v \in Objects, NEW m \in Tag \X Payload, meant' = [meant EXCEPT ![v] = m]
    PROVE  ValuesInv'
BY DEF ObjectsFine, ValuesInv, ValuesTypeOK, Storage, Object, Payload

-----------------------------------------------------------------------------
(* The operations.                                                         *)

\* An operation that leaves one object changed.
LEMMA DoesOne ==
    ASSUME ObjectsFine, NEW op, NEW u, NEW means, Does(op, u, means),
           NEW v \in Objects, NEW m \in Meanings, u.event = {},
           u.obj = [obj EXCEPT ![v] = Shape(m)], means = [meant EXCEPT ![v] = m]
    PROVE  ValuesInv'
BY OneObjectChanges DEF Does, NoQuestion

LEMMA ProductLemma ==
    /\ \A op, e : {op} \X {e} = {<<op, e>>}
    /\ \A op, S : {op} \X S = {} => S = {}
<1>1. ASSUME NEW op, NEW S, {op} \X S = {}, S # {} PROVE FALSE
  <2>1. PICK e \in S : TRUE BY <1>1
  <2>2. <<op, e>> \in {op} \X S OBVIOUS
  <2> QED BY <1>1, <2>2
<1>2. ASSUME NEW op, NEW e PROVE {op} \X {e} = {<<op, e>>} OBVIOUS
<1> QED BY <1>1, <1>2

LEMMA DoesPuts ==
    ASSUME ObjectsFine, NEW op, NEW u, NEW v \in Objects, NEW m \in Meanings,
           Does(op, u, [meant EXCEPT ![v] = m]), PutsObject(Now, u, v, m[1], MemberOf(m[1]), m[2])
    PROVE  ValuesInv'
<1>1. u.event = {} /\ u.obj = [obj EXCEPT ![v] = Shape(m)] BY NowIsStorage DEF PutsObject, Shape
<1> QED BY <1>1, DoesOne

LEMMA GoneLemma ==
    ASSUME ObjectsFine, NEW v \in Objects
    PROVE  /\ IsGone(v) <=> meant[v] = Nothing
           /\ IsGone(v) => Now.obj[v] = Gone
           /\ Usable(v) => meant[v] # Nothing /\ meant[v][2] # Moved
BY NowIsStorage, MeaningLemma DEF IsGone, Usable, Shape, Nothing

\* A new object, from a payload or without one.
LEMMA NewStep ==
    ASSUME ObjectsFine, NEW v \in Objects, NEW sel \in PayloadTags \cup {s \in {"none"} : HasEmpty}, NEW d \in Data,
           New(v, sel, d)
    PROVE  ValuesInv'
<1> DEFINE m == <<sel, IF sel = "none" THEN NoData ELSE d>>
<1>1. m \in Meanings BY DEF Meanings, PayloadTags
<1>2. m # Nothing BY DEF Nothing, PayloadTags
<1>3. Make(Now, v, sel, d) = Make(Now, v, m[1], m[2]) BY DEF Make
<1>4. Now.obj[v] = Gone /\ Now \in Storage /\ kind \in Kinds BY GoneLemma, NowIsStorage DEF New
<1>5. PutsObject(Now, Make(Now, v, m[1], m[2]), v, m[1], MemberOf(m[1]), m[2])
  BY <1>1, <1>2, <1>4, MakeLemma
<1>6. Does("new", Make(Now, v, m[1], m[2]), [meant EXCEPT ![v] = m])
  BY <1>3 DEF New, Stands
<1> HIDE DEF m
<1> QED BY <1>1, <1>5, <1>6, DoesPuts

LEMMA NewSteps ==
    ASSUME ObjectsFine, NEW v \in Objects, NEW sel \in Live, NEW d \in Data,
           \/ NewOption(v, sel, d) \/ NewOptionReference(v, sel, d)
           \/ NewResult(v, sel, d) \/ NewReference(v, sel, d) \/ NewVariant(v, sel, d)
    PROVE  ValuesInv'
<1>1. /\ sel \in PayloadTags \cup {s \in {"none"} : HasEmpty}
      /\ New(v, sel, d)
  BY DEF NewOption, NewOptionReference, NewResult, NewReference, NewVariant, Is, Tags, PayloadTags, HasEmpty
<1> QED BY <1>1, NewStep

\* A copy is made of what lives, and stands for the same.
LEMMA CopiedStep ==
    ASSUME ObjectsFine, NEW v \in Objects, NEW w \in Objects, NEW op, IsGone(v), Usable(w),
           Does(op, MakeCopy(Now, v, w), StandsAs(v, w))
    PROVE  ValuesInv'
<1>1. PICK m \in Meanings : m = meant[w] BY NowIsStorage
<1>2. /\ m # Nothing /\ Now.obj[v] = Gone /\ Now \in Storage /\ kind \in Kinds
      /\ obj[w].sel = m[1] /\ obj[w].live = MemberOf(m[1]) /\ obj[w].data = m[2]
  BY <1>1, GoneLemma, NowIsStorage
<1>3. ReadAt(Now, w, MemberOf(obj[w].sel)) = Now BY <1>2, NowIsStorage, ReadLemma
<1>4. MakeCopy(Now, v, w) = Make(Now, v, m[1], m[2]) BY <1>2, <1>3 DEF MakeCopy, Content
<1>5. PutsObject(Now, Make(Now, v, m[1], m[2]), v, m[1], MemberOf(m[1]), m[2]) BY <1>2, MakeLemma
<1>6. Does(op, Make(Now, v, m[1], m[2]), [meant EXCEPT ![v] = m]) BY <1>1, <1>4 DEF StandsAs
<1> QED BY <1>5, <1>6, DoesPuts

\* What a move does to its source, and what the source stands for then.
LEMMA MoveOutLemma ==
    ASSUME ObjectsFine, NEW w \in Objects, Usable(w)
    PROVE  LET m == meant[w]
               u == MoveOut(Now, w, MemberOf(obj[w].sel))
               stays == Trivial \/ MemberOf(m[1]) = "none"
           IN  /\ stays => u = Now
               /\ ~stays => /\ PutsObject(Now, u, w, m[1], MemberOf(m[1]), Moved)
                            /\ <<m[1], Moved>> \in Meanings
                            /\ m[1] \notin {"none", "gone"} /\ MemberOf(m[1]) = m[1]
               /\ \A v \in Objects : v # w =>
                     MovedAway(v, w) = IF stays THEN [meant EXCEPT ![v] = m]
                                       ELSE [[meant EXCEPT ![w] = <<m[1], Moved>>] EXCEPT ![v] = m]
<1>1. /\ Now \in Storage /\ Now.obj = obj /\ kind \in Kinds /\ meant[w] \in Meanings
      /\ obj[w].sel = meant[w][1] /\ obj[w].live = MemberOf(meant[w][1])
      /\ DOMAIN meant = Objects
  BY NowIsStorage
<1>2. PICK m \in Meanings : m = meant[w] BY <1>1
<1>3. ~(Trivial \/ MemberOf(m[1]) = "none") =>
         <<m[1], Moved>> \in Meanings /\ m[1] \notin {"none", "gone"} /\ MemberOf(m[1]) = m[1]
  BY <1>1, MeaningLemma DEF Meanings
<1>4. ASSUME NEW v \in Objects, v # w
      PROVE  MovedAway(v, w) = IF Trivial \/ MemberOf(m[1]) = "none" THEN [meant EXCEPT ![v] = m]
                               ELSE [[meant EXCEPT ![w] = <<m[1], Moved>>] EXCEPT ![v] = m]
  BY <1>1, <1>2, <1>4 DEF MovedAway
<1> QED BY <1>1, <1>2, <1>3, <1>4, ReadLemma

LEMMA MoveOutElsewhere ==
    ASSUME ObjectsFine, NEW w \in Objects, Usable(w), NEW v \in Objects, v # w
    PROVE  LET u == MoveOut(Now, w, MemberOf(obj[w].sel)) IN u \in Storage /\ u.obj[v] = obj[v]
<1>1. PICK u : u = MoveOut(Now, w, MemberOf(obj[w].sel)) OBVIOUS
<1>2. PICK m : m = meant[w] OBVIOUS
<1>3. CASE Trivial \/ MemberOf(m[1]) = "none" BY <1>1, <1>2, <1>3, MoveOutLemma, NowIsStorage
<1>4. CASE ~(Trivial \/ MemberOf(m[1]) = "none")
  <2>1. PutsObject(Now, u, w, m[1], MemberOf(m[1]), Moved) BY <1>1, <1>2, <1>4, MoveOutLemma
  <2> QED BY <1>1, <2>1, NowIsStorage DEF PutsObject
<1> QED BY <1>1, <1>3, <1>4

\* Two objects that stand for something else now.
LEMMA TwoChange ==
    ASSUME ObjectsFine, kind' = kind, fault' = {}, asked'[2] = asked'[3],
           NEW v \in Objects, NEW w \in Objects, v # w, NEW m \in Meanings, NEW n \in Meanings,
           obj' = [[obj EXCEPT ![w] = Shape(n)] EXCEPT ![v] = Shape(m)],
           meant' = [[meant EXCEPT ![w] = n] EXCEPT ![v] = m]
    PROVE  ValuesInv'
<1>1. Meanings' = Meanings /\ \A x : Shape(x)' = Shape(x)
  BY DEF Meanings, Shape, MemberOf, PayloadTags, HasEmpty
<1>2. ObjectsMean' BY <1>1, NowIsStorage DEF ObjectsMean
<1>3. /\ Shape(m) \in Object /\ m \in Tag \X Payload
      /\ Shape(n) \in Object /\ n \in Tag \X Payload
  BY MeaningLemma, NowIsStorage
<1>4. ValuesTypeOK'
  BY <1>3 DEF ObjectsFine, ValuesInv, ValuesTypeOK, Object, Payload
<1> QED BY <1>2, <1>4 DEF ValuesInv

\* An operation makes v out of w, which is moved from first.
LEMMA MovedPuts ==
    ASSUME ObjectsFine, NEW op, NEW v \in Objects, NEW w \in Objects, v # w, Usable(w), NEW u,
           PutsObject(MoveOut(Now, w, MemberOf(obj[w].sel)), u, v, meant[w][1], MemberOf(meant[w][1]), meant[w][2]),
           Does(op, u, MovedAway(v, w))
    PROVE  ValuesInv'
<1>1. PICK m \in Meanings : m = meant[w] BY NowIsStorage
<1>2. PICK x : x = MoveOut(Now, w, MemberOf(obj[w].sel)) OBVIOUS
<1>3. u.event = x.event /\ u.obj = [x.obj EXCEPT ![v] = Shape(m)] BY <1>1, <1>2 DEF PutsObject, Shape
<1>4. CASE Trivial \/ MemberOf(m[1]) = "none"
  <2>1. x = Now /\ MovedAway(v, w) = [meant EXCEPT ![v] = m] BY <1>1, <1>2, <1>4, MoveOutLemma
  <2>2. Does(op, u, [meant EXCEPT ![v] = m]) BY <2>1
  <2>3. u.event = {} /\ u.obj = [obj EXCEPT ![v] = Shape(m)] BY <1>3, <2>1, NowIsStorage
  <2> QED BY <2>2, <2>3, DoesOne
<1>5. CASE ~(Trivial \/ MemberOf(m[1]) = "none")
  <2> DEFINE n == <<m[1], Moved>>
  <2>1. /\ PutsObject(Now, x, w, m[1], MemberOf(m[1]), Moved) /\ n \in Meanings
        /\ MovedAway(v, w) = [[meant EXCEPT ![w] = n] EXCEPT ![v] = m]
    BY <1>1, <1>2, <1>5, MoveOutLemma
  <2>2. x.event = {} /\ x.obj = [obj EXCEPT ![w] = Shape(n)] BY <2>1, NowIsStorage DEF PutsObject, Shape
  <2>3. /\ kind' = kind /\ fault' = {} /\ asked'[2] = asked'[3]
        /\ obj' = [[obj EXCEPT ![w] = Shape(n)] EXCEPT ![v] = Shape(m)]
        /\ meant' = [[meant EXCEPT ![w] = n] EXCEPT ![v] = m]
    BY <1>3, <2>1, <2>2 DEF Does, NoQuestion
  <2> HIDE DEF n
  <2> QED BY <2>1, <2>3, TwoChange
<1> QED BY <1>4, <1>5

LEMMA MovedStep ==
    ASSUME ObjectsFine, NEW v \in Objects, NEW w \in Objects, MovedInto(v, w)
    PROVE  ValuesInv'
<1>1. PICK m \in Meanings : m = meant[w] BY NowIsStorage
<1>2. PICK x : x = MoveOut(Now, w, MemberOf(obj[w].sel)) OBVIOUS
<1>3. /\ v # w /\ m # Nothing /\ Usable(w) /\ Now.obj[v] = Gone /\ Now \in Storage /\ kind \in Kinds
      /\ obj[w].sel = m[1] /\ obj[w].data = m[2]
  BY <1>1, GoneLemma, NowIsStorage DEF MovedInto
<1>4. x \in Storage /\ x.obj[v] = Gone
  BY <1>1, <1>2, <1>3, MoveOutLemma, NowIsStorage DEF PutsObject
<1>5. PutsObject(x, Make(x, v, m[1], m[2]), v, m[1], MemberOf(m[1]), m[2]) BY <1>3, <1>4, MakeLemma
<1>6. Does("move", Make(x, v, m[1], m[2]), MovedAway(v, w))
  BY <1>1, <1>2, <1>3 DEF MovedInto, MakeMoved, Content
<1> QED BY <1>1, <1>2, <1>3, <1>5, <1>6, MovedPuts

LEMMA CopyAndMoveSteps ==
    ASSUME ObjectsFine, NEW v \in Objects, NEW w \in Objects,
           \/ NewCopyOf(v, w) \/ NewMoveOf(v, w)
           \/ NewCopyOfReference(v, w) \/ NewMoveOfReference(v, w)
           \/ NewCopyOfVariant(v, w) \/ NewMoveOfVariant(v, w)
    PROVE  ValuesInv'
<1>1. Copied(v, w) \/ MovedInto(v, w)
  BY DEF NewCopyOf, NewMoveOf, NewCopyOfReference, NewMoveOfReference, NewCopyOfVariant, NewMoveOfVariant
<1> QED BY <1>1, CopiedStep, MovedStep DEF Copied

LEMMA BoxSteps ==
    ASSUME ObjectsFine, NEW v \in Objects,
           (\E d \in Data \cup {NoData} : NewBox(v, d)) \/ (\E w \in Objects : NewMoveOfBox(v, w))
    PROVE  ValuesInv'
<1>1. ASSUME NEW d \in Data \cup {NoData}, NewBox(v, d) PROVE ValuesInv'
  <2> DEFINE sel == IF d = NoData THEN "none" ELSE "val"
             m == <<sel, d>>
  <2>1. m \in Meanings /\ m # Nothing BY <1>1 DEF Meanings, HasEmpty, PayloadTags, NewBox, Is, Nothing
  <2>2. Now.obj[v] = Gone /\ Now \in Storage /\ kind \in Kinds BY <1>1, GoneLemma, NowIsStorage DEF NewBox
  <2>3. PutsObject(Now, Make(Now, v, m[1], m[2]), v, m[1], MemberOf(m[1]), m[2]) BY <2>1, <2>2, MakeLemma
  <2>4. Does("new", Make(Now, v, m[1], m[2]), [meant EXCEPT ![v] = m]) BY <1>1 DEF NewBox, Stands
  <2> HIDE DEF m
  <2> QED BY <2>1, <2>3, <2>4, DoesPuts
<1>2. ASSUME NEW w \in Objects, NewMoveOfBox(v, w) PROVE ValuesInv'
  <2> DEFINE n == <<"none", NoData>>
  <2>1. PICK m \in Meanings : m = meant[w] /\ obj[w] = Shape(m) BY NowIsStorage
  <2>2. v # w BY <1>2, GoneLemma DEF NewMoveOfBox
  <2>3. n \in Meanings BY <1>2 DEF Meanings, HasEmpty, NewMoveOfBox, Is
  <2>4. Shape(n) = [Gone EXCEPT !.sel = "none"] BY DEF Shape, Gone, MemberOf
  <2>5. PICK x : x = [obj EXCEPT ![v] = obj[w], ![w] = [Gone EXCEPT !.sel = "none"]] OBVIOUS
  <2>6. [Now EXCEPT !.obj[v] = obj[w], !.obj[w] = [Gone EXCEPT !.sel = "none"]] = [obj |-> x, event |-> {}]
    <3>1. PICK g : g = [Gone EXCEPT !.sel = "none"] OBVIOUS
    <3>2. PICK y : y = [obj EXCEPT ![v] = obj[w]] OBVIOUS
    <3>3. PICK p : p = [Now EXCEPT !.obj[v] = obj[w]] OBVIOUS
    <3>4. p = [obj |-> y, event |-> {}] BY <3>2, <3>3 DEF Now
    <3>5. [p EXCEPT !.obj[w] = g] = [obj |-> [y EXCEPT ![w] = g], event |-> {}] BY <3>4
    <3> QED BY <2>5, <3>1, <3>2, <3>3, <3>5
  <2>7. x = [[obj EXCEPT ![w] = Shape(n)] EXCEPT ![v] = Shape(m)] BY <2>1, <2>2, <2>4, <2>5, NowIsStorage
  <2>8. [meant EXCEPT ![v] = meant[w], ![w] = n] = [[meant EXCEPT ![w] = n] EXCEPT ![v] = m]
    BY <2>1, <2>2, NowIsStorage
  <2>9. Does("move", [obj |-> x, event |-> {}], [[meant EXCEPT ![w] = n] EXCEPT ![v] = m])
    BY <1>2, <2>6, <2>8 DEF NewMoveOfBox
  <2>10. /\ kind' = kind /\ fault' = {} /\ asked'[2] = asked'[3] /\ obj' = x
         /\ meant' = [[meant EXCEPT ![w] = n] EXCEPT ![v] = m]
    BY <2>9 DEF Does, NoQuestion
  <2> HIDE DEF n
  <2> QED BY <2>2, <2>3, <2>7, <2>10, TwoChange
<1> QED BY <1>1, <1>2

\* A destructor destroys the member that lives, if one does.
LEMMA DeleteSteps ==
    ASSUME ObjectsFine, NEW v \in Objects, Delete(v) \/ DeleteVariant(v) \/ DeleteBox(v)
    PROVE  ValuesInv'
<1>1. Does("delete", [Drop(Now, v) EXCEPT !.obj[v] = Gone], [meant EXCEPT ![v] = Nothing])
  BY DEF Delete, DeleteVariant, DeleteBox, Destroyed
<1>2. PICK m \in Meanings : m = meant[v] /\ Now.obj[v] = Shape(m) BY NowIsStorage
<1>3. PICK u : u = Drop(Now, v) OBVIOUS
<1>4. u \in Storage /\ u.event = {} /\ \A w \in Objects : w # v => u.obj[w] = obj[w]
  <2>1. CASE MemberOf(m[1]) = "none" BY <1>2, <1>3, <2>1, DropLemma, NowIsStorage
  <2>2. CASE MemberOf(m[1]) # "none"
    <3>1. PutsObject(Now, u, v, m[1], "none", NoData) BY <1>2, <1>3, <2>2, DropLemma, NowIsStorage
    <3> QED BY <3>1, NowIsStorage DEF PutsObject
  <2> QED BY <2>1, <2>2
<1>5. [u EXCEPT !.obj[v] = Gone] = [obj |-> [u.obj EXCEPT ![v] = Gone], event |-> {}]
  BY <1>4 DEF Storage
<1>6. [u.obj EXCEPT ![v] = Gone] = [obj EXCEPT ![v] = Gone] BY <1>4, NowIsStorage DEF Storage
<1>7. Gone = Shape(Nothing) /\ Nothing \in Meanings BY DEF Gone, Shape, Nothing, MemberOf, Meanings
<1>8. Does("delete", [obj |-> [obj EXCEPT ![v] = Shape(Nothing)], event |-> {}], [meant EXCEPT ![v] = Nothing])
  BY <1>1, <1>3, <1>5, <1>6, <1>7
<1> HIDE DEF Nothing
<1> QED BY <1>7, <1>8, DoesOne

-----------------------------------------------------------------------------
(* Assignments.                                                            *)

\* The object is copied as it is.
LEMMA AssignTrivialStep ==
    ASSUME ObjectsFine, NEW v \in Objects, NEW w \in Objects, AssignTrivial(v, w)
    PROVE  ValuesInv'
<1>1. PICK m \in Meanings : m = meant[w] /\ obj[w] = Shape(m) BY NowIsStorage
<1>2. [Now EXCEPT !.obj[v] = obj[w]] = [obj |-> [obj EXCEPT ![v] = Shape(m)], event |-> {}]
  <2>1. PICK q, o : q = Shape(m) /\ o = obj[w] OBVIOUS
  <2>2. o = q BY <1>1, <2>1
  <2>3. [Now EXCEPT !.obj[v] = q] = [obj |-> [obj EXCEPT ![v] = q], event |-> {}] BY DEF Now
  <2> QED BY <2>1, <2>2, <2>3
<1>3. Does("assign", [obj |-> [obj EXCEPT ![v] = Shape(m)], event |-> {}], [meant EXCEPT ![v] = m])
  BY <1>1, <1>2 DEF AssignTrivial, StandsAs
<1> QED BY <1>3, DoesOne

\* result: whatever v held is assigned or destroyed, and w's member is there with its tag.
LEMMA AssignResultLemma ==
    ASSUME NEW u \in Storage, NEW v \in Objects, NEW w \in Objects, ObjectsFine, Is("result"),
           ~IsGone(v), ~IsGone(w), u.obj[v] = obj[v]
    PROVE  PutsObject(u, AssignResult(u, v, w), v, meant[w][1], MemberOf(meant[w][1]), meant[w][2])
<1>1. PICK m \in Meanings, n \in Meanings :
          /\ m = meant[v] /\ obj[v].sel = m[1] /\ obj[v].live = MemberOf(m[1])
          /\ n = meant[w] /\ obj[w].sel = n[1] /\ obj[w].data = n[2]
  BY NowIsStorage
<1>2. /\ m[1] \in {"val", "err"} /\ n[1] \in {"val", "err"} /\ n[2] \in Payload
      /\ MemberOf(m[1]) = m[1] /\ MemberOf(n[1]) = n[1]
  BY <1>1, MeaningLemma, NowIsStorage DEF IsGone, Is, PayloadTags, HasEmpty, MemberOf
<1>3. PICK x : x = AssignMember(u, v, w) OBVIOUS
<1>4. \E s : PutsObject(u, x, v, s, n[1], n[2])
  <2>1. CASE m[1] = n[1]
    <3>1. x = AssignAt(u, v, u.obj[v].live, n[2]) BY <1>1, <1>2, <1>3, <2>1 DEF AssignMember, Content
    <3> QED BY <1>1, <1>2, <2>1, <3>1, AssignLemma
  <2>2. CASE m[1] # n[1]
    <3>1. PICK y : y = DestroyAt(u, v, u.obj[v].live) OBVIOUS
    <3>2. PutsObject(u, y, v, m[1], "none", NoData) BY <1>1, <3>1, DestroyLemma
    <3>3. y \in Storage /\ y.obj[v].sel = m[1] /\ y.obj[v].live = "none" BY <3>2 DEF PutsObject, Storage
    <3>4. x = ConstructAt(y, v, n[1], n[2]) BY <1>1, <1>2, <1>3, <2>2, <3>1 DEF AssignMember, Content
    <3>5. PutsObject(y, x, v, m[1], n[1], n[2]) BY <1>2, <3>3, <3>4, ConstructLemma DEF Live
    <3> QED BY <3>2, <3>5, TwoPuts
  <2> QED BY <2>1, <2>2
<1>5. AssignResult(u, v, w) = SetTag(x, v, n[1]) BY <1>1, <1>3 DEF AssignResult
<1> QED BY <1>1, <1>2, <1>4, <1>5, TagLemma DEF Tag

\* result<T&, E>: the pointer beside the union is set, or the error is.
LEMMA AssignReferenceLemma ==
    ASSUME NEW u \in Storage, NEW v \in Objects, NEW w \in Objects, ObjectsFine, Is("result&"),
           ~IsGone(v), ~IsGone(w), u.obj[v] = obj[v]
    PROVE  PutsObject(u, AssignReference(u, v, w), v, meant[w][1], MemberOf(meant[w][1]), meant[w][2])
<1>1. PICK m \in Meanings, n \in Meanings :
          /\ m = meant[v] /\ obj[v].sel = m[1] /\ obj[v].live = MemberOf(m[1])
          /\ n = meant[w] /\ obj[w].sel = n[1] /\ obj[w].data = n[2]
  BY NowIsStorage
<1>2. /\ m[1] \in {"val", "err"} /\ n[1] \in {"val", "err"} /\ n[2] \in Payload
      /\ MemberOf("err") = "err" /\ MemberOf("val") = "none"
  BY <1>1, MeaningLemma, NowIsStorage DEF IsGone, Is, PayloadTags, HasEmpty, MemberOf
<1>3. ASSUME m[1] = "val", n[1] = "val"
      PROVE  PutsObject(u, AssignReference(u, v, w), v, n[1], MemberOf(n[1]), n[2])
  <2>1. AssignReference(u, v, w) = SetTag(PointAt(u, v, n[2]), v, n[1])
    BY <1>1, <1>3 DEF AssignReference, Content
  <2>2. PutsObject(u, PointAt(u, v, n[2]), v, m[1], "none", n[2]) BY <1>1, <1>2, <1>3, FieldLemma DEF PointAt
  <2> QED BY <1>2, <1>3, <2>1, <2>2, TagLemma DEF Tag
<1>4. ASSUME m[1] = "val", n[1] = "err"
      PROVE  PutsObject(u, AssignReference(u, v, w), v, n[1], MemberOf(n[1]), n[2])
  <2>1. AssignReference(u, v, w) = SetTag(ConstructAt(u, v, "err", n[2]), v, n[1])
    BY <1>1, <1>4 DEF AssignReference, Content
  <2>2. PutsObject(u, ConstructAt(u, v, "err", n[2]), v, m[1], "err", n[2])
    BY <1>1, <1>2, <1>4, ConstructLemma DEF Live
  <2> QED BY <1>2, <1>4, <2>1, <2>2, TagLemma DEF Tag
<1>5. ASSUME m[1] = "err", n[1] = "val"
      PROVE  PutsObject(u, AssignReference(u, v, w), v, n[1], MemberOf(n[1]), n[2])
  <2>1. PICK y : y = DestroyAt(u, v, u.obj[v].live) OBVIOUS
  <2>2. PutsObject(u, y, v, m[1], "none", NoData) BY <1>1, <2>1, DestroyLemma
  <2>3. y \in Storage /\ y.obj[v].sel = m[1] /\ y.obj[v].live = "none" BY <2>2 DEF PutsObject, Storage
  <2>4. AssignReference(u, v, w) = SetTag(PointAt(y, v, n[2]), v, n[1])
    BY <1>1, <1>2, <1>5, <2>1 DEF AssignReference, Content
  <2>5. PutsObject(y, PointAt(y, v, n[2]), v, m[1], "none", n[2]) BY <1>2, <2>3, FieldLemma DEF PointAt
  <2>6. PutsObject(u, PointAt(y, v, n[2]), v, m[1], "none", n[2]) BY <2>2, <2>5, TwoPuts
  <2> QED BY <1>2, <1>5, <2>4, <2>6, TagLemma DEF Tag
<1>6. ASSUME m[1] = "err", n[1] = "err"
      PROVE  PutsObject(u, AssignReference(u, v, w), v, n[1], MemberOf(n[1]), n[2])
  <2>1. AssignReference(u, v, w) = SetTag(AssignAt(u, v, u.obj[v].live, n[2]), v, n[1])
    BY <1>1, <1>2, <1>6 DEF AssignReference, Content
  <2>2. PutsObject(u, AssignAt(u, v, u.obj[v].live, n[2]), v, m[1], "err", n[2])
    BY <1>1, <1>2, <1>6, AssignLemma
  <2> QED BY <1>2, <1>6, <2>1, <2>2, TagLemma DEF Tag
<1> QED BY <1>1, <1>2, <1>3, <1>4, <1>5, <1>6

LEMMA ResultAssigned ==
    ASSUME ObjectsFine, NEW v \in Objects, NEW w \in Objects, CopyAssignResult(v, w) \/ MoveAssignResult(v, w)
    PROVE  ValuesInv'
<1>0. Is("result") /\ ~IsGone(v) /\ ~IsGone(w) /\ Usable(w)
  BY DEF CopyAssignResult, MoveAssignResult, Usable
<1>1. PICK m \in Meanings : m = meant[w] /\ obj[w].sel = m[1] /\ obj[w].live = MemberOf(m[1])
  BY NowIsStorage
<1>2. obj[w].sel = MemberOf(obj[w].sel)
  BY <1>0, <1>1, MeaningLemma, NowIsStorage DEF IsGone, Is, PayloadTags, HasEmpty, MemberOf
<1>3. CASE CopyAssignResult(v, w)
  <2>1. ReadAt(Now, w, obj[w].sel) = Now BY <1>1, <1>2, ReadLemma, NowIsStorage
  <2>2. PutsObject(Now, AssignResult(Now, v, w), v, m[1], MemberOf(m[1]), m[2])
    BY <1>0, <1>1, AssignResultLemma, NowIsStorage
  <2>3. Does("assign", AssignResult(Now, v, w), [meant EXCEPT ![v] = m])
    BY <1>1, <1>3, <2>1 DEF CopyAssignResult, StandsAs
  <2> QED BY <2>2, <2>3, DoesPuts
<1>4. CASE MoveAssignResult(v, w)
  <2>1. PICK x : x = MoveOut(Now, w, MemberOf(obj[w].sel)) OBVIOUS
  <2>2. v # w BY <1>4 DEF MoveAssignResult
  <2>3. x \in Storage /\ x.obj[v] = obj[v] BY <1>0, <2>1, <2>2, MoveOutElsewhere
  <2>4. PutsObject(x, AssignResult(x, v, w), v, m[1], MemberOf(m[1]), m[2])
    BY <1>0, <1>1, <2>3, AssignResultLemma
  <2>5. Does("assign", AssignResult(x, v, w), MovedAway(v, w))
    BY <1>2, <1>4, <2>1 DEF MoveAssignResult
  <2> QED BY <1>0, <1>1, <2>1, <2>2, <2>4, <2>5, MovedPuts
<1> QED BY <1>3, <1>4

LEMMA ReferenceAssigned ==
    ASSUME ObjectsFine, NEW v \in Objects, NEW w \in Objects, CopyAssignReference(v, w) \/ MoveAssignReference(v, w)
    PROVE  ValuesInv'
<1>0. Is("result&") /\ ~IsGone(v) /\ ~IsGone(w) /\ Usable(w)
  BY DEF CopyAssignReference, MoveAssignReference, Usable
<1>1. PICK m \in Meanings : m = meant[w] /\ obj[w].sel = m[1] /\ obj[w].live = MemberOf(m[1])
  BY NowIsStorage
<1>2. ReadAt(Now, w, MemberOf(obj[w].sel)) = Now BY <1>1, ReadLemma, NowIsStorage
<1>3. MemberOf("err") = "err" BY <1>0 DEF MemberOf, Is
<1>4. ASSUME Does("assign", AssignReference(Now, v, w), StandsAs(v, w)) PROVE ValuesInv'
  <2>1. PutsObject(Now, AssignReference(Now, v, w), v, m[1], MemberOf(m[1]), m[2])
    BY <1>0, <1>1, AssignReferenceLemma, NowIsStorage
  <2>2. Does("assign", AssignReference(Now, v, w), [meant EXCEPT ![v] = m]) BY <1>1, <1>4 DEF StandsAs
  <2> QED BY <2>1, <2>2, DoesPuts
<1>5. CASE CopyAssignReference(v, w) BY <1>2, <1>4, <1>5 DEF CopyAssignReference
<1>6. CASE MoveAssignReference(v, w)
  <2>1. CASE obj[v].sel = "err" /\ obj[w].sel = "err"
    BY <1>2, <1>3, <1>4, <1>6, <2>1 DEF MoveAssignReference
  <2>2. CASE ~(obj[v].sel = "err" /\ obj[w].sel = "err")
    <3>1. PICK x : x = MoveOut(Now, w, MemberOf(obj[w].sel)) OBVIOUS
    <3>2. v # w BY <1>6 DEF MoveAssignReference
    <3>3. x \in Storage /\ x.obj[v] = obj[v] BY <1>0, <3>1, <3>2, MoveOutElsewhere
    <3>4. PutsObject(x, AssignReference(x, v, w), v, m[1], MemberOf(m[1]), m[2])
      BY <1>0, <1>1, <3>3, AssignReferenceLemma
    <3>5. Does("assign", AssignReference(x, v, w), MovedAway(v, w))
      BY <1>6, <2>2, <3>1 DEF MoveAssignReference
    <3> QED BY <1>0, <1>1, <3>1, <3>2, <3>4, <3>5, MovedPuts
  <2> QED BY <2>1, <2>2
<1> QED BY <1>5, <1>6

\* A variant whose storage is empty, or trivial, gets an alternative.
LEMMA MakeAlternative ==
    ASSUME NEW u \in Storage, NEW v \in Objects, NEW i \in Tags.variant, NEW d \in Payload, Is("variant"),
           Trivial \/ u.obj[v].live = "none"
    PROVE  PutsObject(u, Make(u, v, i, d), v, i, i, d)
<1>1. i # "none" /\ MemberOf(i) = i /\ i \in Tag /\ i \in Live BY DEF Tags, MemberOf, Is, Tag, Live
<1>2. PutsObject(u, ConstructAt(u, v, i, d), v, u.obj[v].sel, i, d) BY <1>1, ConstructLemma
<1>3. Make(u, v, i, d) = SetTag(ConstructAt(u, v, i, d), v, i) BY <1>1 DEF Make
<1> QED BY <1>1, <1>2, <1>3, TagLemma

\* It destroys itself: then nothing lives in its storage.
LEMMA DropVariant ==
    ASSUME ObjectsFine, NEW v \in Objects, Is("variant"), ~IsGone(v)
    PROVE  /\ PutsObject(Now, Drop(Now, v), v, meant[v][1], "none", NoData)
           /\ meant[v][1] \in Tags.variant /\ meant[v][2] \in Data \cup {Moved}
           /\ \A i \in Tags.variant : MemberOf(i) = i
<1>1. PICK m \in Meanings : m = meant[v] /\ Now.obj[v] = Shape(m) /\ obj[v].sel = m[1] BY NowIsStorage
<1>2. m[1] \in Tags.variant /\ m[2] \in Data \cup {Moved}
  BY <1>1, MeaningLemma, NowIsStorage DEF IsGone, Is, PayloadTags, HasEmpty, Tags
<1>3. \A i \in Tags.variant : MemberOf(i) = i /\ i # "none" BY DEF Tags, MemberOf, Is
<1> QED BY <1>1, <1>2, <1>3, DropLemma, NowIsStorage

LEMMA VariantCopied ==
    ASSUME ObjectsFine, NEW v \in Objects, NEW w \in Objects, CopyAssignVariant(v, w)
    PROVE  ValuesInv'
<1>0. Is("variant") /\ ~IsGone(v) /\ ~IsGone(w) BY DEF CopyAssignVariant, Usable
<1>1. PICK m \in Meanings : m = meant[w] /\ obj[w].sel = m[1] /\ obj[w].live = MemberOf(m[1]) /\ obj[w].data = m[2]
  BY NowIsStorage
<1>2. m[1] \in Tags.variant /\ m[2] \in Payload /\ MemberOf(m[1]) = m[1]
  BY <1>0, <1>1, DropVariant DEF Payload
<1>3. CASE v = w
  <2>0. StandsAs(v, w) = meant BY <1>3 DEF StandsAs, ObjectsFine, ValuesInv, ValuesTypeOK
  <2>1. Does("assign", Now, meant) BY <1>3, <2>0 DEF CopyAssignVariant
  <2> QED BY <2>1, NoneChanges, NowIsStorage DEF Does, NoQuestion
<1>4. CASE v # w
  <2>1. PICK u : u = Drop(Now, v) OBVIOUS
  <2>2. PutsObject(Now, u, v, meant[v][1], "none", NoData) BY <1>0, <2>1, DropVariant
  <2>3. u \in Storage /\ u.obj[w] = obj[w] /\ u.obj[v].live = "none" BY <1>4, <2>2, NowIsStorage DEF PutsObject
  <2>4. MakeCopy(u, v, w) = Make(u, v, m[1], m[2]) BY <1>1, <2>3, ReadLemma DEF MakeCopy, Content
  <2>5. PutsObject(u, Make(u, v, m[1], m[2]), v, m[1], m[1], m[2]) BY <1>0, <1>2, <2>3, MakeAlternative
  <2>6. PutsObject(Now, Make(u, v, m[1], m[2]), v, m[1], m[1], m[2]) BY <2>2, <2>5, TwoPuts, NowIsStorage
  <2>7. Does("assign", Make(u, v, m[1], m[2]), [meant EXCEPT ![v] = m])
    BY <1>1, <1>4, <2>1, <2>4 DEF CopyAssignVariant, StandsAs
  <2> QED BY <1>2, <2>6, <2>7, DoesPuts
<1> QED BY <1>3, <1>4

LEMMA VariantMoved ==
    ASSUME ObjectsFine, NEW v \in Objects, NEW w \in Objects, MoveAssignVariant(v, w)
    PROVE  ValuesInv'
<1>0. Is("variant") /\ ~Trivial /\ ~IsGone(v) /\ ~IsGone(w) /\ Usable(w) BY DEF MoveAssignVariant, Usable
<1>1. PICK m \in Meanings : m = meant[w] /\ obj[w].sel = m[1] /\ obj[w].live = MemberOf(m[1]) /\ obj[w].data = m[2]
  BY NowIsStorage
<1>2. m[1] \in Tags.variant /\ m[2] \in Payload /\ MemberOf(m[1]) = m[1] /\ m[1] # "none"
  BY <1>0, <1>1, DropVariant DEF Payload, Tags
<1>3. CASE v = w
  <2>1. Does("assign", Now, meant) BY <1>3 DEF MoveAssignVariant
  <2> QED BY <2>1, NoneChanges, NowIsStorage DEF Does, NoQuestion
<1>4. CASE v # w
  <2> DEFINE n == <<m[1], Moved>>
  <2>1. PICK u : u = Drop(Now, v) OBVIOUS
  <2>2. PutsObject(Now, u, v, meant[v][1], "none", NoData) BY <1>0, <2>1, DropVariant
  <2>3. u \in Storage /\ u.obj[w] = obj[w] /\ u.obj[v].live = "none" BY <1>4, <2>2, NowIsStorage DEF PutsObject
  <2>4. PICK x : x = MoveOut(u, w, m[1]) OBVIOUS
  <2>5. PutsObject(u, x, w, m[1], m[1], Moved) BY <1>0, <1>1, <1>2, <2>3, <2>4, ReadLemma
  <2>6. x \in Storage /\ x.obj[v].live = "none" BY <1>4, <2>3, <2>5 DEF PutsObject
  <2>7. PICK y : y = Make(x, v, m[1], m[2]) OBVIOUS
  <2>8. PutsObject(x, y, v, m[1], m[1], m[2]) BY <1>0, <1>2, <2>6, <2>7, MakeAlternative
  <2>9. n \in Meanings /\ MovedAway(v, w) = [[meant EXCEPT ![w] = n] EXCEPT ![v] = m]
    BY <1>0, <1>1, <1>2, <1>4, MoveOutLemma
  <2>10. y = MakeMoved(Drop(Now, v), v, w) BY <1>1, <1>2, <2>1, <2>4, <2>7 DEF MakeMoved, Content
  <2>11. Does("assign", y, [[meant EXCEPT ![w] = n] EXCEPT ![v] = m])
    BY <1>4, <2>9, <2>10 DEF MoveAssignVariant
  <2>12. Shape(m) = [sel |-> m[1], live |-> m[1], data |-> m[2]]
         /\ Shape(n) = [sel |-> m[1], live |-> m[1], data |-> Moved]
    BY <1>2 DEF Shape
  <2>13. y.event = {} /\ y.obj = [[obj EXCEPT ![w] = Shape(n)] EXCEPT ![v] = Shape(m)]
    <3>1. /\ y.event = x.event /\ x.event = u.event /\ u.event = {}
          /\ y.obj = [x.obj EXCEPT ![v] = Shape(m)]
      BY <2>2, <2>5, <2>8, <2>12, NowIsStorage DEF PutsObject
    <3>2. x.obj = [u.obj EXCEPT ![w] = Shape(n)] BY <2>5, <2>12 DEF PutsObject
    <3>3. /\ obj \in [Objects -> Object] /\ u.obj \in [Objects -> Object]
          /\ \A z \in Objects : z # v => u.obj[z] = obj[z]
      BY <2>2, NowIsStorage DEF PutsObject, Storage
    <3> HIDE DEF n
    <3>4. PICK a : a = [obj EXCEPT ![w] = Shape(n)] OBVIOUS
    <3>5. DOMAIN a = Objects /\ DOMAIN x.obj = Objects BY <3>2, <3>3, <3>4
    <3>6. \A z \in Objects : z # v => x.obj[z] = a[z] BY <3>2, <3>3, <3>4
    <3>7. [x.obj EXCEPT ![v] = Shape(m)] = [a EXCEPT ![v] = Shape(m)] BY <3>5, <3>6
    <3> QED BY <3>1, <3>4, <3>7
  <2>14. /\ kind' = kind /\ fault' = {} /\ asked'[2] = asked'[3]
         /\ obj' = [[obj EXCEPT ![w] = Shape(n)] EXCEPT ![v] = Shape(m)]
         /\ meant' = [[meant EXCEPT ![w] = n] EXCEPT ![v] = m]
    BY <2>11, <2>13 DEF Does, NoQuestion
  <2> HIDE DEF n
  <2> QED BY <1>4, <2>9, <2>14, TwoChange
<1> QED BY <1>3, <1>4

\* An alternative is made in place of the old one; out of the old one itself only if that
\* was trivial, otherwise it is gone when it is read.
LEMMA EmplaceSteps ==
    ASSUME ObjectsFine, NEW v \in Objects, NEW i \in Live,
           (\E d \in Data : Emplace(v, i, d)) \/ EmplaceOwn(v, i)
    PROVE  ValuesInv'
<1>0. Is("variant") /\ ~IsGone(v) /\ i \in Tags.variant BY DEF Emplace, EmplaceOwn, Usable
<1>1. PICK m : m = meant[v] /\ obj[v].sel = m[1] /\ obj[v].live = MemberOf(m[1]) /\ obj[v].data = m[2]
  BY NowIsStorage
<1>2. /\ m[1] \in Tags.variant /\ m[2] \in Data \cup {Moved} /\ MemberOf(m[1]) = m[1] /\ MemberOf(i) = i
      /\ m[1] \in Live /\ m[1] # "none"
  BY <1>0, <1>1, DropVariant DEF Tags, Live
<1>3. \A d \in Data \cup {Moved} : <<i, d>> \in Meanings BY <1>0 DEF Meanings, PayloadTags, Tags, Is
<1>4. PICK u : u = Drop(Now, v) OBVIOUS
<1>5. PutsObject(Now, u, v, m[1], "none", NoData) BY <1>0, <1>1, <1>4, DropVariant
<1>6. u \in Storage /\ u.obj[v].live = "none" /\ u.event = {} BY <1>5, NowIsStorage DEF PutsObject
<1>7. ASSUME NEW d \in Data, Emplace(v, i, d) PROVE ValuesInv'
  <2> DEFINE n == <<i, d>>
  <2>1. PutsObject(u, Make(u, v, n[1], n[2]), v, i, i, d)
    BY <1>0, <1>6, MakeAlternative DEF Payload
  <2>2. PutsObject(Now, Make(u, v, n[1], n[2]), v, n[1], MemberOf(n[1]), n[2])
    BY <1>2, <1>5, <2>1, TwoPuts, NowIsStorage
  <2>3. Does("emplace", Make(u, v, n[1], n[2]), [meant EXCEPT ![v] = n]) BY <1>4, <1>7 DEF Emplace, Stands
  <2>4. n \in Meanings BY <1>3
  <2> HIDE DEF n
  <2> QED BY <2>2, <2>3, <2>4, DoesPuts
<1>8. CASE EmplaceOwn(v, i) /\ Trivial
  <2> DEFINE n == <<i, m[2]>>
  <2>1. ReadAt(Now, v, m[1]) = Now BY <1>1, <1>2, ReadLemma, NowIsStorage
  <2>2. PutsObject(Now, Make(Now, v, i, m[2]), v, i, i, m[2])
    BY <1>0, <1>2, <1>8, MakeAlternative, NowIsStorage DEF Payload
  <2>3. Does("emplace own", Make(Now, v, i, m[2]), [meant EXCEPT ![v] = n])
    BY <1>1, <1>8, <2>1 DEF EmplaceOwn, Stands, Content
  <2>4. n \in Meanings BY <1>2, <1>3
  <2>5. PutsObject(Now, Make(Now, v, i, m[2]), v, n[1], MemberOf(n[1]), n[2]) BY <1>2, <2>2
  <2> HIDE DEF n
  <2> QED BY <2>3, <2>4, <2>5, DoesPuts
<1>9. CASE EmplaceOwn(v, i) /\ ~Trivial
  <2> DEFINE n == <<i, m[2]>>
  <2>1. PICK x : x = ReadAt(u, v, m[1]) OBVIOUS
  <2>2. x \in Storage /\ x.obj = u.obj /\ x.event = {"wrong member"}
    BY <1>2, <1>6, <2>1, FlagLemma DEF ReadAt, Events
  <2>3. PICK y : y = Make(x, v, i, m[2]) OBVIOUS
  <2>4. PutsObject(x, y, v, i, i, m[2]) BY <1>0, <1>2, <1>6, <2>2, <2>3, MakeAlternative DEF Payload
  <2>5. y \in Storage /\ y.event = {"wrong member"} BY <2>2, <2>4 DEF PutsObject
  <2>6. Does("emplace own", y, [meant EXCEPT ![v] = n])
    BY <1>1, <1>4, <1>9, <2>1, <2>3 DEF EmplaceOwn, Stands, Content
  <2>7. n \in Tag \X Payload BY <1>0, <1>2 DEF Tags, Tag, Payload
  <2>8. fault' = {<<"emplace own", "wrong member">>} /\ kind' = kind /\ obj' = y.obj /\ meant' = [meant EXCEPT ![v] = n]
    BY <2>5, <2>6, ProductLemma DEF Does
  <2> HIDE DEF n
  <2> QED BY <2>5, <2>7, <2>8, WrongEnds DEF Exempt
<1> QED BY <1>7, <1>8, <1>9

-----------------------------------------------------------------------------
(* Questions.                                                              *)

\* An answer changes no object; it is right, or wrong in a way the code is.
LEMMA AnswerStep ==
    ASSUME ObjectsFine, NEW op, NEW u, NEW given, NEW right, Answers(op, u, given, right),
           u.obj = obj, {op} \X u.event \subseteq Exempt, u.event = {} => given = right
    PROVE  ValuesInv'
<1>1. UNCHANGED <<kind, obj, meant>> /\ fault' = {op} \X u.event /\ asked' = <<op, given, right>>
  BY DEF Answers
<1>2. fault' = {} => u.event = {} BY <1>1, ProductLemma
<1>3. fault' = {} => asked'[2] = asked'[3] BY <1>1, <1>2
<1> QED BY <1>1, <1>3, NoneChanges

\* What lives is read, and that is no event.
LEMMA ReadsFine ==
    ASSUME ObjectsFine, NEW v \in Objects
    PROVE  ReadAt(Now, v, MemberOf(obj[v].sel)) = Now
BY ReadLemma, NowIsStorage

LEMMA GetStep ==
    ASSUME ObjectsFine, NEW v \in Objects, NEW sel, Get(v, sel)
    PROVE  ValuesInv'
<1>1. CASE obj[v].sel # sel
  <2>1. PICK u : u = Flag2(Now, TRUE, "panic") OBVIOUS
  <2>2. u.obj = obj /\ u.event = {"panic"} BY <2>1, FlagLemma, NowIsStorage DEF Events
  <2>3. Answers("get", u, "panic", IF meant[v][1] # sel THEN "panic" ELSE meant[v][2])
    BY <1>1, <2>1 DEF Get
  <2>4. {"get"} \X u.event \subseteq Exempt BY <2>2 DEF Exempt
  <2> QED BY <2>2, <2>3, <2>4, AnswerStep
<1>2. CASE obj[v].sel = sel
  <2>1. Answers("get", Now, Content(v), meant[v][2]) BY <1>2, ReadsFine DEF Get
  <2>2. Content(v) = meant[v][2] BY NowIsStorage DEF Content
  <2> QED BY <2>1, <2>2, AnswerStep, NowIsStorage
<1> QED BY <1>1, <1>2

LEMMA GetSteps ==
    ASSUME ObjectsFine, NEW v \in Objects,
           \/ GetOption(v) \/ GetOptionReference(v) \/ GetBox(v)
           \/ \E sel \in Live : GetResult(v, sel) \/ GetReference(v, sel)
    PROVE  ValuesInv'
BY GetStep DEF GetOption, GetOptionReference, GetBox, GetResult, GetReference

\* The payload, or what the caller gives instead.
LEMMA GetOrStep ==
    ASSUME ObjectsFine, NEW v \in Objects, NEW sel, NEW d, NEW rvalue \in BOOLEAN, GetOr(v, sel, d, rvalue)
    PROVE  ValuesInv'
<1>1. PICK m \in Meanings : /\ m = meant[v] /\ obj[v].sel = m[1] /\ obj[v].data = m[2]
                            /\ obj[v].live = MemberOf(m[1])
  BY NowIsStorage
<1>2. CASE m[1] # sel
  <2>1. Answers("get or", Now, d, d) BY <1>1, <1>2 DEF GetOr
  <2> QED BY <2>1, AnswerStep, NowIsStorage
<1>3. CASE m[1] = sel /\ ~(rvalue /\ ~Trivial /\ MemberOf(sel) # "none")
  <2>1. MoveOut(Now, v, MemberOf(sel)) = Now \/ ~rvalue BY <1>1, <1>3, ReadLemma, NowIsStorage
  <2>2. ReadAt(Now, v, MemberOf(sel)) = Now BY <1>1, <1>3, ReadsFine
  <2>3. /\ obj' = Now.obj /\ fault' = {"get or"} \X Now.event
        /\ asked' = <<"get or", Content(v), meant[v][2]>> /\ UNCHANGED <<kind, meant>>
    BY <1>1, <1>3, <2>1, <2>2 DEF GetOr
  <2>4. fault' = {} /\ obj' = obj /\ asked'[2] = asked'[3] BY <1>1, <2>3, NowIsStorage DEF Content
  <2> QED BY <2>3, <2>4, NoneChanges
<1>4. CASE m[1] = sel /\ rvalue /\ ~Trivial /\ MemberOf(sel) # "none"
  <2> DEFINE n == <<m[1], Moved>>
  <2>1. PICK u : u = MoveOut(Now, v, MemberOf(obj[v].sel)) OBVIOUS
  <2>2. PutsObject(Now, u, v, m[1], MemberOf(m[1]), Moved) /\ n \in Meanings
    BY <1>1, <1>4, <2>1, MoveOutLemma DEF GetOr
  <2>3. u.event = {} /\ u.obj = [obj EXCEPT ![v] = Shape(n)] BY <2>2, NowIsStorage DEF PutsObject, Shape
  <2>4. [meant EXCEPT ![v][2] = Moved] = [meant EXCEPT ![v] = n]
    <3>1. meant[v] = <<m[1], m[2]>> BY <1>1, MeaningLemma, NowIsStorage
    <3>2. [<<m[1], m[2]>> EXCEPT ![2] = Moved] = n OBVIOUS
    <3> QED BY <3>1, <3>2
  <2>5. /\ obj' = u.obj /\ fault' = {"get or"} \X u.event
        /\ asked' = <<"get or", Content(v), meant[v][2]>> /\ kind' = kind
        /\ meant' = [meant EXCEPT ![v][2] = Moved]
    BY <1>1, <1>4, <2>1 DEF GetOr
  <2>6. fault' = {} /\ asked'[2] = asked'[3] /\ obj' = [obj EXCEPT ![v] = Shape(n)] /\ meant' = [meant EXCEPT ![v] = n]
    BY <1>1, <2>3, <2>4, <2>5 DEF Content
  <2> HIDE DEF n
  <2> QED BY <2>2, <2>5, <2>6, OneObjectChanges
<1> QED BY <1>2, <1>3, <1>4

LEMMA GetOrSteps ==
    ASSUME ObjectsFine, NEW v \in Objects, NEW sel \in Live, NEW d \in Data,
           \/ ValOrOptionReference(v, d)
           \/ \E rvalue \in BOOLEAN : ValOrOption(v, d, rvalue) \/ OrResult(v, sel, d, rvalue) \/ OrReference(v, sel, d, rvalue)
    PROVE  ValuesInv'
BY GetOrStep DEF ValOrOptionReference, ValOrOption, OrResult, OrReference

\* Both have a value, an error or nothing, and equal payloads.
LEMMA EqualSteps ==
    ASSUME ObjectsFine, NEW v \in Objects, NEW w \in Objects,
           EqualOption(v, w) \/ EqualResult(v, w) \/ EqualReference(v, w)
    PROVE  ValuesInv'
<1>1. PICK m \in Meanings, n \in Meanings :
          /\ m = meant[v] /\ obj[v].sel = m[1] /\ obj[v].data = m[2] /\ obj[v].live = MemberOf(m[1])
          /\ n = meant[w] /\ obj[w].sel = n[1] /\ obj[w].data = n[2] /\ obj[w].live = MemberOf(n[1])
  BY NowIsStorage
<1>2. /\ m = <<m[1], m[2]>> /\ n = <<n[1], n[2]>> /\ m[1] # "gone" /\ n[1] # "gone"
      /\ m[1] = "none" => m[2] = NoData
      /\ n[1] = "none" => n[2] = NoData
  BY <1>1, MeaningLemma, NowIsStorage DEF EqualOption, EqualResult, EqualReference, Equal, Usable, IsGone
<1>3. m = n <=> m[1] = n[1] /\ m[2] = n[2] BY <1>2
<1>4. CASE EqualOption(v, w) \/ EqualResult(v, w)
  <2>1. \A s : s # "none" /\ s # "gone" => MemberOf(s) = s BY <1>4 DEF EqualOption, EqualResult, Is, MemberOf
  <2>2. m[1] = n[1] /\ m[1] # "none" => ReadAt(ReadAt(Now, v, m[1]), w, m[1]) = Now
    BY <1>1, <1>2, <2>1, ReadsFine
  <2>3. PICK given : given = (m[1] = n[1] /\ (m[1] = "none" \/ m[2] = n[2])) OBVIOUS
  <2>4. given = (meant[v] = meant[w]) BY <1>1, <1>2, <1>3, <2>3
  <2>5. Answers("==", Now, given, meant[v] = meant[w])
    BY <1>1, <1>4, <2>2, <2>3 DEF EqualOption, EqualResult, Equal, Content
  <2> QED BY <2>4, <2>5, AnswerStep, NowIsStorage
<1>5. CASE EqualReference(v, w)
  <2>1. /\ MemberOf("err") = "err" /\ MemberOf("val") = "none"
        /\ m[1] \in {"val", "err"} /\ n[1] \in {"val", "err"}
    BY <1>2, <1>5, MeaningLemma, NowIsStorage DEF EqualReference, Is, MemberOf, PayloadTags, HasEmpty
  <2>2. PICK given : given = (((m[1] = "val" /\ n[1] = "val") \/ m[1] = "err") /\ m[2] = n[2]) OBVIOUS
  <2>3. CASE m[1] = "val" \/ n[1] = "err"
    <3>1. m[1] = "err" => ReadAt(ReadAt(Now, v, "err"), w, "err") = Now BY <1>1, <2>1, <2>3, ReadsFine
    <3>2. given = (meant[v] = meant[w]) BY <1>1, <1>3, <2>1, <2>2, <2>3
    <3>3. Answers("== of references", Now, given, meant[v] = meant[w])
      BY <1>1, <1>5, <2>1, <2>2, <2>3, <3>1 DEF EqualReference, Content
    <3> QED BY <3>2, <3>3, AnswerStep, NowIsStorage
  <2>4. CASE m[1] = "err" /\ n[1] = "val"
    <3>1. PICK u : u = ReadAt(Now, w, "err") OBVIOUS
    <3>2. ReadAt(ReadAt(Now, v, "err"), w, "err") = u BY <1>1, <2>1, <2>4, <3>1, ReadsFine
    <3>3. u.obj = obj /\ u.event = {"wrong member"}
      BY <1>1, <2>1, <2>4, <3>1, FlagLemma, NowIsStorage DEF ReadAt, Events
    <3>4. Answers("== of references", u, given, meant[v] = meant[w])
      BY <1>1, <1>5, <2>2, <2>4, <3>2 DEF EqualReference, Content
    <3>5. {"== of references"} \X u.event \subseteq Exempt
      <4>1. {"== of references"} \X u.event = {<<"== of references", "wrong member">>} BY <3>3, ProductLemma
      <4> QED BY <4>1 DEF Exempt
    <3> QED BY <3>3, <3>4, <3>5, AnswerStep
  <2> QED BY <2>1, <2>3, <2>4
<1> QED BY <1>4, <1>5

LEMMA GetIfStep ==
    ASSUME ObjectsFine, NEW v \in Objects, NEW i, GetIf(v, i)
    PROVE  ValuesInv'
<1>1. /\ Is("variant") /\ ~IsGone(v) /\ i \in Tags.variant /\ obj[v].sel = meant[v][1] /\ Content(v) = meant[v][2]
      /\ Now.obj = obj /\ Now.event = {}
  BY NowIsStorage DEF GetIf, Usable, Content
<1>2. MemberOf(i) = i BY <1>1, DropVariant
<1>3. CASE obj[v].sel = i
  <2>1. Answers("get if", Now, meant[v][2], meant[v][2]) BY <1>1, <1>2, <1>3, ReadsFine DEF GetIf
  <2> QED BY <1>1, <2>1, AnswerStep
<1>4. CASE obj[v].sel # i
  <2>1. Answers("get if", Now, "null", "null") BY <1>1, <1>4 DEF GetIf
  <2> QED BY <1>1, <2>1, AnswerStep
<1> QED BY <1>3, <1>4

LEMMA VisitStep ==
    ASSUME ObjectsFine, NEW v \in Objects, Visit(v)
    PROVE  ValuesInv'
<1>1. /\ Is("variant") /\ ~IsGone(v) /\ obj[v].sel = meant[v][1] /\ Content(v) = meant[v][2]
      /\ Now.obj = obj /\ Now.event = {} /\ meant[v] \in Meanings /\ kind \in Kinds
  BY NowIsStorage DEF Visit, Usable, Content
<1>2. MemberOf(obj[v].sel) = obj[v].sel BY <1>1, DropVariant
<1>3. Reads(v) = meant[v] BY <1>1, MeaningLemma DEF Reads
<1>4. Answers("visit", Now, Reads(v), meant[v]) BY <1>2, ReadsFine DEF Visit
<1> QED BY <1>1, <1>3, <1>4, AnswerStep

-----------------------------------------------------------------------------
(* The functions that make an object from another.                         *)

LEMMA ApplyStep ==
    ASSUME ObjectsFine, NEW v \in Objects, NEW w \in Objects, NEW op, NEW on \in PayloadTags, NEW to \in PayloadTags,
           NEW f \in Changes, Apply(op, v, w, on, to, f)
    PROVE  ValuesInv'
<1>1. PICK m \in Meanings : /\ m = meant[w] /\ obj[w].sel = m[1] /\ obj[w].data = m[2]
                            /\ obj[w].live = MemberOf(m[1]) /\ m[2] # Moved /\ m # Nothing
  BY GoneLemma, NowIsStorage DEF Apply
<1>2. CASE m[1] = on
  <2>1. on \notin {"none", "gone"} BY DEF PayloadTags
  <2>2. m[2] \in Data BY <1>1, <1>2, <2>1, MeaningLemma, NowIsStorage
  <2>3. f[m[2]] \in Data BY <2>2, ValuesAssumption
  <2> DEFINE n == <<to, f[m[2]]>>
  <2>4. n \in Meanings /\ n # Nothing BY <2>3 DEF Meanings, Nothing, PayloadTags
  <2>5. Now.obj[v] = Gone /\ Now \in Storage /\ kind \in Kinds BY GoneLemma, NowIsStorage DEF Apply
  <2>6. PutsObject(Now, Make(Now, v, n[1], n[2]), v, n[1], MemberOf(n[1]), n[2]) BY <2>4, <2>5, MakeLemma
  <2>7. ReadAt(Now, w, MemberOf(on)) = Now BY <1>1, <1>2, ReadsFine
  <2>8. Does(op, Make(Now, v, n[1], n[2]), [meant EXCEPT ![v] = n])
    BY <1>1, <1>2, <2>2, <2>7 DEF Apply, Content, Stands
  <2> HIDE DEF n
  <2> QED BY <2>4, <2>6, <2>8, DoesPuts
<1>3. CASE m[1] # on
  BY <1>1, <1>3, CopiedStep DEF Apply
<1> QED BY <1>2, <1>3

LEMMA ApplySteps ==
    ASSUME ObjectsFine, NEW v \in Objects, NEW w \in Objects, NEW f \in Changes,
           \/ AndThenOption(v, w, f) \/ AndThenOptionReference(v, w, f) \/ TransformErrReference(v, w, f)
           \/ \E to \in Tags.result :
                 \/ AndThen(v, w, to, f) \/ AndThenReference(v, w, to, f)
                 \/ OrElse(v, w, to, f) \/ OrElseReference(v, w, to, f)
    PROVE  ValuesInv'
<1>1. CASE AndThenOption(v, w, f) \/ AndThenOptionReference(v, w, f)
  <2>1. "val" \in PayloadTags BY <1>1 DEF AndThenOption, AndThenOptionReference, Is, PayloadTags
  <2> QED BY <1>1, <2>1, ApplyStep DEF AndThenOption, AndThenOptionReference
<1>2. CASE TransformErrReference(v, w, f)
  <2>1. "err" \in PayloadTags BY <1>2 DEF TransformErrReference, Is, PayloadTags
  <2> QED BY <1>2, <2>1, ApplyStep DEF TransformErrReference
<1>3. ASSUME NEW to \in Tags.result, \/ AndThen(v, w, to, f) \/ AndThenReference(v, w, to, f)
                                     \/ OrElse(v, w, to, f) \/ OrElseReference(v, w, to, f)
      PROVE  ValuesInv'
  <2>1. "val" \in PayloadTags /\ "err" \in PayloadTags /\ to \in PayloadTags
    BY <1>3 DEF AndThen, AndThenReference, OrElse, OrElseReference, Is, PayloadTags, Tags
  <2> QED BY <1>3, <2>1, ApplyStep DEF AndThen, AndThenReference, OrElse, OrElseReference
<1> QED BY <1>1, <1>2, <1>3

LEMMA OrElseOptionStep ==
    ASSUME ObjectsFine, NEW v \in Objects, NEW w \in Objects, NEW d \in Data, OrElseOption(v, w, d)
    PROVE  ValuesInv'
<1>1. CASE obj[w].sel = "none"
  <2> DEFINE n == <<"val", d>>
  <2>1. n \in Meanings /\ n # Nothing BY DEF OrElseOption, Is, Meanings, PayloadTags, Nothing
  <2>2. Now.obj[v] = Gone /\ Now \in Storage /\ kind \in Kinds BY GoneLemma, NowIsStorage DEF OrElseOption
  <2>3. PutsObject(Now, Make(Now, v, n[1], n[2]), v, n[1], MemberOf(n[1]), n[2]) BY <2>1, <2>2, MakeLemma
  <2>4. Does("or else", Make(Now, v, n[1], n[2]), [meant EXCEPT ![v] = n])
    BY <1>1 DEF OrElseOption, Stands
  <2> HIDE DEF n
  <2> QED BY <2>1, <2>3, <2>4, DoesPuts
<1>2. CASE obj[w].sel # "none" BY <1>2, CopiedStep DEF OrElseOption
<1> QED BY <1>1, <1>2

\* A value is made from the result, and is not the old one unless that was One.
LEMMA TransformErrStep ==
    ASSUME ObjectsFine, NEW v \in Objects, NEW w \in Objects, NEW f \in Changes, TransformErr(v, w, f)
    PROVE  ValuesInv'
<1>0. "err" \in PayloadTags /\ "val" \in PayloadTags BY DEF TransformErr, Is, PayloadTags
<1>1. CASE obj[w].sel = "err" BY <1>0, <1>1, ApplyStep DEF TransformErr
<1>2. CASE obj[w].sel # "err"
  <2> DEFINE n == <<"val", One>>
  <2>1. n \in Meanings /\ n # Nothing /\ n \in Tag \X Payload
    BY <1>0, ValuesAssumption DEF Meanings, Nothing, Tag, Payload
  <2>2. Now.obj[v] = Gone /\ Now \in Storage /\ kind \in Kinds BY GoneLemma, NowIsStorage DEF TransformErr
  <2>3. PICK u : u = Make(Now, v, n[1], n[2]) OBVIOUS
  <2>4. PutsObject(Now, u, v, n[1], MemberOf(n[1]), n[2]) BY <2>1, <2>2, <2>3, MakeLemma
  <2>5. u \in Storage /\ u.event = {} BY <2>4, NowIsStorage DEF PutsObject
  <2>6. Does("transform err", Flag2(u, Content(w) # One, "changed"), [meant EXCEPT ![v] = n])
    BY <1>2, <2>3 DEF TransformErr, Stands
  <2>7. CASE Content(w) = One
    <3>1. Does("transform err", u, [meant EXCEPT ![v] = n]) BY <2>6, <2>7 DEF Flag2
    <3> HIDE DEF n
    <3> QED BY <2>1, <2>4, <3>1, DoesPuts
  <2>8. CASE Content(w) # One
    <3>1. PICK x : x = Flag2(u, Content(w) # One, "changed") OBVIOUS
    <3>2. x \in Storage /\ x.event = {"changed"} BY <2>5, <2>8, <3>1, FlagLemma DEF Events
    <3>3. /\ fault' = {<<"transform err", "changed">>} /\ kind' = kind /\ obj' = x.obj
          /\ meant' = [meant EXCEPT ![v] = n]
      BY <2>6, <3>1, <3>2, ProductLemma DEF Does
    <3> HIDE DEF n
    <3> QED BY <2>1, <3>2, <3>3, WrongEnds DEF Exempt
  <2> QED BY <2>7, <2>8
<1> QED BY <1>1, <1>2

\* The error is moved into a new result.
LEMMA PropagateStep ==
    ASSUME ObjectsFine, NEW v \in Objects, NEW w \in Objects, Propagate(v, w)
    PROVE  ValuesInv'
<1>1. PICK m \in Meanings : m = meant[w] /\ obj[w].sel = m[1] /\ obj[w].data = m[2] BY NowIsStorage
<1>2. /\ m[1] = "err" /\ MemberOf("err") = "err" /\ v # w /\ m # Nothing /\ Usable(w)
      /\ Now.obj[v] = Gone /\ obj[v] = Gone /\ kind \in Kinds
  BY <1>1, GoneLemma, NowIsStorage DEF Propagate, Is, MemberOf
<1>3. PICK x : x = MoveOut(Now, w, MemberOf(obj[w].sel)) OBVIOUS
<1>4. x \in Storage /\ x.obj[v] = Gone BY <1>2, <1>3, MoveOutElsewhere
<1>5. PutsObject(x, Make(x, v, m[1], m[2]), v, m[1], MemberOf(m[1]), m[2]) BY <1>2, <1>4, MakeLemma
<1>6. Does("propagate", Make(x, v, m[1], m[2]), MovedAway(v, w))
  BY <1>1, <1>2, <1>3 DEF Propagate, Content
<1> QED BY <1>1, <1>2, <1>3, <1>5, <1>6, MovedPuts

-----------------------------------------------------------------------------
(* What the runs check.                                                    *)

LEMMA ValuesStep == ValuesInv /\ [ValuesNext]_valuesVars => ValuesInv'
<1> SUFFICES ASSUME ValuesInv, [ValuesNext]_valuesVars PROVE ValuesInv'
  OBVIOUS
<1>1. CASE UNCHANGED valuesVars
  <2>1. UNCHANGED <<kind, obj, meant, fault, asked>> BY <1>1 DEF valuesVars
  <2>2. Meanings' = Meanings /\ \A x : Shape(x)' = Shape(x)
    BY <2>1 DEF Meanings, Shape, MemberOf, PayloadTags, HasEmpty
  <2> QED BY <2>1, <2>2 DEF ValuesInv, ValuesTypeOK, ObjectsMean
<1>2. CASE ValuesNext
  <2>1. ObjectsFine BY <1>2 DEF ValuesNext, ObjectsFine
  <2> QED
    BY <1>2, <2>1, NewSteps, CopyAndMoveSteps, BoxSteps, DeleteSteps, AssignTrivialStep, ResultAssigned,
       ReferenceAssigned, VariantCopied, VariantMoved, EmplaceSteps, GetSteps, GetOrSteps, EqualSteps,
       GetIfStep, VisitStep, ApplySteps, OrElseOptionStep, TransformErrStep, PropagateStep
    DEF ValuesNext
<1> QED BY <1>1, <1>2

\* Whatever objects there are and whatever is in them, the variables have their types.
THEOREM ValuesAreTyped == ValuesSpec => []ValuesTypeOK
<1>1. ValuesInv => ValuesTypeOK BY DEF ValuesInv
<1> QED BY InitMeans, ValuesStep, <1>1, PTL DEF ValuesSpec

\* The tag of an option, result, variant or box names the member that lives, which alone is
\* read and destroyed, and every question about it is answered right: for any number of objects,
\* any payloads and functions, until an assertion fails or one of three errors of the code is met.
THEOREM TagsTellTruth == ValuesSpec => []TagTellsTruth
<1>1. ValuesInv => TagTellsTruth
  <2> SUFFICES ASSUME ValuesInv PROVE TagTellsTruth OBVIOUS
  <2>1. fault \subseteq Exempt BY DEF ValuesInv
  <2>2. fault = {} => asked[2] = asked[3] BY DEF ValuesInv
  <2>3. ASSUME fault = {}, NEW v \in Objects
        PROVE  /\ obj[v].live = MemberOf(obj[v].sel)
               /\ obj[v].sel = meant[v][1]
               /\ obj[v].data = meant[v][2]
    <3>1. obj[v] = Shape(meant[v]) BY <2>3 DEF ValuesInv, ObjectsMean
    <3>2. obj[v].sel = meant[v][1] BY <3>1 DEF Shape
    <3>3. obj[v].live = MemberOf(meant[v][1]) BY <3>1 DEF Shape
    <3>4. obj[v].data = meant[v][2] BY <3>1 DEF Shape
    <3> QED BY <3>2, <3>3, <3>4
  <2> QED BY <2>1, <2>2, <2>3 DEF TagTellsTruth, Exempt
<1> QED BY InitMeans, ValuesStep, <1>1, PTL DEF ValuesSpec

-----------------------------------------------------------------------------
(* Intrusive lists.                                                        *)

-----------------------------------------------------------------------------
(* Sequences.                                                              *)

LEMMA JoinedIs ==
    ASSUME NEW S, NEW a \in Seq(S), NEW z \in Seq(S), NEW u, u = a \o z
    PROVE  /\ u \in Seq(S) /\ Len(u) = Len(a) + Len(z)
           /\ \A j \in 1..Len(a) : u[j] = a[j]
           /\ \A j \in 1..Len(z) : u[Len(a) + j] = z[j]
OBVIOUS

\* u is t with c as its ith; u is t without its ith.
Ins(S, t, i, c, u) ==
    /\ u \in Seq(S) /\ Len(u) = Len(t) + 1
    /\ \A j \in 1..Len(t) + 1 : u[j] = IF j < i THEN t[j] ELSE IF j = i THEN c ELSE t[j - 1]

Del(S, t, i, u) ==
    /\ u \in Seq(S) /\ Len(u) = Len(t) - 1
    /\ \A j \in 1..Len(t) - 1 : u[j] = IF j < i THEN t[j] ELSE t[j + 1]

LEMMA InsertAtIs ==
    ASSUME NEW S, NEW t \in Seq(S), NEW i \in 1..Len(t) + 1, NEW c \in S, NEW u, u = InsertAt(t, i, c)
    PROVE  Ins(S, t, i, c, u)
<1>1. PICK a, m, z : a = SubSeq(t, 1, i - 1) /\ m = <<c>> /\ z = SubSeq(t, i, Len(t)) OBVIOUS
<1>2. a \in Seq(S) /\ Len(a) = i - 1 /\ \A j \in 1..i - 1 : a[j] = t[j] BY <1>1
<1>3. z \in Seq(S) /\ Len(z) = Len(t) - i + 1 /\ \A j \in 1..Len(t) - i + 1 : z[j] = t[j + i - 1]
  BY <1>1
<1>4. m \in Seq(S) /\ Len(m) = 1 /\ m[1] = c BY <1>1
<1>5. PICK am : am = a \o m OBVIOUS
<1>6. am \in Seq(S) /\ Len(am) = i /\ (\A j \in 1..i - 1 : am[j] = t[j]) /\ am[i] = c
  <2>1. a \in Seq(S) /\ m \in Seq(S) /\ am = a \o m BY <1>2, <1>4, <1>5
  <2>2. /\ am \in Seq(S) /\ Len(am) = Len(a) + Len(m) /\ (\A j \in 1..Len(a) : am[j] = a[j])
        /\ \A j \in 1..Len(m) : am[Len(a) + j] = m[j]
    BY ONLY <2>1, JoinedIs
  <2>3. i \in Int /\ (i - 1) + 1 = i /\ 1 \in 1..1 OBVIOUS
  <2>4. Len(am) = i BY <1>2, <1>4, <2>2, <2>3
  <2>5. \A j \in 1..i - 1 : am[j] = t[j] BY <1>2, <2>2
  <2>6. am[i] = c
    <3>1. am[Len(a) + 1] = m[1] BY <1>4, <2>2, <2>3
    <3> QED BY <1>2, <1>4, <2>3, <3>1
  <2> QED BY <2>2, <2>4, <2>5, <2>6
<1>7. u = am \o z BY <1>1, <1>5 DEF InsertAt
<1>8. /\ u \in Seq(S) /\ Len(u) = Len(t) + 1 /\ (\A j \in 1..i : u[j] = am[j])
      /\ \A j \in 1..Len(t) - i + 1 : u[i + j] = z[j]
  <2>1. am \in Seq(S) /\ z \in Seq(S) /\ u = am \o z BY <1>3, <1>6, <1>7
  <2>2. /\ u \in Seq(S) /\ Len(u) = Len(am) + Len(z) /\ (\A j \in 1..Len(am) : u[j] = am[j])
        /\ \A j \in 1..Len(z) : u[Len(am) + j] = z[j]
    BY ONLY <2>1, JoinedIs
  <2>3. i \in Int /\ Len(t) \in Nat /\ i + (Len(t) - i + 1) = Len(t) + 1 OBVIOUS
  <2> QED BY <1>3, <1>6, <2>2, <2>3
<1>9. ASSUME NEW j \in 1..Len(t) + 1
      PROVE  u[j] = IF j < i THEN t[j] ELSE IF j = i THEN c ELSE t[j - 1]
  <2>1. CASE j < i
    <3>1. j \in 1..i /\ j \in 1..i - 1 BY <2>1
    <3>2. u[j] = t[j] BY <1>6, <1>8, <3>1
    <3> QED BY <2>1, <3>2
  <2>2. CASE j = i
    <3>1. j \in 1..i BY <2>2
    <3>2. u[j] = c BY <1>6, <1>8, <2>2, <3>1
    <3> QED BY <2>2, <3>2
  <2>3. CASE j > i
    <3>1. j - i \in 1..Len(t) - i + 1 /\ (j - i) + i - 1 = j - 1 /\ i + (j - i) = j BY <2>3
    <3>2. z[j - i] = t[j - 1] BY <1>3, <3>1
    <3>3. u[i + (j - i)] = z[j - i] BY <1>8, <3>1
    <3>4. u[j] = t[j - 1] BY <3>1, <3>2, <3>3
    <3> QED BY <2>3, <3>4
  <2> QED BY <2>1, <2>2, <2>3
<1> QED BY <1>8, <1>9 DEF Ins

LEMMA RemoveAtIs ==
    ASSUME NEW S, NEW t \in Seq(S), NEW i \in 1..Len(t), NEW u, u = RemoveAt(t, i)
    PROVE  /\ u \in Seq(S) /\ Len(u) = Len(t) - 1
           /\ \A j \in 1..Len(t) - 1 : u[j] = IF j < i THEN t[j] ELSE t[j + 1]
<1>1. PICK a, z : a = SubSeq(t, 1, i - 1) /\ z = SubSeq(t, i + 1, Len(t)) OBVIOUS
<1>2. a \in Seq(S) /\ Len(a) = i - 1 /\ \A j \in 1..i - 1 : a[j] = t[j] BY <1>1
<1>3. z \in Seq(S) /\ Len(z) = Len(t) - i /\ \A j \in 1..Len(t) - i : z[j] = t[j + i] BY <1>1
<1>4. u = a \o z BY <1>1 DEF RemoveAt
<1>5. /\ u \in Seq(S) /\ Len(u) = Len(a) + Len(z) /\ (\A j \in 1..Len(a) : u[j] = a[j])
      /\ \A j \in 1..Len(z) : u[Len(a) + j] = z[j]
  <2>1. a \in Seq(S) /\ z \in Seq(S) /\ u = a \o z BY <1>2, <1>3, <1>4
  <2> QED BY ONLY <2>1, JoinedIs
<1>6. i \in Int /\ Len(t) \in Nat OBVIOUS
<1>7. Len(u) = Len(t) - 1 BY <1>2, <1>3, <1>5, <1>6
<1>8. ASSUME NEW j \in 1..Len(t) - 1
      PROVE  u[j] = IF j < i THEN t[j] ELSE t[j + 1]
  <2>1. CASE j < i
    <3>1. j \in 1..i - 1 BY <2>1
    <3>2. u[j] = t[j] BY <1>2, <1>5, <3>1
    <3> QED BY <2>1, <3>2
  <2>2. CASE j >= i
    <3>1. j - i + 1 \in 1..Len(t) - i /\ (j - i + 1) + i = j + 1 /\ (i - 1) + (j - i + 1) = j BY <2>2
    <3>2. z[j - i + 1] = t[j + 1] BY <1>3, <3>1
    <3>3. u[Len(a) + (j - i + 1)] = z[j - i + 1] BY <1>3, <1>5, <3>1
    <3>4. u[j] = t[j + 1] BY <1>2, <3>1, <3>2, <3>3
    <3> QED BY <2>2, <3>4
  <2> QED BY <2>1, <2>2
<1> QED BY <1>5, <1>7, <1>8

LEMMA InsIs ==
    ASSUME NEW S, NEW t, t \in Seq(S), NEW i, i \in 1..Len(t) + 1, NEW c, c \in S
    PROVE  Ins(S, t, i, c, InsertAt(t, i, c))
<1>1. PICK u : u = InsertAt(t, i, c) OBVIOUS
<1>2. t \in Seq(S) /\ i \in 1..Len(t) + 1 /\ c \in S /\ u = InsertAt(t, i, c) BY <1>1
<1>4. Ins(S, t, i, c, u) BY ONLY <1>2, InsertAtIs
<1> QED BY <1>1, <1>4

LEMMA DelIs ==
    ASSUME NEW S, NEW t, t \in Seq(S), NEW i, i \in 1..Len(t)
    PROVE  Del(S, t, i, RemoveAt(t, i))
<1>1. PICK u : u = RemoveAt(t, i) OBVIOUS
<1>2. Del(S, t, i, u) BY <1>1, RemoveAtIs DEF Del
<1> QED BY <1>1, <1>2

LEMMA ReverseIs ==
    ASSUME NEW S, NEW t \in Seq(S), NEW u, u = Reverse(t)
    PROVE  u \in Seq(S) /\ Len(u) = Len(t) /\ \A j \in 1..Len(t) : u[j] = t[Len(t) + 1 - j]
<1>1. Len(t) \in Nat OBVIOUS
<1>2. u = [j \in 1..Len(t) |-> t[(Len(t) - j) + 1]] BY DEF Reverse
<1>3. \A j \in 1..Len(t) : Len(t) + 1 - j \in 1..Len(t) /\ (Len(t) - j) + 1 = Len(t) + 1 - j BY <1>1
<1>4. \A j \in 1..Len(t) : u[j] = t[Len(t) + 1 - j] BY <1>2, <1>3
<1>5. \A j \in 1..Len(t) : u[j] \in S BY <1>3, <1>4
<1>6. u \in [1..Len(t) -> S] BY <1>2, <1>5
<1> QED BY <1>1, <1>4, <1>6

\* Two sequences of the same length with the same elements.
LEMMA SameSeq ==
    ASSUME NEW S, NEW t \in Seq(S), NEW u \in Seq(S), Len(t) = Len(u), \A j \in 1..Len(t) : t[j] = u[j]
    PROVE  t = u
OBVIOUS

-----------------------------------------------------------------------------
(* One ring.                                                               *)

Nodes == Links \cup Rings

\* The ith node of l, which stands for q; l itself before the first and after the last.
Nth(l, q, i) == IF i \in 1..Len(q) THEN q[i] ELSE l

\* The nodes of q point to each other in turn.
Follows(n, p, l, q) ==
    \A i \in 0..Len(q) : n[Nth(l, q, i)] = Nth(l, q, i + 1) /\ p[Nth(l, q, i + 1)] = Nth(l, q, i)

Once(q) == \A i, j \in 1..Len(q) : q[i] = q[j] => i = j

Changed(n, new, x, a, y, b) ==
    /\ new \in [Nodes -> Nodes] /\ new[x] = a /\ new[y] = b
    /\ \A z \in Nodes \ {x, y} : new[z] = n[z]

LEMMA NthIs ==
    ASSUME NEW l, l \in Rings, NEW q, q \in Seq(Links)
    PROVE  /\ Nth(l, q, 0) = l /\ Nth(l, q, Len(q) + 1) = l /\ Len(q) \in Nat
           /\ \A i \in 1..Len(q) : Nth(l, q, i) = q[i] /\ q[i] \in Links /\ q[i] # l
           /\ \A i \in 0..Len(q) + 1 : Nth(l, q, i) \in Nodes
<1>1. Len(q) \in Nat /\ \A i \in 1..Len(q) : q[i] \in Links OBVIOUS
<1>2. \A i \in 1..Len(q) : Nth(l, q, i) = q[i] BY DEF Nth
<1>3. Nth(l, q, 0) = l /\ Nth(l, q, Len(q) + 1) = l BY <1>1 DEF Nth
<1>4. \A i \in 1..Len(q) : q[i] # l BY <1>1, ListsAssumption
<1>5. \A i \in 0..Len(q) + 1 : Nth(l, q, i) \in Nodes BY <1>1 DEF Nth, Nodes
<1> QED BY <1>1, <1>2, <1>3, <1>4, <1>5

LEMMA NthOnce ==
    ASSUME NEW l, l \in Rings, NEW q, q \in Seq(Links), Once(q)
    PROVE  /\ \A i, j \in 0..Len(q) : Nth(l, q, i) = Nth(l, q, j) => i = j
           /\ \A i, j \in 1..Len(q) + 1 : Nth(l, q, i) = Nth(l, q, j) => i = j
<1>1. /\ Nth(l, q, 0) = l /\ Nth(l, q, Len(q) + 1) = l /\ Len(q) \in Nat
      /\ \A i \in 1..Len(q) : Nth(l, q, i) = q[i] /\ q[i] \in Links /\ q[i] # l
  BY NthIs
<1>2. ASSUME NEW i \in 0..Len(q), NEW j \in 0..Len(q), Nth(l, q, i) = Nth(l, q, j) PROVE i = j
  <2>1. CASE i = 0 /\ j = 0 BY <2>1
  <2>2. CASE i = 0 /\ j # 0 BY <1>1, <1>2, <2>2
  <2>3. CASE i # 0 /\ j = 0 BY <1>1, <1>2, <2>3
  <2>4. CASE i # 0 /\ j # 0
    <3>1. i \in 1..Len(q) /\ j \in 1..Len(q) BY <1>1, <2>4
    <3>2. q[i] = q[j] BY <1>1, <1>2, <3>1
    <3> QED BY <3>1, <3>2 DEF Once
  <2> QED BY <2>1, <2>2, <2>3, <2>4
<1>3. ASSUME NEW i \in 1..Len(q) + 1, NEW j \in 1..Len(q) + 1, Nth(l, q, i) = Nth(l, q, j) PROVE i = j
  <2>1. CASE i = Len(q) + 1 /\ j = Len(q) + 1 BY <2>1
  <2>2. CASE i = Len(q) + 1 /\ j # Len(q) + 1
    <3>1. j \in 1..Len(q) BY <1>1, <2>2
    <3> QED BY <1>1, <1>3, <2>2, <3>1
  <2>3. CASE i # Len(q) + 1 /\ j = Len(q) + 1
    <3>1. i \in 1..Len(q) BY <1>1, <2>3
    <3> QED BY <1>1, <1>3, <2>3, <3>1
  <2>4. CASE i # Len(q) + 1 /\ j # Len(q) + 1
    <3>1. i \in 1..Len(q) /\ j \in 1..Len(q) BY <1>1, <2>4
    <3>2. q[i] = q[j] BY <1>1, <1>3, <3>1
    <3> QED BY <3>1, <3>2 DEF Once
  <2> QED BY <2>1, <2>2, <2>3, <2>4
<1> QED BY <1>2, <1>3

ShiftedOn(l, q, i, x, u) ==
    \A k \in 0..Len(q) + 2 :
        Nth(l, u, k) = IF k < i THEN Nth(l, q, k) ELSE IF k = i THEN x ELSE Nth(l, q, k - 1)

\* Where the nodes are when one more is put in as the ith.
LEMMA NthInserted ==
    ASSUME NEW l, l \in Rings, NEW q, q \in Seq(Links), NEW x, x \in Links,
           NEW i, i \in 1..Len(q) + 1, NEW u, Ins(Links, q, i, x, u)
    PROVE  ShiftedOn(l, q, i, x, u)
<1>1. /\ u \in Seq(Links) /\ Len(u) = Len(q) + 1
      /\ \A j \in 1..Len(q) + 1 : u[j] = IF j < i THEN q[j] ELSE IF j = i THEN x ELSE q[j - 1]
  BY DEF Ins
<1>2. Len(q) \in Nat OBVIOUS
<1> SUFFICES ASSUME NEW k \in 0..Len(q) + 2
             PROVE  Nth(l, u, k) = IF k < i THEN Nth(l, q, k) ELSE IF k = i THEN x ELSE Nth(l, q, k - 1)
    BY DEF ShiftedOn
<1>3. CASE k = 0 BY <1>1, <1>2, <1>3 DEF Nth
<1>4. CASE k = Len(q) + 2
  <2>1. k \notin 1..Len(u) /\ k - 1 \notin 1..Len(q) /\ ~(k < i) /\ k # i BY <1>1, <1>2, <1>4
  <2> QED BY <2>1 DEF Nth
<1>5. CASE k \in 1..Len(q) + 1
  <2>1. Nth(l, u, k) = u[k] BY <1>1, <1>5 DEF Nth
  <2>2. k < i => k \in 1..Len(q) BY <1>2, <1>5
  <2>3. k > i => k - 1 \in 1..Len(q) BY <1>2, <1>5
  <2>4. k < i => Nth(l, q, k) = q[k] BY <2>2 DEF Nth
  <2>5. k > i => Nth(l, q, k - 1) = q[k - 1] BY <2>3 DEF Nth
  <2> QED BY <1>1, <1>2, <1>5, <2>1, <2>4, <2>5
<1> QED BY <1>2, <1>3, <1>4, <1>5

LEMMA FollowsInserted ==
    ASSUME NEW l, l \in Rings, NEW q, q \in Seq(Links), Once(q), NEW x, x \in Links,
           \A j \in 1..Len(q) : q[j] # x, NEW i, i \in 1..Len(q) + 1,
           NEW n, NEW p, Follows(n, p, l, q), NEW u, Ins(Links, q, i, x, u),
           NEW n2, Changed(n, n2, x, Nth(l, q, i), Nth(l, q, i - 1), x),
           NEW p2, Changed(p, p2, x, Nth(l, q, i - 1), Nth(l, q, i), x)
    PROVE  Follows(n2, p2, l, u)
<1>1. PICK L : L = Len(q) OBVIOUS
<1>2. L \in Nat /\ i \in 1..L + 1 BY <1>1
<1>3. Len(u) = L + 1 BY <1>1 DEF Ins
<1>4. \A k \in 0..L + 2 : Nth(l, u, k) = IF k < i THEN Nth(l, q, k) ELSE IF k = i THEN x ELSE Nth(l, q, k - 1)
  <2>1. ShiftedOn(l, q, i, x, u) BY NthInserted
  <2> QED BY <1>1, <2>1 DEF ShiftedOn
<1>5. \A k \in 0..L + 1 : Nth(l, q, k) \in Nodes BY <1>1, NthIs
<1>6. \A k \in 0..L + 1 : Nth(l, q, k) # x
  <2> TAKE k \in 0..L + 1
  <2>1. CASE k \in 1..L
    <3>1. Nth(l, q, k) = q[k] BY <1>1, <2>1 DEF Nth
    <3> QED BY <1>1, <2>1, <3>1
  <2>2. CASE k \notin 1..L
    <3>1. Nth(l, q, k) = l BY <1>1, <2>2 DEF Nth
    <3> QED BY <3>1, ListsAssumption
  <2> QED BY <2>1, <2>2
<1>7. \A k, j \in 0..L : Nth(l, q, k) = Nth(l, q, j) => k = j BY <1>1, NthOnce
<1>8. \A k, j \in 1..L + 1 : Nth(l, q, k) = Nth(l, q, j) => k = j BY <1>1, NthOnce
<1>9. n2[x] = Nth(l, q, i) /\ n2[Nth(l, q, i - 1)] = x /\ \A z \in Nodes \ {x, Nth(l, q, i - 1)} : n2[z] = n[z]
  BY DEF Changed
<1>10. p2[x] = Nth(l, q, i - 1) /\ p2[Nth(l, q, i)] = x /\ \A z \in Nodes \ {x, Nth(l, q, i)} : p2[z] = p[z]
  BY DEF Changed
<1>11. \A k \in 0..L : n[Nth(l, q, k)] = Nth(l, q, k + 1) /\ p[Nth(l, q, k + 1)] = Nth(l, q, k) BY <1>1 DEF Follows
<1>12. ASSUME NEW k \in 0..L + 1 PROVE n2[Nth(l, u, k)] = Nth(l, u, k + 1)
  <2>1. k \in 0..L + 2 /\ k + 1 \in 0..L + 2 /\ k + 1 - 1 = k BY <1>2
  <2>2. CASE k < i - 1
    <3>1. Nth(l, u, k) = Nth(l, q, k) /\ Nth(l, u, k + 1) = Nth(l, q, k + 1) BY <1>2, <1>4, <2>1, <2>2
    <3>2. k \in 0..L /\ i - 1 \in 0..L /\ k # i - 1 /\ k \in 0..L + 1 BY <1>2, <2>2
    <3>3. Nth(l, q, k) \in Nodes \ {x, Nth(l, q, i - 1)} BY <1>5, <1>6, <1>7, <3>2
    <3>4. n2[Nth(l, q, k)] = n[Nth(l, q, k)] BY <1>9, <3>3
    <3> QED BY <1>11, <3>1, <3>2, <3>4
  <2>3. CASE k = i - 1
    <3>1. Nth(l, u, k) = Nth(l, q, i - 1) /\ Nth(l, u, k + 1) = x BY <1>2, <1>4, <2>1, <2>3
    <3> QED BY <1>9, <3>1
  <2>4. CASE k = i
    <3>1. Nth(l, u, k) = x /\ Nth(l, u, k + 1) = Nth(l, q, i) BY <1>2, <1>4, <2>1, <2>4
    <3> QED BY <1>9, <3>1
  <2>5. CASE k > i
    <3>1. Nth(l, u, k) = Nth(l, q, k - 1) /\ Nth(l, u, k + 1) = Nth(l, q, k) BY <1>2, <1>4, <2>1, <2>5
    <3>2. k - 1 \in 0..L /\ i - 1 \in 0..L /\ k - 1 # i - 1 /\ k - 1 \in 0..L + 1 /\ k - 1 + 1 = k BY <1>2, <2>5
    <3>3. Nth(l, q, k - 1) \in Nodes \ {x, Nth(l, q, i - 1)} BY <1>5, <1>6, <1>7, <3>2
    <3>4. n2[Nth(l, q, k - 1)] = n[Nth(l, q, k - 1)] BY <1>9, <3>3
    <3>5. n[Nth(l, q, k - 1)] = Nth(l, q, k - 1 + 1) BY <1>11, <3>2
    <3> QED BY <3>1, <3>2, <3>4, <3>5
  <2> QED BY <1>2, <2>2, <2>3, <2>4, <2>5
<1>13. ASSUME NEW k \in 0..L + 1 PROVE p2[Nth(l, u, k + 1)] = Nth(l, u, k)
  <2>1. k \in 0..L + 2 /\ k + 1 \in 0..L + 2 /\ k + 1 - 1 = k BY <1>2
  <2>2. CASE k < i - 1
    <3>1. Nth(l, u, k) = Nth(l, q, k) /\ Nth(l, u, k + 1) = Nth(l, q, k + 1) BY <1>2, <1>4, <2>1, <2>2
    <3>2. k \in 0..L /\ k + 1 \in 1..L + 1 /\ k + 1 # i /\ k + 1 \in 0..L + 1 BY <1>2, <2>2
    <3>3. Nth(l, q, k + 1) \in Nodes \ {x, Nth(l, q, i)} BY <1>2, <1>5, <1>6, <1>8, <3>2
    <3>4. p2[Nth(l, q, k + 1)] = p[Nth(l, q, k + 1)] BY <1>10, <3>3
    <3> QED BY <1>11, <3>1, <3>2, <3>4
  <2>3. CASE k = i - 1
    <3>1. Nth(l, u, k) = Nth(l, q, i - 1) /\ Nth(l, u, k + 1) = x BY <1>2, <1>4, <2>1, <2>3
    <3> QED BY <1>10, <3>1
  <2>4. CASE k = i
    <3>1. Nth(l, u, k) = x /\ Nth(l, u, k + 1) = Nth(l, q, i) BY <1>2, <1>4, <2>1, <2>4
    <3> QED BY <1>10, <3>1
  <2>5. CASE k > i
    <3>1. Nth(l, u, k) = Nth(l, q, k - 1) /\ Nth(l, u, k + 1) = Nth(l, q, k) BY <1>2, <1>4, <2>1, <2>5
    <3>2. k - 1 \in 0..L /\ k \in 1..L + 1 /\ k # i /\ k \in 0..L + 1 /\ k - 1 + 1 = k BY <1>2, <2>5
    <3>3. Nth(l, q, k) \in Nodes \ {x, Nth(l, q, i)} BY <1>2, <1>5, <1>6, <1>8, <3>2
    <3>4. p2[Nth(l, q, k)] = p[Nth(l, q, k)] BY <1>10, <3>3
    <3>5. p[Nth(l, q, k - 1 + 1)] = Nth(l, q, k - 1) BY <1>11, <3>2
    <3> QED BY <3>1, <3>2, <3>4, <3>5
  <2> QED BY <1>2, <2>2, <2>3, <2>4, <2>5
<1> QED BY <1>3, <1>12, <1>13 DEF Follows

ShiftedDown(l, q, i, u) ==
    \A k \in 0..Len(q) : Nth(l, u, k) = IF k < i THEN Nth(l, q, k) ELSE Nth(l, q, k + 1)

\* Where the nodes are when the ith is taken out.
LEMMA NthRemoved ==
    ASSUME NEW l, l \in Rings, NEW q, q \in Seq(Links), NEW i, i \in 1..Len(q), NEW u, Del(Links, q, i, u)
    PROVE  ShiftedDown(l, q, i, u)
<1>1. /\ u \in Seq(Links) /\ Len(u) = Len(q) - 1
      /\ \A j \in 1..Len(q) - 1 : u[j] = IF j < i THEN q[j] ELSE q[j + 1]
  BY DEF Del
<1>2. Len(q) \in Nat OBVIOUS
<1> SUFFICES ASSUME NEW k \in 0..Len(q)
             PROVE  Nth(l, u, k) = IF k < i THEN Nth(l, q, k) ELSE Nth(l, q, k + 1)
    BY DEF ShiftedDown
<1>3. CASE k = 0
  <2>1. k < i /\ k \notin 1..Len(u) /\ k \notin 1..Len(q) BY <1>2, <1>3
  <2> QED BY <2>1 DEF Nth
<1>4. CASE k = Len(q)
  <2>1. ~(k < i) /\ k \notin 1..Len(u) /\ k + 1 \notin 1..Len(q) BY <1>1, <1>2, <1>4
  <2> QED BY <2>1 DEF Nth
<1>5. CASE k \in 1..Len(q) - 1
  <2>1. Nth(l, u, k) = u[k] BY <1>1, <1>5 DEF Nth
  <2>2. k \in 1..Len(q) /\ k + 1 \in 1..Len(q) BY <1>2, <1>5
  <2>3. Nth(l, q, k) = q[k] /\ Nth(l, q, k + 1) = q[k + 1] BY <2>2 DEF Nth
  <2> QED BY <1>1, <1>5, <2>1, <2>3
<1> QED BY <1>2, <1>3, <1>4, <1>5

ChangedOne(n, new, y, b) ==
    /\ new \in [Nodes -> Nodes] /\ new[y] = b
    /\ \A z \in Nodes \ {y} : new[z] = n[z]

LEMMA FollowsRemoved ==
    ASSUME NEW l, l \in Rings, NEW q, q \in Seq(Links), Once(q), NEW i, i \in 1..Len(q),
           NEW n, NEW p, Follows(n, p, l, q), NEW u, Del(Links, q, i, u),
           NEW n2, ChangedOne(n, n2, Nth(l, q, i - 1), Nth(l, q, i + 1)),
           NEW p2, ChangedOne(p, p2, Nth(l, q, i + 1), Nth(l, q, i - 1))
    PROVE  Follows(n2, p2, l, u)
<1>1. PICK L : L = Len(q) OBVIOUS
<1>2. L \in Nat /\ i \in 1..L BY <1>1
<1>3. Len(u) = L - 1 BY <1>1 DEF Del
<1>4. \A k \in 0..L : Nth(l, u, k) = IF k < i THEN Nth(l, q, k) ELSE Nth(l, q, k + 1)
  <2>1. ShiftedDown(l, q, i, u) BY NthRemoved
  <2> QED BY <1>1, <2>1 DEF ShiftedDown
<1>5. \A k \in 0..L + 1 : Nth(l, q, k) \in Nodes BY <1>1, NthIs
<1>7. \A k, j \in 0..L : Nth(l, q, k) = Nth(l, q, j) => k = j BY <1>1, NthOnce
<1>8. \A k, j \in 1..L + 1 : Nth(l, q, k) = Nth(l, q, j) => k = j BY <1>1, NthOnce
<1>9. n2[Nth(l, q, i - 1)] = Nth(l, q, i + 1) /\ \A z \in Nodes \ {Nth(l, q, i - 1)} : n2[z] = n[z]
  BY DEF ChangedOne
<1>10. p2[Nth(l, q, i + 1)] = Nth(l, q, i - 1) /\ \A z \in Nodes \ {Nth(l, q, i + 1)} : p2[z] = p[z]
  BY DEF ChangedOne
<1>11. \A k \in 0..L : n[Nth(l, q, k)] = Nth(l, q, k + 1) /\ p[Nth(l, q, k + 1)] = Nth(l, q, k) BY <1>1 DEF Follows
<1>12. ASSUME NEW k \in 0..L - 1 PROVE n2[Nth(l, u, k)] = Nth(l, u, k + 1)
  <2>1. k \in 0..L /\ k + 1 \in 0..L BY <1>2
  <2>2. CASE k < i - 1
    <3>1. Nth(l, u, k) = Nth(l, q, k) /\ Nth(l, u, k + 1) = Nth(l, q, k + 1) BY <1>2, <1>4, <2>1, <2>2
    <3>2. k \in 0..L /\ i - 1 \in 0..L /\ k # i - 1 /\ k \in 0..L + 1 BY <1>2, <2>2
    <3>3. Nth(l, q, k) \in Nodes \ {Nth(l, q, i - 1)} BY <1>5, <1>7, <3>2
    <3>4. n2[Nth(l, q, k)] = n[Nth(l, q, k)] BY <1>9, <3>3
    <3> QED BY <1>11, <3>1, <3>2, <3>4
  <2>3. CASE k = i - 1
    <3>1. Nth(l, u, k) = Nth(l, q, i - 1) /\ Nth(l, u, k + 1) = Nth(l, q, i + 1) BY <1>2, <1>4, <2>1, <2>3
    <3> QED BY <1>9, <3>1
  <2>4. CASE k >= i
    <3>1. Nth(l, u, k) = Nth(l, q, k + 1) /\ Nth(l, u, k + 1) = Nth(l, q, k + 1 + 1) BY <1>2, <1>4, <2>1, <2>4
    <3>2. k + 1 \in 0..L /\ i - 1 \in 0..L /\ k + 1 # i - 1 /\ k + 1 \in 0..L + 1 BY <1>2, <2>4
    <3>3. Nth(l, q, k + 1) \in Nodes \ {Nth(l, q, i - 1)} BY <1>5, <1>7, <3>2
    <3>4. n2[Nth(l, q, k + 1)] = n[Nth(l, q, k + 1)] BY <1>9, <3>3
    <3>5. n[Nth(l, q, k + 1)] = Nth(l, q, k + 1 + 1) BY <1>11, <3>2
    <3> QED BY <3>1, <3>4, <3>5
  <2> QED BY <1>2, <2>2, <2>3, <2>4
<1>13. ASSUME NEW k \in 0..L - 1 PROVE p2[Nth(l, u, k + 1)] = Nth(l, u, k)
  <2>1. k \in 0..L /\ k + 1 \in 0..L BY <1>2
  <2>2. CASE k < i - 1
    <3>1. Nth(l, u, k) = Nth(l, q, k) /\ Nth(l, u, k + 1) = Nth(l, q, k + 1) BY <1>2, <1>4, <2>1, <2>2
    <3>2. k \in 0..L /\ k + 1 \in 1..L + 1 /\ i + 1 \in 1..L + 1 /\ k + 1 # i + 1 /\ k + 1 \in 0..L + 1
      BY <1>2, <2>2
    <3>3. Nth(l, q, k + 1) \in Nodes \ {Nth(l, q, i + 1)} BY <1>5, <1>8, <3>2
    <3>4. p2[Nth(l, q, k + 1)] = p[Nth(l, q, k + 1)] BY <1>10, <3>3
    <3> QED BY <1>11, <3>1, <3>2, <3>4
  <2>3. CASE k = i - 1
    <3>1. Nth(l, u, k) = Nth(l, q, i - 1) /\ Nth(l, u, k + 1) = Nth(l, q, i + 1) BY <1>2, <1>4, <2>1, <2>3
    <3> QED BY <1>10, <3>1
  <2>4. CASE k >= i
    <3>1. Nth(l, u, k) = Nth(l, q, k + 1) /\ Nth(l, u, k + 1) = Nth(l, q, k + 1 + 1) BY <1>2, <1>4, <2>1, <2>4
    <3>2. /\ k + 1 \in 0..L /\ k + 1 + 1 \in 1..L + 1 /\ i + 1 \in 1..L + 1 /\ k + 1 + 1 # i + 1
          /\ k + 1 + 1 \in 0..L + 1
      BY <1>2, <2>4
    <3>3. Nth(l, q, k + 1 + 1) \in Nodes \ {Nth(l, q, i + 1)} BY <1>5, <1>8, <3>2
    <3>4. p2[Nth(l, q, k + 1 + 1)] = p[Nth(l, q, k + 1 + 1)] BY <1>10, <3>3
    <3>5. p[Nth(l, q, k + 1 + 1)] = Nth(l, q, k + 1) BY <1>11, <3>2
    <3> QED BY <3>1, <3>4, <3>5
  <2> QED BY <1>2, <2>2, <2>3, <2>4
<1> QED BY <1>3, <1>12, <1>13 DEF Follows

-----------------------------------------------------------------------------
(* All rings.                                                              *)

Apart(rg) ==
    \A l, m \in Rings : \A i \in 1..Len(rg[l]), j \in 1..Len(rg[m]) : rg[l][i] = rg[m][j] => l = m /\ i = j

\* The nodes of every ring point to each other, and no node is met twice.
Tied(n, p, rg) ==
    /\ n \in [Nodes -> Nodes] /\ p \in [Nodes -> Nodes] /\ rg \in [Rings -> Seq(Links)]
    /\ Apart(rg)
    /\ \A l \in Rings : Follows(n, p, l, rg[l])

LEMMA TiedOnce ==
    ASSUME NEW rg, Apart(rg), NEW l, l \in Rings
    PROVE  Once(rg[l])
BY DEF Apart, Once

\* Nodes of two rings differ.
LEMMA NthApart ==
    ASSUME NEW rg, rg \in [Rings -> Seq(Links)], Apart(rg), NEW l, l \in Rings, NEW m, m \in Rings, l # m
    PROVE  \A i \in 0..Len(rg[l]) + 1, j \in 0..Len(rg[m]) + 1 : Nth(l, rg[l], i) # Nth(m, rg[m], j)
<1> TAKE i \in 0..Len(rg[l]) + 1, j \in 0..Len(rg[m]) + 1
<1>1. rg[l] \in Seq(Links) /\ rg[m] \in Seq(Links) OBVIOUS
<1>2. CASE i \in 1..Len(rg[l]) /\ j \in 1..Len(rg[m]) BY <1>2 DEF Nth, Apart
<1>3. CASE i \in 1..Len(rg[l]) /\ j \notin 1..Len(rg[m])
  <2>1. rg[l][i] \in Links BY <1>1, <1>3
  <2> QED BY <1>3, <2>1, ListsAssumption DEF Nth
<1>4. CASE i \notin 1..Len(rg[l]) /\ j \in 1..Len(rg[m])
  <2>1. rg[m][j] \in Links BY <1>1, <1>4
  <2> QED BY <1>4, <2>1, ListsAssumption DEF Nth
<1>5. CASE i \notin 1..Len(rg[l]) /\ j \notin 1..Len(rg[m]) BY <1>5 DEF Nth
<1> QED BY <1>2, <1>3, <1>4, <1>5

\* A ring whose nodes keep their pointers stays linked.
LEMMA FollowsKept ==
    ASSUME NEW m, m \in Rings, NEW q, q \in Seq(Links), NEW n, NEW p, Follows(n, p, m, q), NEW n2, NEW p2,
           \A i \in 0..Len(q) + 1 : n2[Nth(m, q, i)] = n[Nth(m, q, i)] /\ p2[Nth(m, q, i)] = p[Nth(m, q, i)]
    PROVE  Follows(n2, p2, m, q)
<1> SUFFICES ASSUME NEW i \in 0..Len(q)
             PROVE  n2[Nth(m, q, i)] = Nth(m, q, i + 1) /\ p2[Nth(m, q, i + 1)] = Nth(m, q, i)
    BY DEF Follows
<1>1. n[Nth(m, q, i)] = Nth(m, q, i + 1) /\ p[Nth(m, q, i + 1)] = Nth(m, q, i) BY DEF Follows
<1>2. i \in 0..Len(q) + 1 /\ i + 1 \in 0..Len(q) + 1 OBVIOUS
<1> QED BY <1>1, <1>2

Absent(rg, x) == \A m \in Rings : \A j \in 1..Len(rg[m]) : rg[m][j] # x

Puts(rg, l, i, x) == [rg EXCEPT ![l] = InsertAt(@, i, x)]

Takes(rg, l, i) == [rg EXCEPT ![l] = RemoveAt(@, i)]

LEMMA InsertKeeps ==
    ASSUME NEW n, NEW p, NEW rg, Tied(n, p, rg), NEW l, l \in Rings, NEW x, x \in Links, Absent(rg, x),
           NEW i, i \in 1..Len(rg[l]) + 1, NEW at, at = Nth(l, rg[l], i)
    PROVE  Tied(Inserted(n, p, at, x).next, Inserted(n, p, at, x).prev, Puts(rg, l, i, x))
<1>1. PICK q, u : q = rg[l] /\ u = InsertAt(q, i, x) OBVIOUS
<1>2. /\ n \in [Nodes -> Nodes] /\ p \in [Nodes -> Nodes] /\ rg \in [Rings -> Seq(Links)] /\ Apart(rg)
      /\ \A m \in Rings : Follows(n, p, m, rg[m])
  BY DEF Tied
<1>3. q \in Seq(Links) /\ Len(q) \in Nat /\ i \in 1..Len(q) + 1 /\ at = Nth(l, q, i) BY <1>1, <1>2
<1>4. Once(q) BY <1>1, <1>2, TiedOnce
<1>5. Follows(n, p, l, q) BY <1>1, <1>2
<1>6. Ins(Links, q, i, x, u)
  <2>1. Ins(Links, q, i, x, InsertAt(q, i, x)) BY <1>3, InsIs
  <2> QED BY <1>1, <2>1
<1>7. PICK back : back = Nth(l, q, i - 1) OBVIOUS
<1>8. p[at] = back
  <2>1. i - 1 \in 0..Len(q) /\ i - 1 + 1 = i BY <1>3
  <2>2. p[Nth(l, q, i - 1 + 1)] = Nth(l, q, i - 1) BY <1>5, <2>1 DEF Follows
  <2> QED BY <1>3, <1>7, <2>1, <2>2
<1>9. at \in Nodes /\ back \in Nodes /\ x \in Nodes
  <2>1. \A k \in 0..Len(q) + 1 : Nth(l, q, k) \in Nodes BY <1>3, NthIs
  <2>2. i \in 0..Len(q) + 1 /\ i - 1 \in 0..Len(q) + 1 BY <1>3
  <2> QED BY <1>3, <1>7, <2>1, <2>2 DEF Nodes
<1>10. \A m \in Rings : \A j \in 0..Len(rg[m]) + 1 : Nth(m, rg[m], j) # x
  <2> TAKE m \in Rings
  <2> TAKE j \in 0..Len(rg[m]) + 1
  <2>1. CASE j \in 1..Len(rg[m]) BY <2>1 DEF Nth, Absent
  <2>2. CASE j \notin 1..Len(rg[m]) BY <2>2, ListsAssumption DEF Nth
  <2> QED BY <2>1, <2>2
<1>11. at # x /\ back # x
  <2>1. i \in 0..Len(q) + 1 /\ i - 1 \in 0..Len(q) + 1 BY <1>3
  <2> QED BY <1>1, <1>3, <1>7, <1>10, <2>1
<1>12. PICK n2, p2 : n2 = Inserted(n, p, at, x).next /\ p2 = Inserted(n, p, at, x).prev OBVIOUS
<1>13. n2 = [n EXCEPT ![x] = at, ![back] = x] /\ p2 = [p EXCEPT ![x] = back, ![at] = x]
  BY <1>8, <1>12 DEF Inserted
<1>14. Changed(n, n2, x, at, back, x) BY <1>2, <1>9, <1>11, <1>13 DEF Changed
<1>15. Changed(p, p2, x, back, at, x) BY <1>2, <1>9, <1>11, <1>13 DEF Changed
<1>16. Follows(n2, p2, l, u)
  <2>1. \A j \in 1..Len(q) : q[j] # x BY <1>1 DEF Absent
  <2>2. /\ Changed(n, n2, x, Nth(l, q, i), Nth(l, q, i - 1), x)
        /\ Changed(p, p2, x, Nth(l, q, i - 1), Nth(l, q, i), x)
    BY <1>3, <1>7, <1>14, <1>15
  <2> QED BY <1>3, <1>4, <1>5, <1>6, <2>1, <2>2, FollowsInserted
<1>17. PICK rg2 : rg2 = Puts(rg, l, i, x) OBVIOUS
<1>18. /\ u \in Seq(Links) /\ Len(u) = Len(q) + 1
       /\ \A j \in 1..Len(q) + 1 : u[j] = IF j < i THEN q[j] ELSE IF j = i THEN x ELSE q[j - 1]
  BY <1>6 DEF Ins
<1>19. /\ rg2 \in [Rings -> Seq(Links)] /\ rg2[l] = u /\ \A m \in Rings \ {l} : rg2[m] = rg[m]
  <2>1. rg2 = [rg EXCEPT ![l] = u] BY <1>1, <1>17 DEF Puts
  <2> QED BY <1>2, <1>18, <2>1
<1>20. ASSUME NEW m \in Rings PROVE Follows(n2, p2, m, rg2[m])
  <2>1. CASE m = l BY <1>16, <1>19, <2>1
  <2>2. CASE m # l
    <3>1. rg2[m] = rg[m] /\ rg[m] \in Seq(Links) BY <1>2, <1>19, <2>2
    <3>2. ASSUME NEW j \in 0..Len(rg[m]) + 1
          PROVE  n2[Nth(m, rg[m], j)] = n[Nth(m, rg[m], j)] /\ p2[Nth(m, rg[m], j)] = p[Nth(m, rg[m], j)]
      <4>1. PICK z : z = Nth(m, rg[m], j) OBVIOUS
      <4>2. z \in Nodes BY <3>1, <4>1, NthIs
      <4>3. z # x BY <1>10, <4>1
      <4>4. \A k \in 0..Len(rg[l]) + 1, h \in 0..Len(rg[m]) + 1 : Nth(l, rg[l], k) # Nth(m, rg[m], h)
        BY <1>2, <2>2, NthApart
      <4>5. i \in 0..Len(q) + 1 /\ i - 1 \in 0..Len(q) + 1 BY <1>3
      <4>6. z # at /\ z # back BY <1>1, <1>3, <1>7, <4>1, <4>4, <4>5
      <4>7. n2[z] = n[z] /\ p2[z] = p[z] BY <1>14, <1>15, <4>2, <4>3, <4>6 DEF Changed
      <4> QED BY <4>1, <4>7
    <3>3. Follows(n, p, m, rg[m]) BY <1>2
    <3>4. Follows(n2, p2, m, rg[m]) BY <3>1, <3>2, <3>3, FollowsKept
    <3> QED BY <3>1, <3>4
  <2> QED BY <2>1, <2>2
<1>21. Apart(rg2)
  <2>1. ASSUME NEW j \in 1..Len(u), NEW k \in 1..Len(u), u[j] = u[k] PROVE j = k
    <3>1. j \in 1..Len(q) + 1 /\ k \in 1..Len(q) + 1 BY <1>18
    <3>2. \A a, b \in 1..Len(q) : q[a] = q[b] => a = b BY <1>4 DEF Once
    <3>3. \A a \in 1..Len(q) : q[a] # x BY <1>1 DEF Absent
    <3>4. /\ j < i => j \in 1..Len(q) /\ u[j] = q[j]
          /\ j = i => u[j] = x
          /\ j > i => j - 1 \in 1..Len(q) /\ u[j] = q[j - 1]
      BY <1>3, <1>18, <3>1
    <3>5. /\ k < i => k \in 1..Len(q) /\ u[k] = q[k]
          /\ k = i => u[k] = x
          /\ k > i => k - 1 \in 1..Len(q) /\ u[k] = q[k - 1]
      BY <1>3, <1>18, <3>1
    <3>6. CASE j < i /\ k < i BY <2>1, <3>2, <3>4, <3>5, <3>6
    <3>7. CASE j < i /\ k = i BY <2>1, <3>3, <3>4, <3>5, <3>7
    <3>8. CASE j < i /\ k > i
      <4>1. j = k - 1 BY <2>1, <3>2, <3>4, <3>5, <3>8
      <4> QED BY <1>3, <3>1, <3>8, <4>1
    <3>9. CASE j = i /\ k < i BY <2>1, <3>3, <3>4, <3>5, <3>9
    <3>10. CASE j = i /\ k > i BY <2>1, <3>3, <3>4, <3>5, <3>10
    <3>11. CASE j > i /\ k < i
      <4>1. j - 1 = k BY <2>1, <3>2, <3>4, <3>5, <3>11
      <4> QED BY <1>3, <3>1, <3>11, <4>1
    <3>12. CASE j > i /\ k = i BY <2>1, <3>3, <3>4, <3>5, <3>12
    <3>13. CASE j > i /\ k > i
      <4>1. j - 1 = k - 1 BY <2>1, <3>2, <3>4, <3>5, <3>13
      <4> QED BY <1>3, <3>1, <4>1
    <3> QED BY <1>3, <3>1, <3>6, <3>7, <3>8, <3>9, <3>10, <3>11, <3>12, <3>13
  <2>2. ASSUME NEW m \in Rings \ {l}, NEW j \in 1..Len(u), NEW k \in 1..Len(rg[m]) PROVE u[j] # rg[m][k]
    <3>1. j \in 1..Len(q) + 1 BY <1>18
    <3>2. u[j] = IF j < i THEN q[j] ELSE IF j = i THEN x ELSE q[j - 1] BY <1>18, <3>1
    <3>3. \A a \in 1..Len(q) : q[a] # rg[m][k] BY <1>1, <1>2 DEF Apart
    <3>4. rg[m][k] # x BY DEF Absent
    <3>5. j < i => j \in 1..Len(q) BY <1>3, <3>1
    <3>6. j > i => j - 1 \in 1..Len(q) BY <1>3, <3>1
    <3> QED BY <1>3, <3>1, <3>2, <3>3, <3>4, <3>5, <3>6
  <2> SUFFICES ASSUME NEW a \in Rings, NEW b \in Rings, NEW j \in 1..Len(rg2[a]), NEW k \in 1..Len(rg2[b]),
                      rg2[a][j] = rg2[b][k]
               PROVE  a = b /\ j = k
    BY DEF Apart
  <2>3. CASE a = l /\ b = l BY <1>19, <2>1, <2>3
  <2>4. CASE a = l /\ b # l BY <1>19, <2>2, <2>4
  <2>5. CASE a # l /\ b = l
    <3>1. rg2[b] = u /\ rg2[a] = rg[a] /\ a \in Rings \ {l} BY <1>19, <2>5
    <3>2. u[k] # rg[a][j] BY <2>2, <3>1
    <3> QED BY <3>1, <3>2
  <2>6. CASE a # l /\ b # l BY <1>2, <1>19, <2>6 DEF Apart
  <2> QED BY <2>3, <2>4, <2>5, <2>6
<1>22. n2 \in [Nodes -> Nodes] /\ p2 \in [Nodes -> Nodes] BY <1>14, <1>15 DEF Changed
<1>23. Tied(n2, p2, rg2) BY <1>19, <1>20, <1>21, <1>22 DEF Tied
<1> QED BY <1>12, <1>17, <1>23

LEMMA RemoveKeeps ==
    ASSUME NEW n, NEW p, NEW rg, Tied(n, p, rg), NEW l, l \in Rings, NEW i, i \in 1..Len(rg[l]),
           NEW x, x = rg[l][i]
    PROVE  Tied(Removed(n, p, x).next, Removed(n, p, x).prev, Takes(rg, l, i))
<1>1. PICK q, u : q = rg[l] /\ u = RemoveAt(q, i) OBVIOUS
<1>2. /\ n \in [Nodes -> Nodes] /\ p \in [Nodes -> Nodes] /\ rg \in [Rings -> Seq(Links)] /\ Apart(rg)
      /\ \A m \in Rings : Follows(n, p, m, rg[m])
  BY DEF Tied
<1>3. q \in Seq(Links) /\ Len(q) \in Nat /\ i \in 1..Len(q) BY <1>1, <1>2
<1>4. Once(q) BY <1>1, <1>2, TiedOnce
<1>5. Follows(n, p, l, q) BY <1>1, <1>2
<1>6. Del(Links, q, i, u)
  <2>1. Del(Links, q, i, RemoveAt(q, i)) BY <1>3, DelIs
  <2> QED BY <1>1, <2>1
<1>7. PICK back, front : back = Nth(l, q, i - 1) /\ front = Nth(l, q, i + 1) OBVIOUS
<1>8. p[x] = back /\ n[x] = front
  <2>1. i - 1 \in 0..Len(q) /\ i - 1 + 1 = i /\ i \in 0..Len(q) BY <1>3
  <2>2. p[Nth(l, q, i - 1 + 1)] = Nth(l, q, i - 1) /\ n[Nth(l, q, i)] = Nth(l, q, i + 1)
    BY <1>5, <2>1 DEF Follows
  <2>3. Nth(l, q, i) = x BY <1>1, <1>3 DEF Nth
  <2> QED BY <1>7, <2>1, <2>2, <2>3
<1>9. back \in Nodes /\ front \in Nodes
  <2>1. \A k \in 0..Len(q) + 1 : Nth(l, q, k) \in Nodes BY <1>3, NthIs
  <2>2. i + 1 \in 0..Len(q) + 1 /\ i - 1 \in 0..Len(q) + 1 BY <1>3
  <2> QED BY <1>7, <2>1, <2>2
<1>12. PICK n2, p2 : n2 = Removed(n, p, x).next /\ p2 = Removed(n, p, x).prev OBVIOUS
<1>13. n2 = [n EXCEPT ![back] = front] /\ p2 = [p EXCEPT ![front] = back] BY <1>8, <1>12 DEF Removed
<1>14. ChangedOne(n, n2, back, front) BY <1>2, <1>9, <1>13 DEF ChangedOne
<1>15. ChangedOne(p, p2, front, back) BY <1>2, <1>9, <1>13 DEF ChangedOne
<1>16. Follows(n2, p2, l, u)
  <2>2. /\ ChangedOne(n, n2, Nth(l, q, i - 1), Nth(l, q, i + 1))
        /\ ChangedOne(p, p2, Nth(l, q, i + 1), Nth(l, q, i - 1))
    BY <1>7, <1>14, <1>15
  <2> QED BY <1>3, <1>4, <1>5, <1>6, <2>2, FollowsRemoved
<1>17. PICK rg2 : rg2 = Takes(rg, l, i) OBVIOUS
<1>18. /\ u \in Seq(Links) /\ Len(u) = Len(q) - 1
       /\ \A j \in 1..Len(q) - 1 : u[j] = IF j < i THEN q[j] ELSE q[j + 1]
  BY <1>6 DEF Del
<1>19. /\ rg2 \in [Rings -> Seq(Links)] /\ rg2[l] = u /\ \A m \in Rings \ {l} : rg2[m] = rg[m]
  <2>1. rg2 = [rg EXCEPT ![l] = u] BY <1>1, <1>17 DEF Takes
  <2> QED BY <1>2, <1>18, <2>1
<1>20. ASSUME NEW m \in Rings PROVE Follows(n2, p2, m, rg2[m])
  <2>1. CASE m = l BY <1>16, <1>19, <2>1
  <2>2. CASE m # l
    <3>1. rg2[m] = rg[m] /\ rg[m] \in Seq(Links) BY <1>2, <1>19, <2>2
    <3>2. ASSUME NEW j \in 0..Len(rg[m]) + 1
          PROVE  n2[Nth(m, rg[m], j)] = n[Nth(m, rg[m], j)] /\ p2[Nth(m, rg[m], j)] = p[Nth(m, rg[m], j)]
      <4>1. PICK z : z = Nth(m, rg[m], j) OBVIOUS
      <4>2. z \in Nodes BY <3>1, <4>1, NthIs
      <4>4. \A k \in 0..Len(rg[l]) + 1, h \in 0..Len(rg[m]) + 1 : Nth(l, rg[l], k) # Nth(m, rg[m], h)
        BY <1>2, <2>2, NthApart
      <4>5. i + 1 \in 0..Len(q) + 1 /\ i - 1 \in 0..Len(q) + 1 BY <1>3
      <4>6. z # front /\ z # back BY <1>1, <1>3, <1>7, <4>1, <4>4, <4>5
      <4>7. n2[z] = n[z] /\ p2[z] = p[z] BY <1>14, <1>15, <4>2, <4>6 DEF ChangedOne
      <4> QED BY <4>1, <4>7
    <3>3. Follows(n, p, m, rg[m]) BY <1>2
    <3>4. Follows(n2, p2, m, rg[m]) BY <3>1, <3>2, <3>3, FollowsKept
    <3> QED BY <3>1, <3>4
  <2> QED BY <2>1, <2>2
<1>21. Apart(rg2)
  \* Where the jth was.
  <2> DEFINE Was(j) == IF j < i THEN j ELSE j + 1
  <2>1. \A j \in 1..Len(u) : u[j] = q[Was(j)] /\ Was(j) \in 1..Len(q) BY <1>3, <1>18
  <2>2. \A j, k \in 1..Len(u) : Was(j) = Was(k) => j = k BY <1>3, <1>18
  <2> SUFFICES ASSUME NEW a \in Rings, NEW b \in Rings, NEW j \in 1..Len(rg2[a]), NEW k \in 1..Len(rg2[b]),
                      rg2[a][j] = rg2[b][k]
               PROVE  a = b /\ j = k
    BY DEF Apart
  <2> HIDE DEF Was
  <2>3. CASE a = l /\ b = l
    <3>1. j \in 1..Len(u) /\ k \in 1..Len(u) /\ u[j] = u[k] BY <1>19, <2>3
    <3>2. Was(j) = Was(k) BY <1>4, <2>1, <3>1 DEF Once
    <3> QED BY <2>2, <2>3, <3>1, <3>2
  <2>4. CASE a = l /\ b # l
    <3>1. j \in 1..Len(u) /\ rg2[b] = rg[b] /\ u[j] = rg[b][k] /\ k \in 1..Len(rg[b]) BY <1>19, <2>4
    <3>2. rg[l][Was(j)] = rg[b][k] /\ Was(j) \in 1..Len(rg[l]) BY <1>1, <2>1, <3>1
    <3> QED BY <1>2, <2>4, <3>1, <3>2 DEF Apart
  <2>5. CASE a # l /\ b = l
    <3>1. k \in 1..Len(u) /\ rg2[a] = rg[a] /\ u[k] = rg[a][j] /\ j \in 1..Len(rg[a]) BY <1>19, <2>5
    <3>2. rg[l][Was(k)] = rg[a][j] /\ Was(k) \in 1..Len(rg[l]) BY <1>1, <2>1, <3>1
    <3> QED BY <1>2, <2>5, <3>1, <3>2 DEF Apart
  <2>6. CASE a # l /\ b # l BY <1>2, <1>19, <2>6 DEF Apart
  <2> QED BY <2>3, <2>4, <2>5, <2>6
<1>22. n2 \in [Nodes -> Nodes] /\ p2 \in [Nodes -> Nodes] BY <1>14, <1>15 DEF ChangedOne
<1>23. Tied(n2, p2, rg2) BY <1>19, <1>20, <1>21, <1>22 DEF Tied
<1> QED BY <1>12, <1>17, <1>23

-----------------------------------------------------------------------------
(* The way round a ring.                                                   *)

StepsOn(to, l, n, g) == g = [i \in 0..n |-> IF i = 0 THEN l ELSE to[g[i - 1]]]

LEMMA StepsExist ==
    ASSUME NEW to, NEW l, NEW n \in Nat
    PROVE  \E g : StepsOn(to, l, n, g)
<1> DEFINE Bad == {m \in Nat : ~ \E g : StepsOn(to, l, m, g)}
<1> SUFFICES ASSUME Bad # {} PROVE FALSE OBVIOUS
<1>1. PICK m \in Bad : \A k \in Bad : m <= k BY LeastNumber
<1>2. m # 0
  <2>1. StepsOn(to, l, 0, [k \in 0..0 |-> l]) BY DEF StepsOn
  <2> QED BY <2>1
<1>3. PICK g : StepsOn(to, l, m - 1, g) BY <1>1, <1>2
<1> DEFINE h == [k \in 0..m |-> IF k = m THEN to[g[m - 1]] ELSE g[k]]
<1>4. \A k \in 0..m : h[k] = IF k = 0 THEN l ELSE to[h[k - 1]]
  <2> SUFFICES ASSUME NEW k \in 0..m PROVE h[k] = IF k = 0 THEN l ELSE to[h[k - 1]] OBVIOUS
  <2>1. m \in Nat BY <1>1
  <2>2. CASE k = m
    <3>1. h[k - 1] = g[m - 1] BY <1>2, <2>1, <2>2
    <3> QED BY <1>2, <2>1, <2>2, <3>1
  <2>3. CASE k # m
    <3>1. k \in 0..(m - 1) BY <2>1, <2>3
    <3>2. g[k] = IF k = 0 THEN l ELSE to[g[k - 1]] BY <1>3, <3>1 DEF StepsOn
    <3>3. k # 0 => h[k - 1] = g[k - 1] BY <2>1, <2>3
    <3>4. h[k] = g[k] BY <2>3
    <3> QED BY <3>2, <3>3, <3>4
  <2> QED BY <2>2, <2>3
<1>5. StepsOn(to, l, m, h) BY <1>4 DEF StepsOn
<1> QED BY <1>1, <1>5

\* Path finds the nodes that follow each other from l to l.
LEMMA PathIs ==
    ASSUME NEW to, to \in [Nodes -> Nodes], NEW l, l \in Rings, NEW q, q \in Seq(Nodes), Once(q),
           \A i \in 1..Len(q) : q[i] # l, \A i \in 0..Len(q) : to[Nth(l, q, i)] = Nth(l, q, i + 1)
    PROVE  Path(to, l) = q
<1>1. PICK L, N : L = Len(q) /\ N = Cardinality(DOMAIN to) OBVIOUS
<1>2. DOMAIN to = Nodes /\ IsFiniteSet(Nodes) BY ListsAssumption DEF Nodes
<1>3. L \in Nat /\ N \in Nat BY <1>1, <1>2, FS_CardinalityType
<1>4. L < N
  <2> SUFFICES ASSUME N < L + 1 PROVE FALSE BY <1>3
  <2>1. IsFiniteSet(0..L) /\ Cardinality(0..L) = L + 1 BY <1>3, FS_Interval
  <2>2. PICK f : f = [i \in 0..L |-> Nth(l, q, i)] OBVIOUS
  <2>3. l \in Nodes BY DEF Nodes
  <2>4. \A i \in 0..L : Nth(l, q, i) \in Nodes BY <1>1, <2>3 DEF Nth
  <2>5. f \in [0..L -> Nodes] BY <2>2, <2>4
  <2>6. PICK T : T = 0..L OBVIOUS
  <2>12. /\ IsFiniteSet(T) /\ IsFiniteSet(Nodes) /\ f \in [T -> Nodes]
         /\ Cardinality(Nodes) < Cardinality(T)
    BY <1>1, <1>2, <2>1, <2>5, <2>6
  <2>13. \E x, y \in T : x # y /\ f[x] = f[y] BY ONLY <2>12, FS_PigeonHole
  <2>7. PICK i \in 0..L, j \in 0..L : i # j /\ f[i] = f[j] BY <2>6, <2>13
  <2>8. Nth(l, q, i) = Nth(l, q, j) BY <2>2, <2>7
  <2>9. CASE i = 0
    <3>1. j \in 1..L BY <2>7, <2>9
    <3> QED BY <1>1, <2>8, <2>9, <3>1 DEF Nth
  <2>10. CASE j = 0
    <3>1. i \in 1..L BY <2>7, <2>10
    <3> QED BY <1>1, <2>8, <2>10, <3>1 DEF Nth
  <2>11. CASE i # 0 /\ j # 0
    <3>1. i \in 1..L /\ j \in 1..L BY <2>11
    <3>2. q[i] = q[j] BY <1>1, <2>8, <3>1 DEF Nth
    <3> QED BY <1>1, <2>7, <3>1, <3>2 DEF Once
  <2> QED BY <2>9, <2>10, <2>11
<1>5. PICK g : g = CHOOSE h : StepsOn(to, l, N, h) OBVIOUS
<1>6. StepsOn(to, l, N, g) BY <1>3, <1>5, StepsExist
<1>7. PICK back : back = {i \in 1..N : g[i] = l} OBVIOUS
<1>8. Path(to, l) = IF back = {} THEN <<l>> ELSE [i \in 1..Min(back) - 1 |-> g[i]]
  BY <1>1, <1>5, <1>7 DEF Path, StepsOn
<1>9. \A i \in 0..N : g[i] = IF i = 0 THEN l ELSE to[g[i - 1]] BY <1>6 DEF StepsOn
<1>10. \A i \in Nat : i <= L + 1 => g[i] = Nth(l, q, i)
  <2> DEFINE Bad == {i \in Nat : i <= L + 1 /\ g[i] # Nth(l, q, i)}
  <2> SUFFICES ASSUME Bad # {} PROVE FALSE OBVIOUS
  <2>1. PICK m \in Bad : \A k \in Bad : m <= k BY LeastNumber
  <2>2. m # 0
    <3>1. g[0] = l BY <1>3, <1>9
    <3>2. Nth(l, q, 0) = l BY DEF Nth
    <3> QED BY <2>1, <3>1, <3>2
  <2>3. m - 1 \in Nat /\ m - 1 <= L + 1 /\ m - 1 \in 0..L /\ m \in 0..N /\ m - 1 + 1 = m /\ ~(m <= m - 1)
    BY <1>3, <1>4, <2>1, <2>2
  <2>4. g[m - 1] = Nth(l, q, m - 1) BY <2>1, <2>3
  <2>5. g[m] = to[g[m - 1]] BY <1>9, <2>2, <2>3
  <2>6. to[Nth(l, q, m - 1)] = Nth(l, q, m - 1 + 1) BY <1>1, <2>3
  <2> QED BY <2>1, <2>3, <2>4, <2>5, <2>6
<1>11. g[L + 1] = l
  <2>1. Nth(l, q, L + 1) = l BY <1>1, <1>3 DEF Nth
  <2> QED BY <1>3, <1>10, <2>1
<1>12. \A i \in 1..L : g[i] = q[i] /\ g[i] # l
  <2> TAKE i \in 1..L
  <2>1. Nth(l, q, i) = q[i] BY <1>1 DEF Nth
  <2> QED BY <1>1, <1>3, <1>10, <2>1
<1>13. L + 1 \in back /\ \A i \in back : L + 1 <= i BY <1>3, <1>4, <1>7, <1>11, <1>12
<1>14. Min(back) = L + 1
  <2>1. \A i \in back : i \in Int BY <1>7
  <2> QED BY <1>13, <2>1 DEF Min
<1>15. Path(to, l) = [i \in 1..L |-> g[i]]
  <2>1. Min(back) - 1 = L BY <1>3, <1>14
  <2> QED BY <1>8, <1>13, <2>1
<1>16. q = [i \in 1..L |-> q[i]] BY <1>1
<1> QED BY <1>12, <1>15, <1>16

LEMMA TiedPaths ==
    ASSUME NEW n, NEW p, NEW rg, Tied(n, p, rg), NEW l, l \in Rings
    PROVE  Path(n, l) = rg[l] /\ Path(p, l) = Reverse(rg[l])
<1>1. PICK q, r : q = rg[l] /\ r = Reverse(q) OBVIOUS
<1>2. /\ n \in [Nodes -> Nodes] /\ p \in [Nodes -> Nodes] /\ rg \in [Rings -> Seq(Links)] /\ Apart(rg)
      /\ Follows(n, p, l, q)
  BY <1>1 DEF Tied
<1>3. q \in Seq(Links) /\ Once(q) /\ Len(q) \in Nat BY <1>1, <1>2, TiedOnce
<1>4. r \in Seq(Links) /\ Len(r) = Len(q) /\ \A j \in 1..Len(q) : r[j] = q[Len(q) + 1 - j]
  BY <1>1, <1>3, ReverseIs
<1>5. q \in Seq(Nodes) /\ r \in Seq(Nodes) BY <1>3, <1>4 DEF Nodes
<1>6. (\A i \in 1..Len(q) : q[i] # l) /\ (\A i \in 1..Len(r) : r[i] # l) BY <1>3, <1>4, ListsAssumption
<1>7. Once(r)
  <2> SUFFICES ASSUME NEW i \in 1..Len(r), NEW j \in 1..Len(r), r[i] = r[j] PROVE i = j BY DEF Once
  <2>1. Len(q) + 1 - i \in 1..Len(q) /\ Len(q) + 1 - j \in 1..Len(q) BY <1>3, <1>4
  <2>2. q[Len(q) + 1 - i] = q[Len(q) + 1 - j] BY <1>4
  <2>3. Len(q) + 1 - i = Len(q) + 1 - j BY <1>3, <2>1, <2>2 DEF Once
  <2> QED BY <1>3, <1>4, <2>3
<1>8. \A i \in 0..Len(r) + 1 : Nth(l, r, i) = Nth(l, q, Len(q) + 1 - i)
  <2> TAKE i \in 0..Len(r) + 1
  <2>1. CASE i \in 1..Len(r)
    <3>1. Len(q) + 1 - i \in 1..Len(q) BY <1>3, <1>4, <2>1
    <3> QED BY <1>4, <2>1, <3>1 DEF Nth
  <2>2. CASE i \notin 1..Len(r)
    <3>1. Len(q) + 1 - i \notin 1..Len(q) BY <1>3, <1>4, <2>2
    <3> QED BY <2>2, <3>1 DEF Nth
  <2> QED BY <2>1, <2>2
<1>9. \A i \in 0..Len(q) : n[Nth(l, q, i)] = Nth(l, q, i + 1) BY <1>2 DEF Follows
<1>10. ASSUME NEW i \in 0..Len(r) PROVE p[Nth(l, r, i)] = Nth(l, r, i + 1)
  <2>1. PICK k : k = Len(q) - i OBVIOUS
  <2>2. k \in 0..Len(q) /\ k + 1 = Len(q) + 1 - i /\ k = Len(q) + 1 - (i + 1) BY <1>3, <1>4, <2>1
  <2>3. p[Nth(l, q, k + 1)] = Nth(l, q, k) BY <1>2, <2>2 DEF Follows
  <2>4. i \in 0..Len(r) + 1 /\ i + 1 \in 0..Len(r) + 1 BY <1>3, <1>4
  <2>5. Nth(l, r, i) = Nth(l, q, k + 1) /\ Nth(l, r, i + 1) = Nth(l, q, k) BY <1>8, <2>2, <2>4
  <2> QED BY <2>3, <2>5
<1>11. Path(n, l) = q BY <1>2, <1>3, <1>5, <1>6, <1>9, PathIs
<1>12. Path(p, l) = r BY <1>2, <1>5, <1>6, <1>7, <1>10, PathIs
<1> QED BY <1>1, <1>11, <1>12

Diverted(n, l, m) == [n EXCEPT ![l] = n[m], ![m] = l]

\* A ring moved by its sentinel leads back to the sentinel it was moved from.
LEMMA MovedPath ==
    ASSUME NEW n, NEW p, NEW rg, Tied(n, p, rg), NEW l, l \in Rings, NEW m, m \in Rings, l # m,
           NEW to, to = Diverted(n, l, m)
    PROVE  Path(to, l) = Append(rg[m], m)
<1>1. PICK q, r : q = rg[m] /\ r = Append(q, m) OBVIOUS
<1>2. /\ n \in [Nodes -> Nodes] /\ rg \in [Rings -> Seq(Links)] /\ Apart(rg) /\ Follows(n, p, m, q)
  BY <1>1 DEF Tied
<1>3. q \in Seq(Links) /\ Once(q) /\ Len(q) \in Nat BY <1>1, <1>2, TiedOnce
<1>4. l \in Nodes /\ m \in Nodes BY DEF Nodes
<1>5. q \in Seq(Nodes) BY <1>3 DEF Nodes
<1>6. /\ r \in Seq(Nodes) /\ Len(r) = Len(q) + 1 /\ r[Len(q) + 1] = m
      /\ \A j \in 1..Len(q) : r[j] = q[j]
  BY <1>1, <1>4, <1>5
<1>7. \A j \in 1..Len(q) : q[j] # l /\ q[j] # m /\ q[j] \in Nodes BY <1>3, ListsAssumption DEF Nodes
<1>8. \A j \in 1..Len(r) : r[j] # l BY <1>3, <1>6, <1>7
<1>9. Once(r)
  <2> SUFFICES ASSUME NEW i \in 1..Len(r), NEW j \in 1..Len(r), r[i] = r[j] PROVE i = j BY DEF Once
  <2>1. CASE i \in 1..Len(q) /\ j \in 1..Len(q)
    <3>1. q[i] = q[j] BY <1>6, <2>1
    <3> QED BY <1>3, <2>1, <3>1 DEF Once
  <2>2. CASE i \in 1..Len(q) /\ j = Len(q) + 1
    <3>1. q[i] = m BY <1>6, <2>2
    <3> QED BY <1>7, <2>2, <3>1
  <2>3. CASE i = Len(q) + 1 /\ j \in 1..Len(q)
    <3>1. q[j] = m BY <1>6, <2>3
    <3> QED BY <1>7, <2>3, <3>1
  <2>4. CASE i = Len(q) + 1 /\ j = Len(q) + 1 BY <2>4
  <2> QED BY <1>3, <1>6, <2>1, <2>2, <2>3, <2>4
<1>10. /\ to \in [Nodes -> Nodes] /\ to[l] = n[m] /\ to[m] = l
       /\ \A z \in Nodes \ {l, m} : to[z] = n[z]
  <2>1. n[m] \in Nodes BY <1>2, <1>4
  <2> QED BY <1>2, <1>4, <2>1 DEF Diverted
<1>11. \A j \in 0..Len(q) : n[Nth(m, q, j)] = Nth(m, q, j + 1) BY <1>2 DEF Follows
<1>12. ASSUME NEW i \in 0..Len(r) PROVE to[Nth(l, r, i)] = Nth(l, r, i + 1)
  <2>1. CASE i = Len(q) + 1
    <3>1. i \in 1..Len(r) /\ i + 1 \notin 1..Len(r) BY <1>3, <1>6, <2>1
    <3>2. Nth(l, r, i) = m /\ Nth(l, r, i + 1) = l BY <1>6, <2>1, <3>1 DEF Nth
    <3> QED BY <1>10, <3>2
  <2>2. CASE i # Len(q) + 1
    <3>1. i \in 0..Len(q) BY <1>3, <1>6, <2>2
    <3>2. n[Nth(m, q, i)] = Nth(m, q, i + 1) BY <1>11, <3>1
    <3>3. Nth(l, r, i + 1) = Nth(m, q, i + 1)
      <4>1. CASE i = Len(q)
        <5>1. i + 1 \in 1..Len(r) /\ i + 1 \notin 1..Len(q) BY <1>3, <1>6, <4>1
        <5> QED BY <1>6, <4>1, <5>1 DEF Nth
      <4>2. CASE i # Len(q)
        <5>1. i + 1 \in 1..Len(r) /\ i + 1 \in 1..Len(q) BY <1>3, <1>6, <3>1, <4>2
        <5> QED BY <1>6, <5>1 DEF Nth
      <4> QED BY <4>1, <4>2
    <3>4. to[Nth(l, r, i)] = n[Nth(m, q, i)]
      <4>1. CASE i = 0
        <5>1. i \notin 1..Len(r) /\ i \notin 1..Len(q) BY <4>1
        <5>2. Nth(l, r, i) = l /\ Nth(m, q, i) = m BY <5>1 DEF Nth
        <5> QED BY <1>10, <5>2
      <4>2. CASE i # 0
        <5>1. i \in 1..Len(r) /\ i \in 1..Len(q) BY <1>3, <1>6, <3>1, <4>2
        <5>2. Nth(l, r, i) = q[i] /\ Nth(m, q, i) = q[i] BY <1>6, <5>1 DEF Nth
        <5> QED BY <1>7, <1>10, <5>1, <5>2
      <4> QED BY <4>1, <4>2
    <3> QED BY <3>2, <3>3, <3>4
  <2> QED BY <2>1, <2>2
<1>13. Path(to, l) = r
  <2>1. /\ to \in [Nodes -> Nodes] /\ l \in Rings /\ r \in Seq(Nodes) /\ Once(r)
        /\ (\A i \in 1..Len(r) : r[i] # l) /\ \A i \in 0..Len(r) : to[Nth(l, r, i)] = Nth(l, r, i + 1)
    BY <1>6, <1>8, <1>9, <1>10, <1>12
  <2> QED BY ONLY <2>1, PathIs
<1> QED BY <1>1, <1>13

-----------------------------------------------------------------------------
(* Clearing a ring.                                                        *)

Clears(n, p, q, k, g) ==
    g = [j \in 0..k |->
             IF j = 0 THEN [next |-> n, prev |-> p]
             ELSE Removed(g[j - 1].next, g[j - 1].prev, q[Len(q) + 1 - j])]

LEMMA ClearsExist ==
    ASSUME NEW n, NEW p, NEW q, NEW k \in Nat
    PROVE  \E g : Clears(n, p, q, k, g)
<1>1. PICK start : start = [next |-> n, prev |-> p] OBVIOUS
<1> DEFINE Left(g, j) == Removed(g[j - 1].next, g[j - 1].prev, q[Len(q) + 1 - j])
<1>2. \A m, g : Clears(n, p, q, m, g) <=> g = [j \in 0..m |-> IF j = 0 THEN start ELSE Left(g, j)]
  BY <1>1 DEF Clears
<1> DEFINE Bad == {m \in Nat : ~ \E g : Clears(n, p, q, m, g)}
<1> SUFFICES ASSUME Bad # {} PROVE FALSE OBVIOUS
<1>3. PICK m \in Bad : \A j \in Bad : m <= j BY LeastNumber
<1>4. m # 0
  <2>1. [j \in 0..0 |-> start] = [j \in 0..0 |-> IF j = 0 THEN start ELSE Left([i \in 0..0 |-> start], j)]
    OBVIOUS
  <2>2. Clears(n, p, q, 0, [j \in 0..0 |-> start]) BY <1>2, <2>1
  <2> QED BY <2>2
<1>5. PICK g : Clears(n, p, q, m - 1, g) BY <1>3, <1>4
<1>6. PICK last : last = Left(g, m) OBVIOUS
<1>7. PICK h : h = [j \in 0..m |-> IF j = m THEN last ELSE g[j]] OBVIOUS
<1>8. \A j \in 0..m : h[j] = IF j = 0 THEN start ELSE Left(h, j)
  <2> SUFFICES ASSUME NEW j \in 0..m PROVE h[j] = IF j = 0 THEN start ELSE Left(h, j) OBVIOUS
  <2>1. m \in Nat BY <1>3
  <2>2. CASE j = m
    <3>1. h[j - 1] = g[j - 1] BY <1>4, <1>7, <2>1, <2>2
    <3>2. Left(h, j) = Left(g, j) BY <3>1
    <3>3. h[j] = last BY <1>7, <2>2
    <3> QED BY <1>4, <1>6, <2>2, <3>2, <3>3
  <2>3. CASE j # m
    <3>1. j \in 0..(m - 1) BY <2>1, <2>3
    <3>2. g[j] = IF j = 0 THEN start ELSE Left(g, j)
      <4>1. g = [i \in 0..m - 1 |-> IF i = 0 THEN start ELSE Left(g, i)] BY <1>2, <1>5
      <4> HIDE DEF Left
      <4> QED BY <3>1, <4>1
    <3>3. j # 0 => h[j - 1] = g[j - 1] BY <1>7, <2>1, <2>3
    <3>4. j # 0 => Left(h, j) = Left(g, j) BY <3>3
    <3>5. h[j] = g[j] BY <1>7, <2>3
    <3> HIDE DEF Left
    <3> QED BY <3>2, <3>4, <3>5
  <2> QED BY <2>2, <2>3
<1>9. h = [j \in 0..m |-> IF j = 0 THEN start ELSE Left(h, j)]
  <2> HIDE DEF Left
  <2> QED BY <1>7, <1>8
<1>10. Clears(n, p, q, m, h) BY <1>2, <1>9
<1> QED BY <1>3, <1>10

\* l without its last k nodes.
LeftIn(rg, l, k) == [rg EXCEPT ![l] = SubSeq(@, 1, Len(@) - k)]

Cleared(rg, l) == [rg EXCEPT ![l] = <<>>]

Shrinks(rg, l) ==
    /\ LeftIn(rg, l, 0) = rg
    /\ LeftIn(rg, l, Len(rg[l])) = Cleared(rg, l)
    /\ \A k \in 0..Len(rg[l]) - 1 :
          /\ Len(LeftIn(rg, l, k)[l]) = Len(rg[l]) - k
          /\ LeftIn(rg, l, k)[l][Len(rg[l]) - k] = rg[l][Len(rg[l]) - k]
          /\ Takes(LeftIn(rg, l, k), l, Len(rg[l]) - k) = LeftIn(rg, l, k + 1)

LEMMA LeftIs ==
    ASSUME NEW rg, rg \in [Rings -> Seq(Links)], NEW l, l \in Rings
    PROVE  Shrinks(rg, l)
<1>1. PICK q, L : q = rg[l] /\ L = Len(q) OBVIOUS
<1>2. q \in Seq(Links) /\ L \in Nat BY <1>1
<1>3. \A k : LeftIn(rg, l, k) = [rg EXCEPT ![l] = SubSeq(q, 1, L - k)] BY <1>1 DEF LeftIn
<1>4. LeftIn(rg, l, 0) = rg
  <2>1. SubSeq(q, 1, L - 0) = q BY <1>1, <1>2
  <2> QED BY <1>1, <1>3, <2>1
<1>5. LeftIn(rg, l, L) = Cleared(rg, l)
  <2>1. SubSeq(q, 1, L - L) = <<>> BY <1>1, <1>2
  <2> QED BY <1>3, <2>1 DEF Cleared
<1>6. ASSUME NEW k \in 0..L - 1
      PROVE  /\ Len(LeftIn(rg, l, k)[l]) = L - k /\ LeftIn(rg, l, k)[l][L - k] = q[L - k]
             /\ Takes(LeftIn(rg, l, k), l, L - k) = LeftIn(rg, l, k + 1)
  <2>1. PICK a, b, s : a = LeftIn(rg, l, k) /\ b = LeftIn(rg, l, k + 1) /\ s = SubSeq(q, 1, L - k) OBVIOUS
  <2>2. s \in Seq(Links) /\ Len(s) = L - k /\ \A j \in 1..L - k : s[j] = q[j] BY <1>1, <1>2, <2>1
  <2>3. a = [rg EXCEPT ![l] = s] /\ a[l] = s BY <1>3, <2>1
  <2>4. b = [rg EXCEPT ![l] = SubSeq(q, 1, L - (k + 1))] BY <1>3, <2>1
  <2>5. RemoveAt(s, L - k) = SubSeq(q, 1, L - (k + 1))
    <3>1. L - k \in 1..Len(s) BY <1>2, <2>2
    <3>2. PICK u, v : u = RemoveAt(s, L - k) /\ v = SubSeq(q, 1, L - (k + 1)) OBVIOUS
    <3>3. Del(Links, s, L - k, u) BY <2>2, <3>1, <3>2, DelIs
    <3>4. u \in Seq(Links) /\ Len(u) = L - k - 1 /\ \A j \in 1..L - k - 1 : u[j] = s[j]
      BY <1>2, <2>2, <3>3 DEF Del
    <3>5. v \in Seq(Links) /\ Len(v) = L - k - 1 /\ \A j \in 1..L - k - 1 : v[j] = q[j]
      BY <1>1, <1>2, <3>2
    <3>6. \A j \in 1..L - k - 1 : j \in 1..L - k BY <1>2
    <3>7. u = v BY <2>2, <3>4, <3>5, <3>6, SameSeq
    <3> QED BY <3>2, <3>7
  <2>6. Takes(a, l, L - k) = [a EXCEPT ![l] = RemoveAt(s, L - k)] BY <2>3 DEF Takes
  <2>7. [a EXCEPT ![l] = RemoveAt(s, L - k)] = b
    <3>1. PICK v : v = SubSeq(q, 1, L - (k + 1)) OBVIOUS
    <3>2. [[rg EXCEPT ![l] = s] EXCEPT ![l] = v] = [rg EXCEPT ![l] = v] OBVIOUS
    <3> QED BY <2>3, <2>4, <2>5, <3>1, <3>2
  <2>8. L - k \in 1..L - k BY <1>2
  <2> QED BY <2>1, <2>2, <2>3, <2>6, <2>7, <2>8
<1> QED BY <1>1, <1>4, <1>5, <1>6 DEF Shrinks

Closed(f, l) == [f EXCEPT ![l] = l]

\* ClearRing leaves every list linked.
LEMMA ClearKeeps ==
    ASSUME NEW n, NEW p, NEW rg, Tied(n, p, rg), NEW l, l \in Rings, NEW g,
           Clears(n, p, rg[l], Len(rg[l]), g), NEW end, end = g[Len(rg[l])]
    PROVE  Tied(Closed(end.next, l), Closed(end.prev, l), Cleared(rg, l))
<1>1. PICK q, L : q = rg[l] /\ L = Len(q) OBVIOUS
<1>2. rg \in [Rings -> Seq(Links)] BY DEF Tied
<1>3. q \in Seq(Links) /\ L \in Nat BY <1>1, <1>2
<1>4. g[0] = [next |-> n, prev |-> p]
  BY <1>1, <1>3 DEF Clears
<1>5. \A j \in 1..L : g[j] = Removed(g[j - 1].next, g[j - 1].prev, q[L + 1 - j])
  <2> SUFFICES ASSUME NEW j \in 1..L PROVE g[j] = Removed(g[j - 1].next, g[j - 1].prev, q[L + 1 - j]) OBVIOUS
  <2>1. PICK r : r = Removed(g[j - 1].next, g[j - 1].prev, q[L + 1 - j]) OBVIOUS
  <2>2. j \in 0..L /\ j # 0 BY <1>3
  <2>3. g[j] = r BY <1>1, <2>1, <2>2 DEF Clears
  <2> QED BY <2>1, <2>3
<1>6. /\ LeftIn(rg, l, 0) = rg /\ LeftIn(rg, l, L) = Cleared(rg, l)
      /\ \A k \in 0..L - 1 : /\ Len(LeftIn(rg, l, k)[l]) = L - k
                             /\ LeftIn(rg, l, k)[l][L - k] = q[L - k]
                             /\ Takes(LeftIn(rg, l, k), l, L - k) = LeftIn(rg, l, k + 1)
  <2>1. Shrinks(rg, l) BY <1>2, LeftIs
  <2> QED BY <1>1, <2>1 DEF Shrinks
<1>7. \A k \in Nat : k <= L => Tied(g[k].next, g[k].prev, LeftIn(rg, l, k))
  <2> DEFINE Bad == {k \in Nat : k <= L /\ ~Tied(g[k].next, g[k].prev, LeftIn(rg, l, k))}
  <2> SUFFICES ASSUME Bad # {} PROVE FALSE OBVIOUS
  <2>1. PICK m \in Bad : \A k \in Bad : m <= k BY LeastNumber
  <2>2. m # 0
    <3>1. g[0].next = n /\ g[0].prev = p BY <1>4
    <3> QED BY <1>6, <2>1, <3>1
  <2>3. m \in 1..L /\ m - 1 \in Nat /\ m - 1 <= L /\ ~(m <= m - 1) /\ m - 1 \in 0..L - 1 /\ m - 1 + 1 = m
        /\ L - (m - 1) = L + 1 - m /\ L + 1 - m \in 1..L
    BY <1>3, <2>1, <2>2
  <2>4. PICK a, b, lg, x, i : /\ a = g[m - 1].next /\ b = g[m - 1].prev /\ lg = LeftIn(rg, l, m - 1)
                              /\ i = L + 1 - m /\ x = q[i]
    OBVIOUS
  <2>5. Tied(a, b, lg) BY <2>1, <2>3, <2>4
  <2>6. Len(lg[l]) = i /\ lg[l][i] = x /\ Takes(lg, l, i) = LeftIn(rg, l, m) BY <1>6, <2>3, <2>4
  <2>7. i \in 1..Len(lg[l]) BY <2>3, <2>4, <2>6
  <2>8. Tied(Removed(a, b, x).next, Removed(a, b, x).prev, Takes(lg, l, i)) BY <2>5, <2>6, <2>7, RemoveKeeps
  <2>9. g[m] = Removed(a, b, x) BY <1>5, <2>3, <2>4
  <2>10. Tied(g[m].next, g[m].prev, LeftIn(rg, l, m)) BY <2>6, <2>8, <2>9
  <2> QED BY <2>1, <2>10
<1>8. PICK rg2 : rg2 = Cleared(rg, l) OBVIOUS
<1>9. Tied(end.next, end.prev, rg2)
  <2>1. L <= L BY <1>3
  <2> QED BY <1>1, <1>3, <1>6, <1>7, <1>8, <2>1
<1>10. PICK n2, p2 : n2 = end.next /\ p2 = end.prev OBVIOUS
<1>11. n2 \in [Nodes -> Nodes] /\ p2 \in [Nodes -> Nodes] /\ Follows(n2, p2, l, rg2[l])
  BY <1>9, <1>10 DEF Tied
<1>12. rg2[l] = <<>> BY <1>2, <1>8 DEF Cleared
<1>13. n2[l] = l /\ p2[l] = l
  <2>1. 0 \in 0..Len(<<>>) /\ Nth(l, <<>>, 0) = l /\ Nth(l, <<>>, 0 + 1) = l BY DEF Nth
  <2> QED BY <1>11, <1>12, <2>1 DEF Follows
<1>14. Closed(n2, l) = n2 /\ Closed(p2, l) = p2 BY <1>11, <1>13 DEF Closed
<1> QED BY <1>8, <1>9, <1>10, <1>14

-----------------------------------------------------------------------------
(* The specification.                                                      *)

ListsInv ==
    /\ listLog \subseteq {<<"move", "old sentinel">>, <<"move", "panic">>}
    /\ ListsTypeOK
    /\ Tied(next, prev, ring)
    /\ \A l \in Rings : listSize[l] >= Len(ring[l])

Selves == [x \in Nodes |-> x]

LEMMA EmptyTied == Tied(Selves, Selves, [l \in Rings |-> <<>>])
<1>0. PICK n, rg : n = Selves /\ rg = [l \in Rings |-> <<>>] OBVIOUS
<1>1. n \in [Nodes -> Nodes] BY <1>0 DEF Selves
<1>2. rg \in [Rings -> Seq(Links)] BY <1>0
<1>3. \A l \in Rings : rg[l] = <<>> /\ Len(rg[l]) = 0 BY <1>0
<1>4. Apart(rg) BY <1>3 DEF Apart
<1>5. ASSUME NEW l \in Rings PROVE Follows(n, n, l, rg[l])
  <2>1. l \in Nodes /\ n[l] = l BY <1>0 DEF Nodes, Selves
  <2>2. \A i : Nth(l, rg[l], i) = l BY <1>3 DEF Nth
  <2> QED BY <2>1, <2>2 DEF Follows
<1> QED BY <1>0, <1>1, <1>2, <1>4, <1>5 DEF Tied

LEMMA ListsInvInit == ListsInit => ListsInv
<1> SUFFICES ASSUME ListsInit PROVE ListsInv OBVIOUS
<1> USE DEF ListsInit
<1>1. Tied(next, prev, ring) BY EmptyTied DEF Nodes, Selves
<1>2. ListsTypeOK BY ListsAssumption DEF ListsTypeOK
<1>3. \A l \in Rings : listSize[l] >= Len(ring[l]) OBVIOUS
<1> QED BY <1>1, <1>2, <1>3 DEF ListsInv

LEMMA EmptyCounts ==
    ASSUME NEW s, s = [l \in Rings |-> 0], NEW r, r = [l \in Rings |-> <<>>]
    PROVE  s \in [Rings -> 0..MaxCount] /\ \A l \in Rings : s[l] >= Len(r[l])
<1>1. s \in [Rings -> 0..MaxCount] BY ListsAssumption
<1>2. \A l \in Rings : s[l] = 0 /\ r[l] = <<>> OBVIOUS
<1> QED BY <1>1, <1>2

LEMMA StopsKeeps ==
    ASSUME ListsInv, NEW what, Stops("move", what), what \in {"old sentinel", "panic"}
    PROVE  ListsInv'
<1>1. DOMAIN next = Nodes /\ DOMAIN prev = Nodes BY DEF ListsInv, Tied
<1>2. /\ next' = [x \in Nodes |-> x] /\ prev' = [x \in Nodes |-> x] /\ ring' = [l \in Rings |-> <<>>]
      /\ listSize' = [l \in Rings |-> 0] /\ listLog' = {<<"move", what>>}
  BY <1>1 DEF Stops
<1>3. Tied(next', prev', ring') BY <1>2, EmptyTied DEF Selves
<1>4. ListsTypeOK'
  <2>1. next' \in [Nodes -> Nodes] /\ prev' \in [Nodes -> Nodes] BY <1>2
  <2>2. listSize' \in [Rings -> 0..MaxCount] BY <1>2, EmptyCounts
  <2> QED BY <2>1, <2>2 DEF ListsTypeOK, Nodes
<1>5. \A l \in Rings : listSize'[l] >= Len(ring'[l]) BY <1>2, EmptyCounts
<1>6. (listLog \subseteq {<<"move", "old sentinel">>, <<"move", "panic">>})' BY <1>2
<1> QED BY <1>3, <1>4, <1>5, <1>6 DEF ListsInv

LEMMA InsertInv ==
    ASSUME ListsInv, NEW l \in Rings, NEW i \in 1..Len(ring[l]) + 1, NEW x \in Links, Absent(ring, x),
           ImplInsert(l, i, x)
    PROVE  ListsInv'
<1>1. PICK at : at = IF i > Len(ring[l]) THEN l ELSE ring[l][i] OBVIOUS
<1>2. Tied(next, prev, ring) /\ ring \in [Rings -> Seq(Links)] BY DEF ListsInv, Tied
<1>3. Len(ring[l]) \in Nat BY <1>2
<1>4. at = Nth(l, ring[l], i) BY <1>1, <1>3 DEF Nth
<1>5. Tied(Inserted(next, prev, at, x).next, Inserted(next, prev, at, x).prev, Puts(ring, l, i, x))
  BY <1>2, <1>4, InsertKeeps
<1>6. /\ listSize[l] < MaxCount
      /\ next' = Inserted(next, prev, at, x).next /\ prev' = Inserted(next, prev, at, x).prev
      /\ listSize' = [listSize EXCEPT ![l] = @ + 1] /\ ring' = Puts(ring, l, i, x)
      /\ listLog' = listLog
  BY <1>1 DEF ImplInsert, Puts
<1>7. Tied(next', prev', ring') BY <1>5, <1>6
<1>8. next' \in [Nodes -> Nodes] /\ prev' \in [Nodes -> Nodes] BY <1>7 DEF Tied
<1>9. listSize \in [Rings -> 0..MaxCount] /\ \A m \in Rings : listSize[m] >= Len(ring[m])
  BY DEF ListsInv, ListsTypeOK
<1>10. listSize' \in [Rings -> 0..MaxCount]
  <2>1. listSize[l] + 1 \in 0..MaxCount BY <1>6, <1>9, ListsAssumption
  <2> QED BY <1>6, <1>9, <2>1
<1>11. ListsTypeOK' BY <1>8, <1>10 DEF ListsTypeOK, Nodes
<1>12. ASSUME NEW m \in Rings PROVE listSize'[m] >= Len(ring'[m])
  <2>1. CASE m = l
    <3>1. listSize'[m] = listSize[l] + 1 BY <1>6, <1>9, <2>1
    <3>2. ring'[m] = InsertAt(ring[l], i, x) BY <1>2, <1>6, <2>1 DEF Puts
    <3>3. ring[l] \in Seq(Links) BY <1>2
    <3>4. Ins(Links, ring[l], i, x, InsertAt(ring[l], i, x)) BY <3>3, InsIs
    <3>5. Len(ring'[m]) = Len(ring[l]) + 1 BY <3>2, <3>4 DEF Ins
    <3> QED BY <1>3, <1>9, <3>1, <3>5
  <2>2. CASE m # l
    <3>1. listSize'[m] = listSize[m] /\ ring'[m] = ring[m] BY <1>2, <1>6, <1>9, <2>2 DEF Puts
    <3> QED BY <1>9, <3>1
  <2> QED BY <2>1, <2>2
<1>13. (listLog \subseteq {<<"move", "old sentinel">>, <<"move", "panic">>})' BY <1>6 DEF ListsInv
<1> QED BY <1>7, <1>11, <1>12, <1>13 DEF ListsInv

LEMMA EraseInv ==
    ASSUME ListsInv, NEW l \in Rings, NEW i \in Nat \ {0}, EraseLink(l, i)
    PROVE  ListsInv'
<1>1. PICK x : x = ring[l][i] OBVIOUS
<1>2. Tied(next, prev, ring) /\ ring \in [Rings -> Seq(Links)] BY DEF ListsInv, Tied
<1>3. Len(ring[l]) \in Nat /\ ring[l] \in Seq(Links) BY <1>2
<1>4. i \in 1..Len(ring[l]) BY <1>3 DEF EraseLink
<1>5. Tied(Removed(next, prev, x).next, Removed(next, prev, x).prev, Takes(ring, l, i))
  BY <1>1, <1>2, <1>4, RemoveKeeps
<1>6. /\ next' = Removed(next, prev, x).next /\ prev' = Removed(next, prev, x).prev
      /\ ring' = Takes(ring, l, i) /\ listSize' = listSize /\ listLog' = listLog
  BY <1>1 DEF EraseLink, Takes
<1>7. Tied(next', prev', ring') BY <1>5, <1>6
<1>8. next' \in [Nodes -> Nodes] /\ prev' \in [Nodes -> Nodes] BY <1>7 DEF Tied
<1>9. listSize \in [Rings -> 0..MaxCount] /\ \A m \in Rings : listSize[m] >= Len(ring[m])
  BY DEF ListsInv, ListsTypeOK
<1>11. ListsTypeOK' BY <1>6, <1>8, <1>9 DEF ListsTypeOK, Nodes
<1>12. ASSUME NEW m \in Rings PROVE listSize'[m] >= Len(ring'[m])
  <2>1. CASE m = l
    <3>2. ring'[m] = RemoveAt(ring[l], i) BY <1>2, <1>6, <2>1 DEF Takes
    <3>4. Del(Links, ring[l], i, RemoveAt(ring[l], i)) BY <1>3, <1>4, DelIs
    <3>5. Len(ring'[m]) = Len(ring[l]) - 1 BY <3>2, <3>4 DEF Del
    <3>6. listSize[l] \in Int /\ listSize[l] >= Len(ring[l]) BY <1>9
    <3> QED BY <1>3, <1>6, <2>1, <3>5, <3>6
  <2>2. CASE m # l
    <3>1. ring'[m] = ring[m] BY <1>2, <1>6, <2>2 DEF Takes
    <3> QED BY <1>6, <1>9, <3>1
  <2> QED BY <2>1, <2>2
<1>13. (listLog \subseteq {<<"move", "old sentinel">>, <<"move", "panic">>})' BY <1>6 DEF ListsInv
<1> QED BY <1>7, <1>11, <1>12, <1>13 DEF ListsInv

LEMMA ClearInv ==
    ASSUME ListsInv, NEW l \in Rings, ClearRing(l)
    PROVE  ListsInv'
<1>1. Tied(next, prev, ring) /\ ring \in [Rings -> Seq(Links)] BY DEF ListsInv, Tied
<1>2. Len(ring[l]) \in Nat /\ ring[l] \in Seq(Links) BY <1>1
<1>3. PICK n, g : n = Len(ring[l]) /\ g = CHOOSE h : Clears(next, prev, ring[l], n, h) OBVIOUS
<1>4. Clears(next, prev, ring[l], n, g)
  <2>1. \E h : Clears(next, prev, ring[l], n, h) BY <1>2, <1>3, ClearsExist
  <2> QED BY <1>3, <2>1
<1>5. PICK end : end = g[n] OBVIOUS
<1>6. /\ next' = [end.next EXCEPT ![l] = l] /\ prev' = [end.prev EXCEPT ![l] = l]
      /\ listSize' = [listSize EXCEPT ![l] = 0] /\ ring' = [ring EXCEPT ![l] = <<>>]
      /\ listLog' = listLog
  BY <1>3, <1>5 DEF ClearRing, Clears
<1>7. Tied(next', prev', ring')
  <2>1. Clears(next, prev, ring[l], Len(ring[l]), g) /\ end = g[Len(ring[l])] BY <1>3, <1>4, <1>5
  <2>2. Tied(Closed(end.next, l), Closed(end.prev, l), Cleared(ring, l)) BY <1>1, <2>1, ClearKeeps
  <2> QED BY <1>6, <2>2 DEF Closed, Cleared
<1>8. next' \in [Nodes -> Nodes] /\ prev' \in [Nodes -> Nodes] BY <1>7 DEF Tied
<1>9. listSize \in [Rings -> 0..MaxCount] /\ \A m \in Rings : listSize[m] >= Len(ring[m])
  BY DEF ListsInv, ListsTypeOK
<1>10. listSize' \in [Rings -> 0..MaxCount] BY <1>6, <1>9, ListsAssumption
<1>11. ListsTypeOK' BY <1>8, <1>10 DEF ListsTypeOK, Nodes
<1>12. ASSUME NEW m \in Rings PROVE listSize'[m] >= Len(ring'[m])
  <2>1. CASE m = l
    <3>1. listSize'[m] = 0 /\ ring'[m] = <<>> BY <1>1, <1>6, <1>9, <2>1
    <3> QED BY <3>1
  <2>2. CASE m # l
    <3>1. listSize'[m] = listSize[m] /\ ring'[m] = ring[m] BY <1>1, <1>6, <1>9, <2>2
    <3> QED BY <1>9, <3>1
  <2> QED BY <2>1, <2>2
<1>13. (listLog \subseteq {<<"move", "old sentinel">>, <<"move", "panic">>})' BY <1>6 DEF ListsInv
<1> QED BY <1>7, <1>11, <1>12, <1>13 DEF ListsInv

LEMMA MoveInv ==
    ASSUME ListsInv, NEW l \in Rings, NEW m \in Rings, NEW assigns, MoveRing(l, m, assigns)
    PROVE  ListsInv'
<1>1. Tied(next, prev, ring) /\ ring \in [Rings -> Seq(Links)] BY DEF ListsInv, Tied
<1>2. PICK to : to = Diverted(next, l, m) OBVIOUS
<1>3. l # m BY DEF MoveRing
<1>4. Path(to, l) = Append(ring[m], m) BY <1>1, <1>2, <1>3, MovedPath
<1>5. Append(ring[m], m) # ring[m]
  <2>1. ring[m] \in Seq(Nodes) /\ m \in Nodes BY <1>1 DEF Nodes
  <2>2. PICK q : q = Append(ring[m], m) OBVIOUS
  <2>3. Len(q) = Len(ring[m]) + 1 /\ Len(ring[m]) \in Nat BY <2>1, <2>2
  <2> QED BY <2>2, <2>3
<1>6. \/ Stops("move", "panic")
      \/ Stops("move", "old sentinel")
  <2>1. Stops("move", IF assigns /\ listChecks /\ listSize[m] = 0 THEN "panic"
                      ELSE IF Path(to, l) = ring[m] THEN "right"
                      ELSE IF Path(to, l) = Append(ring[m], m) THEN "old sentinel"
                      ELSE "garbage")
    BY <1>2 DEF MoveRing, Diverted
  <2> QED BY <1>4, <1>5, <2>1
<1> QED BY <1>6, StopsKeeps

\* What a node in Loose is in no list.
LEMMA LooseAbsent ==
    ASSUME ring \in [Rings -> Seq(Links)], NEW x \in Loose
    PROVE  x \in Links /\ Absent(ring, x)
<1>1. x \in Links \ Members(ring) BY DEF Loose
<1>2. ASSUME NEW m \in Rings, NEW j \in 1..Len(ring[m]) PROVE ring[m][j] # x
  <2>1. m \in DOMAIN ring /\ j \in DOMAIN ring[m] OBVIOUS
  <2>2. ring[m][j] \in Members(ring) BY <2>1 DEF Members, ToSet
  <2> QED BY <1>1, <2>2
<1> QED BY <1>1, <1>2 DEF Absent

LEMMA ListsInvNext == ListsInv /\ [ListsNext]_listsVars => ListsInv'
<1> SUFFICES ASSUME ListsInv, [ListsNext]_listsVars PROVE ListsInv' OBVIOUS
<1>1. CASE UNCHANGED listsVars
  <2>1. next' = next /\ prev' = prev /\ listSize' = listSize /\ ring' = ring /\ listLog' = listLog
    BY <1>1 DEF listsVars
  <2>2. Tied(next', prev', ring') BY <2>1 DEF ListsInv
  <2>3. ListsTypeOK' BY <2>1 DEF ListsInv, ListsTypeOK
  <2> QED BY <2>1, <2>2, <2>3 DEF ListsInv
<1>2. ring \in [Rings -> Seq(Links)] BY DEF ListsInv, Tied
<1>3. \A l \in Rings : Len(ring[l]) \in Nat BY <1>2
<1>4. VmapList \in Rings BY ListsAssumption
<1>5. ASSUME NEW l \in Rings, NEW x \in Loose, PushLast(l, x) PROVE ListsInv'
  <2>1. Len(ring[l]) + 1 \in 1..Len(ring[l]) + 1 BY <1>3
  <2> QED BY <1>2, <1>5, <2>1, LooseAbsent, InsertInv DEF PushLast
<1>6. ASSUME NEW l \in Rings, NEW x \in Loose, PushFirst(l, x) PROVE ListsInv'
  <2>1. 1 \in 1..Len(ring[l]) + 1 BY <1>3
  <2> QED BY <1>2, <1>6, <2>1, LooseAbsent, InsertInv DEF PushFirst
<1>7. ASSUME NEW l \in Rings, NEW x \in Loose, NEW i \in 1..MaxCount, InsertLink(l, i, x) PROVE ListsInv'
  <2>1. i \in 1..Len(ring[l]) + 1 BY <1>3, <1>7 DEF InsertLink
  <2> QED BY <1>2, <1>7, <2>1, LooseAbsent, InsertInv DEF InsertLink
<1>8. ASSUME NEW l \in Rings, ClearRing(l) PROVE ListsInv' BY <1>8, ClearInv
<1>9. ASSUME NEW l \in Rings, NEW i \in 1..MaxCount, EraseLink(l, i) PROVE ListsInv' BY <1>9, EraseInv
<1>10. ASSUME NEW l \in Rings, NEW m \in Rings, NEW assigns, MoveRing(l, m, assigns) PROVE ListsInv'
  BY <1>10, MoveInv
<1>11. ASSUME NEW x \in Loose, NEW room, NEW ok, VmapIomem(x, room, ok) PROVE ListsInv'
  <2>1. PICK i : i = Len(ring[VmapList]) + IF room /\ ring[VmapList] # <<>> THEN 0 ELSE 1 OBVIOUS
  <2>2. ImplInsert(VmapList, i, x) BY <1>11, <2>1 DEF VmapIomem
  <2>3. ring[VmapList] # <<>> => Len(ring[VmapList]) # 0 BY <1>2, <1>4
  <2>4. i \in 1..Len(ring[VmapList]) + 1
    <3>1. CASE room /\ ring[VmapList] # <<>>
      <4>1. i = Len(ring[VmapList]) + 0 BY <2>1, <3>1
      <4> QED BY <1>3, <1>4, <2>3, <3>1, <4>1
    <3>2. CASE ~(room /\ ring[VmapList] # <<>>)
      <4>1. i = Len(ring[VmapList]) + 1 BY <2>1, <3>2
      <4> QED BY <1>3, <1>4, <4>1
    <3> QED BY <3>1, <3>2
  <2> QED BY <1>2, <1>4, <2>2, <2>4, LooseAbsent, InsertInv
<1>12. CASE VunmapIomem BY <1>4, <1>12, EraseInv DEF VunmapIomem
<1> QED BY <1>1, <1>5, <1>6, <1>7, <1>8, <1>9, <1>10, <1>11, <1>12 DEF ListsNext

LEMMA ListsInvSays == ListsInv => ListsAreLinked
<1> SUFFICES ASSUME ListsInv PROVE ListsAreLinked OBVIOUS
<1>1. Tied(next, prev, ring) BY DEF ListsInv
<1>2. \A l \in Rings : Path(next, l) = ring[l] /\ Path(prev, l) = Reverse(ring[l]) BY <1>1, TiedPaths
<1> QED BY <1>2 DEF ListsInv, ListsAreLinked

\* Every list of every number of lists runs through its nodes, both ways, until one is moved.
THEOREM RingsLinked == ListsSpec => [](ListsAreLinked /\ ListsTypeOK)
<1>1. ListsInv => ListsTypeOK BY DEF ListsInv
<1> QED BY <1>1, ListsInvInit, ListsInvNext, ListsInvSays, PTL DEF ListsSpec

-----------------------------------------------------------------------------
(* Forward lists.                                                          *)

-----------------------------------------------------------------------------
(* Singly linked lists.                                                    *)

\* The ith node of q, nullptr where there is none.
Spot(q, i) == IF i \in 1..Len(q) THEN q[i] ELSE NoKnot

\* From start, the nodes of q lead to each other in turn, the last one to nullptr.
Leads(start, to, q) == start = Spot(q, 1) /\ \A i \in 1..Len(q) : to[q[i]] = Spot(q, i + 1)

ChainsApart(c) ==
    \A f, g \in Chains : \A i \in 1..Len(c[f]), j \in 1..Len(c[g]) : c[f][i] = c[g][j] => f = g /\ i = j

Gets(n, start, to, g) ==
    g = [i \in 1..n |-> IF i = 1 THEN start ELSE IF g[i - 1] = NoKnot THEN NoKnot ELSE to[g[i - 1]]]

LEMMA GetsExist ==
    ASSUME NEW n \in Nat, NEW start, NEW to
    PROVE  \E g : Gets(n, start, to, g)
<1> DEFINE Nxt(y) == IF y = NoKnot THEN NoKnot ELSE to[y]
<1>0. \A m, g : Gets(m, start, to, g) <=> g = [i \in 1..m |-> IF i = 1 THEN start ELSE Nxt(g[i - 1])]
  BY DEF Gets
<1> HIDE DEF Nxt
<1> DEFINE Bad == {m \in Nat : ~ \E g : Gets(m, start, to, g)}
<1> SUFFICES ASSUME Bad # {} PROVE FALSE OBVIOUS
<1>1. PICK m \in Bad : \A k \in Bad : m <= k BY LeastNumber
<1>2. m # 0
  <2>1. PICK g : g = [i \in 1..0 |-> start] OBVIOUS
  <2>2. g = [i \in 1..0 |-> IF i = 1 THEN start ELSE Nxt(g[i - 1])] BY <2>1
  <2>3. Gets(0, start, to, g) BY <1>0, <2>2
  <2> QED BY <2>3
<1>3. PICK g : Gets(m - 1, start, to, g) BY <1>1, <1>2
<1>4. PICK last : last = IF m = 1 THEN start ELSE Nxt(g[m - 1]) OBVIOUS
<1>5. PICK h : h = [k \in 1..m |-> IF k = m THEN last ELSE g[k]] OBVIOUS
<1>6. \A k \in 1..m : h[k] = IF k = 1 THEN start ELSE Nxt(h[k - 1])
  <2> SUFFICES ASSUME NEW k \in 1..m PROVE h[k] = IF k = 1 THEN start ELSE Nxt(h[k - 1]) OBVIOUS
  <2>1. m \in Nat BY <1>1
  <2>2. CASE k = m
    <3>1. k # 1 => h[k - 1] = g[m - 1] BY <1>5, <2>1, <2>2
    <3>2. h[k] = last BY <1>5, <2>2
    <3> QED BY <1>4, <2>2, <3>1, <3>2
  <2>3. CASE k # m
    <3>1. k \in 1..(m - 1) BY <2>1, <2>3
    <3>2. g[k] = IF k = 1 THEN start ELSE Nxt(g[k - 1]) BY <1>0, <1>3, <3>1
    <3>3. k # 1 => h[k - 1] = g[k - 1] BY <1>5, <2>1, <2>3
    <3>4. h[k] = g[k] BY <1>5, <2>3
    <3> QED BY <3>2, <3>3, <3>4
  <2> QED BY <2>2, <2>3
<1>7. h = [k \in 1..m |-> IF k = 1 THEN start ELSE Nxt(h[k - 1])] BY <1>5, <1>6
<1>8. Gets(m, start, to, h) BY <1>0, <1>7
<1> QED BY <1>1, <1>8

\* Run finds the nodes that lead to each other from start.
LEMMA RunIs ==
    ASSUME NEW q, q \in Seq(Knots), Once(q), NEW start, NEW to, Leads(start, to, q)
    PROVE  Run(start, to) = q
<1>1. PICK L, N : L = Len(q) /\ N = Cardinality(Knots) + 1 OBVIOUS
<1>2. L \in Nat /\ N \in Nat /\ Cardinality(Knots) \in Nat BY <1>1, FwdListsAssumption, FS_CardinalityType
<1>3. \A i \in 1..L : q[i] \in Knots /\ q[i] # NoKnot BY <1>1, FwdListsAssumption
<1>4. L + 1 <= N
  <2> SUFFICES ASSUME Cardinality(Knots) < L PROVE FALSE BY <1>1, <1>2
  <2>1. IsFiniteSet(1..L) /\ Cardinality(1..L) = L BY <1>2, FS_Interval
  <2>2. PICK T : T = 1..L OBVIOUS
  <2>3. q \in [T -> Knots] BY <1>1, <2>2
  <2>4. IsFiniteSet(T) /\ IsFiniteSet(Knots) /\ q \in [T -> Knots] /\ Cardinality(Knots) < Cardinality(T)
    BY <2>1, <2>2, <2>3, FwdListsAssumption
  <2>5. \E x, y \in T : x # y /\ q[x] = q[y] BY ONLY <2>4, FS_PigeonHole
  <2> QED BY <1>1, <2>2, <2>5 DEF Once
<1>5. PICK g : g = CHOOSE h : Gets(N, start, to, h) OBVIOUS
<1>6. Gets(N, start, to, g) BY <1>2, <1>5, GetsExist
<1>7. PICK end : end = {i \in 1..N : g[i] = NoKnot} OBVIOUS
<1>8. Run(start, to) = IF end = {} THEN <<NoKnot>> ELSE [i \in 1..Min(end) - 1 |-> g[i]]
  BY <1>1, <1>5, <1>7 DEF Run, Gets
<1>9. \A i \in 1..N : g[i] = IF i = 1 THEN start ELSE IF g[i - 1] = NoKnot THEN NoKnot ELSE to[g[i - 1]]
  BY <1>6 DEF Gets
<1>10. \A i \in Nat : 1 <= i /\ i <= L + 1 => g[i] = Spot(q, i)
  <2> DEFINE Bad == {i \in Nat : 1 <= i /\ i <= L + 1 /\ g[i] # Spot(q, i)}
  <2> SUFFICES ASSUME Bad # {} PROVE FALSE OBVIOUS
  <2>1. PICK m \in Bad : \A k \in Bad : m <= k BY LeastNumber
  <2>2. m # 1
    <3>1. g[1] = start BY <1>2, <1>4, <1>9
    <3> QED BY <2>1, <3>1 DEF Leads
  <2>3. m - 1 \in Nat /\ 1 <= m - 1 /\ m - 1 <= L + 1 /\ m - 1 \in 1..L /\ m \in 1..N /\ ~(m <= m - 1)
        /\ m - 1 + 1 = m
    BY <1>2, <1>4, <2>1, <2>2
  <2>4. g[m - 1] = Spot(q, m - 1) BY <2>1, <2>3
  <2>5. g[m - 1] = q[m - 1] /\ g[m - 1] # NoKnot BY <1>1, <1>3, <2>3, <2>4 DEF Spot
  <2>6. g[m] = to[g[m - 1]] BY <1>9, <2>2, <2>3, <2>5
  <2>7. to[q[m - 1]] = Spot(q, m - 1 + 1) BY <1>1, <2>3 DEF Leads
  <2> QED BY <2>1, <2>3, <2>5, <2>6, <2>7
<1>11. g[L + 1] = NoKnot
  <2>1. Spot(q, L + 1) = NoKnot BY <1>1, <1>2 DEF Spot
  <2> QED BY <1>2, <1>10, <2>1
<1>12. \A i \in 1..L : g[i] = q[i] /\ g[i] # NoKnot
  <2> TAKE i \in 1..L
  <2>1. Spot(q, i) = q[i] BY <1>1 DEF Spot
  <2> QED BY <1>2, <1>3, <1>10, <2>1
<1>13. L + 1 \in end /\ \A i \in end : L + 1 <= i BY <1>2, <1>4, <1>7, <1>11, <1>12
<1>14. Min(end) = L + 1
  <2>1. \A i \in end : i \in Int BY <1>7
  <2> QED BY <1>13, <2>1 DEF Min
<1>15. Run(start, to) = [i \in 1..L |-> g[i]]
  <2>1. Min(end) - 1 = L BY <1>2, <1>14
  <2> QED BY <1>8, <1>13, <2>1
<1>16. q = [i \in 1..L |-> q[i]] BY <1>1
<1> QED BY <1>12, <1>15, <1>16

-----------------------------------------------------------------------------

NotIn(c, x) == \A f \in Chains : \A j \in 1..Len(c[f]) : c[f][j] # x

Replaced(c, f, u) == [c EXCEPT ![f] = u]

\* A list that is replaced by some of its nodes, and nodes of no list.
LEMMA ApartReplaced ==
    ASSUME NEW c, c \in [Chains -> Seq(Knots)], ChainsApart(c), NEW f, f \in Chains,
           NEW u, u \in Seq(Knots), Once(u),
           \A j \in 1..Len(u) : (\E k \in 1..Len(c[f]) : u[j] = c[f][k]) \/ NotIn(c, u[j])
    PROVE  ChainsApart(Replaced(c, f, u))
<1>1. PICK d : d = Replaced(c, f, u) OBVIOUS
<1>2. d[f] = u /\ \A g \in Chains \ {f} : d[g] = c[g] BY <1>1 DEF Replaced
<1>3. ASSUME NEW g \in Chains \ {f}, NEW j \in 1..Len(u), NEW k \in 1..Len(c[g]) PROVE u[j] # c[g][k]
  <2>1. CASE NotIn(c, u[j]) BY <2>1 DEF NotIn
  <2>2. CASE \E i \in 1..Len(c[f]) : u[j] = c[f][i]
    <3>1. PICK i \in 1..Len(c[f]) : u[j] = c[f][i] BY <2>2
    <3> QED BY <3>1 DEF ChainsApart
  <2> QED BY <2>1, <2>2
<1> SUFFICES ASSUME NEW a \in Chains, NEW b \in Chains, NEW j \in 1..Len(d[a]), NEW k \in 1..Len(d[b]),
                    d[a][j] = d[b][k]
             PROVE  a = b /\ j = k
    BY <1>1 DEF ChainsApart
<1>4. CASE a = f /\ b = f BY <1>2, <1>4 DEF Once
<1>5. CASE a = f /\ b # f BY <1>2, <1>3, <1>5
<1>6. CASE a # f /\ b = f
  <2>1. d[b] = u /\ d[a] = c[a] /\ a \in Chains \ {f} BY <1>2, <1>6
  <2>2. u[k] # c[a][j] BY <1>3, <2>1
  <2> QED BY <2>1, <2>2
<1>7. CASE a # f /\ b # f
  <2>1. d[a] = c[a] /\ d[b] = c[b] BY <1>2, <1>7
  <2> QED BY <2>1 DEF ChainsApart
<1> QED BY <1>4, <1>5, <1>6, <1>7

LEMMA LeadsKept ==
    ASSUME NEW start, NEW to, NEW q, Leads(start, to, q), NEW new, \A i \in 1..Len(q) : new[q[i]] = to[q[i]]
    PROVE  Leads(start, new, q)
BY DEF Leads

ChainsInv ==
    /\ \A e \in chainLog : KnownChainFault(e)
    /\ FwdListsTypeOK
    /\ chain \in [Chains -> Seq(Knots)]
    /\ ChainsApart(chain)
    /\ \A f \in Chains : Leads(first[f], after, chain[f])

LEMMA ChainsOnce ==
    ASSUME NEW c, ChainsApart(c), NEW f, f \in Chains
    PROVE  Once(c[f])
BY DEF ChainsApart, Once

LEMMA ChainsInvSays == ChainsInv => ChainsAreLinked
<1> SUFFICES ASSUME ChainsInv PROVE ChainsAreLinked OBVIOUS
<1>1. ASSUME NEW f \in Chains PROVE Run(first[f], after) = chain[f]
  <2>1. chain[f] \in Seq(Knots) /\ Once(chain[f]) /\ Leads(first[f], after, chain[f])
    BY ChainsOnce DEF ChainsInv
  <2> QED BY <2>1, RunIs
<1> QED BY <1>1 DEF ChainsInv, ChainsAreLinked

LEMMA EmptyLeads ==
    ASSUME NEW to, NEW q, q = <<>>
    PROVE  Leads(NoKnot, to, q)
BY DEF Leads, Spot

LEMMA EmptyChains ==
    ASSUME NEW c, c = [f \in Chains |-> <<>>], NEW to, NEW s, s = [f \in Chains |-> NoKnot]
    PROVE  /\ c \in [Chains -> Seq(Knots)] /\ ChainsApart(c)
           /\ \A f \in Chains : Leads(s[f], to, c[f])
<1>1. c \in [Chains -> Seq(Knots)] OBVIOUS
<1>2. \A f \in Chains : c[f] = <<>> /\ Len(c[f]) = 0 /\ s[f] = NoKnot OBVIOUS
<1>3. ChainsApart(c) BY <1>2 DEF ChainsApart
<1>4. \A f \in Chains : Leads(s[f], to, c[f]) BY <1>2, EmptyLeads
<1> QED BY <1>1, <1>3, <1>4

LEMMA ChainsInvInit == FwdListsInit => ChainsInv
<1> SUFFICES ASSUME FwdListsInit PROVE ChainsInv OBVIOUS
<1> USE DEF FwdListsInit
<1>1. /\ chain \in [Chains -> Seq(Knots)] /\ ChainsApart(chain)
      /\ \A f \in Chains : Leads(first[f], after, chain[f])
  BY EmptyChains
<1>2. FwdListsTypeOK BY DEF FwdListsTypeOK
<1> QED BY <1>1, <1>2 DEF ChainsInv

LEMMA ChainStopsKeeps ==
    ASSUME NEW op, NEW what, ChainStops(op, what), KnownChainFault(<<op, what>>)
    PROVE  ChainsInv'
<1>1. /\ first' = [f \in Chains |-> NoKnot] /\ after' = [x \in Knots |-> NoKnot]
      /\ chain' = [f \in Chains |-> <<>>] /\ chainLog' = {<<op, what>>}
  BY DEF ChainStops
<1>2. /\ chain' \in [Chains -> Seq(Knots)] /\ ChainsApart(chain')
      /\ \A f \in Chains : Leads(first'[f], after', chain'[f])
  BY <1>1, EmptyChains
<1>3. FwdListsTypeOK' BY <1>1 DEF FwdListsTypeOK
<1>4. \A e \in chainLog' : KnownChainFault(e) BY <1>1
<1> QED BY <1>2, <1>3, <1>4 DEF ChainsInv

\* A step that replaces one list and leaves the others.
LEMMA ReplaceInv ==
    ASSUME ChainsInv, NEW f, f \in Chains, NEW u, u \in Seq(Knots), Once(u),
           \A j \in 1..Len(u) : (\E k \in 1..Len(chain[f]) : u[j] = chain[f][k]) \/ NotIn(chain, u[j]),
           chain' = Replaced(chain, f, u), chainLog' = chainLog, FwdListsTypeOK',
           Leads(first'[f], after', u),
           \A g \in Chains \ {f} : /\ first'[g] = first[g]
                                   /\ \A i \in 1..Len(chain[g]) : after'[chain[g][i]] = after[chain[g][i]]
    PROVE  ChainsInv'
<1>1. /\ chain \in [Chains -> Seq(Knots)] /\ ChainsApart(chain)
      /\ \A g \in Chains : Leads(first[g], after, chain[g])
  BY DEF ChainsInv
<1>2. PICK d : d = Replaced(chain, f, u) OBVIOUS
<1>3. ChainsApart(d) BY <1>1, <1>2, ApartReplaced
<1>4. /\ d \in [Chains -> Seq(Knots)] /\ d[f] = u /\ \A g \in Chains \ {f} : d[g] = chain[g]
  BY <1>1, <1>2 DEF Replaced
<1>5. ASSUME NEW g \in Chains PROVE Leads(first'[g], after', d[g])
  <2>1. CASE g = f BY <1>4, <2>1
  <2>2. CASE g # f
    <3>1. Leads(first[g], after', chain[g]) BY <1>1, <2>2, LeadsKept
    <3> QED BY <1>4, <2>2, <3>1
  <2> QED BY <2>1, <2>2
<1>6. chain' = d BY <1>2
<1>7. \A e \in chainLog' : KnownChainFault(e) BY DEF ChainsInv
<1> QED BY <1>3, <1>4, <1>5, <1>6, <1>7 DEF ChainsInv

LEMMA PushInv ==
    ASSUME ChainsInv, NEW f \in Chains, NEW x \in Knots, NotIn(chain, x), PushChain(f, x)
    PROVE  ChainsInv'
<1>1. PICK q, u : q = chain[f] /\ u = <<x>> \o q OBVIOUS
<1>2. /\ chain \in [Chains -> Seq(Knots)] /\ ChainsApart(chain) /\ Leads(first[f], after, q)
      /\ first \in [Chains -> Knots \cup {NoKnot}] /\ after \in [Knots -> Knots \cup {NoKnot}]
  BY <1>1 DEF ChainsInv, FwdListsTypeOK
<1>3. q \in Seq(Knots) /\ Len(q) \in Nat /\ Once(q) BY <1>1, <1>2, ChainsOnce
<1>4. /\ u \in Seq(Knots) /\ Len(u) = Len(q) + 1 /\ u[1] = x /\ \A j \in 1..Len(q) : u[j + 1] = q[j]
  BY <1>1, <1>3
<1>5. \A j \in 1..Len(q) : q[j] # x /\ q[j] \in Knots BY <1>1, <1>3 DEF NotIn
<1>6. /\ after' = [after EXCEPT ![x] = first[f]] /\ first' = [first EXCEPT ![f] = x]
      /\ chain' = Replaced(chain, f, u) /\ chainLog' = chainLog
  BY <1>1 DEF PushChain, Replaced
<1>7. FwdListsTypeOK'
  <2>1. first[f] \in Knots \cup {NoKnot} BY <1>2
  <2> QED BY <1>2, <1>6, <2>1 DEF FwdListsTypeOK
<1>8. ASSUME NEW j \in 1..Len(u) PROVE j = 1 \/ (j - 1 \in 1..Len(q) /\ u[j] = q[j - 1])
  <2>1. CASE j # 1
    <3>1. j - 1 \in 1..Len(q) /\ j - 1 + 1 = j BY <1>3, <1>4, <2>1
    <3> QED BY <1>4, <3>1
  <2> QED BY <2>1
<1>9. Once(u)
  <2> SUFFICES ASSUME NEW i \in 1..Len(u), NEW j \in 1..Len(u), u[i] = u[j] PROVE i = j BY DEF Once
  <2>1. CASE i = 1 /\ j # 1 BY <1>4, <1>5, <1>8, <2>1
  <2>2. CASE i # 1 /\ j = 1 BY <1>4, <1>5, <1>8, <2>2
  <2>3. CASE i # 1 /\ j # 1
    <3>1. i - 1 \in 1..Len(q) /\ j - 1 \in 1..Len(q) /\ q[i - 1] = q[j - 1] BY <1>8, <2>3
    <3>2. i - 1 = j - 1 BY <1>3, <3>1 DEF Once
    <3> QED BY <3>2
  <2> QED BY <2>1, <2>2, <2>3
<1>10. \A j \in 1..Len(u) : (\E k \in 1..Len(chain[f]) : u[j] = chain[f][k]) \/ NotIn(chain, u[j])
  <2> TAKE j \in 1..Len(u)
  <2>1. CASE j = 1 BY <1>4, <2>1
  <2>2. CASE j # 1
    <3>1. j - 1 \in 1..Len(q) /\ u[j] = q[j - 1] BY <1>8, <2>2
    <3> QED BY <1>1, <3>1
  <2> QED BY <2>1, <2>2
<1>11. Leads(first'[f], after', u)
  <2>1. first'[f] = x /\ after'[x] = first[f] /\ \A z \in Knots \ {x} : after'[z] = after[z] BY <1>2, <1>6
  <2>2. Spot(u, 1) = x BY <1>3, <1>4 DEF Spot
  <2>3. \A j \in 1..Len(u) : Spot(u, j + 1) = Spot(q, j)
    <3> TAKE j \in 1..Len(u)
    <3>1. CASE j \in 1..Len(q)
      <4>1. j + 1 \in 1..Len(u) BY <1>3, <1>4, <3>1
      <4> QED BY <1>4, <3>1, <4>1 DEF Spot
    <3>2. CASE j \notin 1..Len(q)
      <4>1. j + 1 \notin 1..Len(u) BY <1>3, <1>4, <3>2
      <4> QED BY <3>2, <4>1 DEF Spot
    <3> QED BY <3>1, <3>2
  <2>4. ASSUME NEW j \in 1..Len(u) PROVE after'[u[j]] = Spot(u, j + 1)
    <3>1. CASE j = 1
      <4>1. first[f] = Spot(q, 1) BY <1>2 DEF Leads
      <4> QED BY <1>4, <2>1, <2>3, <3>1, <4>1
    <3>2. CASE j # 1
      <4>1. j - 1 \in 1..Len(q) /\ u[j] = q[j - 1] /\ j - 1 + 1 = j BY <1>8, <3>2
      <4>2. after'[u[j]] = after[q[j - 1]] BY <1>5, <2>1, <4>1
      <4>3. after[q[j - 1]] = Spot(q, j) BY <1>2, <4>1 DEF Leads
      <4> QED BY <2>3, <4>2, <4>3
    <3> QED BY <3>1, <3>2
  <2> QED BY <2>1, <2>2, <2>4 DEF Leads
<1>12. ASSUME NEW g \in Chains \ {f}
       PROVE  first'[g] = first[g] /\ \A i \in 1..Len(chain[g]) : after'[chain[g][i]] = after[chain[g][i]]
  <2>1. first'[g] = first[g] BY <1>2, <1>6
  <2>2. \A i \in 1..Len(chain[g]) : chain[g][i] # x /\ chain[g][i] \in Knots BY <1>2 DEF NotIn
  <2>3. \A z \in Knots \ {x} : after'[z] = after[z] BY <1>2, <1>6
  <2> QED BY <2>1, <2>2, <2>3
<1> QED BY <1>4, <1>6, <1>7, <1>9, <1>10, <1>11, <1>12, ReplaceInv

LEMMA PopInv ==
    ASSUME ChainsInv, NEW f \in Chains, PopChain(f)
    PROVE  ChainsInv'
<1>1. PICK q, u : q = chain[f] /\ u = Tail(q) OBVIOUS
<1>2. /\ chain \in [Chains -> Seq(Knots)] /\ ChainsApart(chain) /\ Leads(first[f], after, q)
      /\ first \in [Chains -> Knots \cup {NoKnot}] /\ after \in [Knots -> Knots \cup {NoKnot}]
  BY <1>1 DEF ChainsInv, FwdListsTypeOK
<1>3. q \in Seq(Knots) /\ Len(q) \in Nat /\ Once(q) /\ q # <<>> BY <1>1, <1>2, ChainsOnce DEF PopChain
<1>4. u \in Seq(Knots) /\ Len(u) = Len(q) - 1 /\ \A j \in 1..Len(q) - 1 : u[j] = q[j + 1] BY <1>1, <1>3
<1>5. Len(q) # 0 /\ 1 \in 1..Len(q) BY <1>3
<1>6. first[f] = q[1] /\ after[q[1]] = Spot(q, 2) BY <1>2, <1>5 DEF Leads, Spot
<1>7. /\ first' = [first EXCEPT ![f] = after[first[f]]] /\ after' = after
      /\ chain' = Replaced(chain, f, u) /\ chainLog' = chainLog
  BY <1>1 DEF PopChain, Replaced
<1>8. first' = [first EXCEPT ![f] = Spot(q, 2)] BY <1>6, <1>7
<1>9. FwdListsTypeOK'
  <2>1. Spot(q, 2) \in Knots \cup {NoKnot} BY <1>3 DEF Spot
  <2> QED BY <1>2, <1>7, <1>8, <2>1 DEF FwdListsTypeOK
<1>10. \A j \in 1..Len(u) : j + 1 \in 1..Len(q) /\ u[j] = q[j + 1] BY <1>3, <1>4
<1>11. Once(u)
  <2> SUFFICES ASSUME NEW i \in 1..Len(u), NEW j \in 1..Len(u), u[i] = u[j] PROVE i = j BY DEF Once
  <2>1. i + 1 \in 1..Len(q) /\ j + 1 \in 1..Len(q) /\ q[i + 1] = q[j + 1] BY <1>10
  <2>2. i + 1 = j + 1 BY <1>3, <2>1 DEF Once
  <2> QED BY <2>2
<1>12. \A j \in 1..Len(u) : (\E k \in 1..Len(chain[f]) : u[j] = chain[f][k]) \/ NotIn(chain, u[j])
  BY <1>1, <1>10
<1>13. \A j \in 1..Len(u) + 1 : Spot(u, j) = Spot(q, j + 1)
  <2> TAKE j \in 1..Len(u) + 1
  <2>1. CASE j \in 1..Len(u) BY <1>10, <2>1 DEF Spot
  <2>2. CASE j \notin 1..Len(u)
    <3>1. j + 1 \notin 1..Len(q) BY <1>3, <1>4, <2>2
    <3> QED BY <2>2, <3>1 DEF Spot
  <2> QED BY <2>1, <2>2
<1>14. Leads(first'[f], after', u)
  <2>1. first'[f] = Spot(u, 1)
    <3>1. 1 \in 1..Len(u) + 1 BY <1>3, <1>4, <1>5
    <3>2. Spot(u, 1) = Spot(q, 2) BY <1>13, <3>1
    <3> QED BY <1>2, <1>8, <3>2
  <2>2. ASSUME NEW j \in 1..Len(u) PROVE after'[u[j]] = Spot(u, j + 1)
    <3>1. after[q[j + 1]] = Spot(q, j + 1 + 1) BY <1>2, <1>10 DEF Leads
    <3>2. j + 1 \in 1..Len(u) + 1 BY <1>3, <1>4
    <3> QED BY <1>7, <1>10, <1>13, <3>1, <3>2
  <2> QED BY <2>1, <2>2 DEF Leads
<1>15. ASSUME NEW g \in Chains \ {f}
       PROVE  first'[g] = first[g] /\ \A i \in 1..Len(chain[g]) : after'[chain[g][i]] = after[chain[g][i]]
  BY <1>2, <1>7, <1>8
<1> QED BY <1>4, <1>7, <1>9, <1>11, <1>12, <1>14, <1>15, ReplaceInv

LEMMA ClearChainInv ==
    ASSUME ChainsInv, NEW f \in Chains, ClearChain(f)
    PROVE  ChainsInv'
<1>1. PICK u : u = <<>> OBVIOUS
<1>2. /\ first \in [Chains -> Knots \cup {NoKnot}] /\ after \in [Knots -> Knots \cup {NoKnot}]
  BY DEF ChainsInv, FwdListsTypeOK
<1>3. u \in Seq(Knots) /\ Len(u) = 0 BY <1>1
<1>4. Once(u) BY <1>3 DEF Once
<1>5. /\ first' = [first EXCEPT ![f] = NoKnot] /\ after' = after /\ chainLog' = chainLog
      /\ chain' = Replaced(chain, f, u)
  BY <1>1 DEF ClearChain, Replaced
<1>6. FwdListsTypeOK' BY <1>2, <1>5 DEF FwdListsTypeOK
<1>7. \A j \in 1..Len(u) : (\E k \in 1..Len(chain[f]) : u[j] = chain[f][k]) \/ NotIn(chain, u[j]) BY <1>3
<1>8. Leads(first'[f], after', u)
  <2>1. first'[f] = NoKnot BY <1>2, <1>5
  <2> QED BY <1>1, <2>1, EmptyLeads
<1>9. \A g \in Chains \ {f} : /\ first'[g] = first[g]
                              /\ \A i \in 1..Len(chain[g]) : after'[chain[g][i]] = after[chain[g][i]]
  BY <1>2, <1>5
<1> QED BY <1>3, <1>4, <1>5, <1>6, <1>7, <1>8, <1>9, ReplaceInv

LEMMA MoveChainInv ==
    ASSUME ChainsInv, NEW f \in Chains, NEW g \in Chains, NEW assigns, MoveChain(f, g, assigns)
    PROVE  ChainsInv'
<1>1. CASE ChainStops("assign", "panic")
  <2>1. KnownChainFault(<<"assign", "panic">>) BY DEF KnownChainFault
  <2> QED BY <1>1, <2>1, ChainStopsKeeps
<1>2. CASE ~ChainStops("assign", "panic")
  <2>1. /\ f # g /\ after' = after /\ chainLog' = chainLog
        /\ first' = [first EXCEPT ![f] = first[g], ![g] = NoKnot]
        /\ chain' = [chain EXCEPT ![f] = chain[g], ![g] = <<>>]
    BY <1>2 DEF MoveChain
  <2>2. /\ chain \in [Chains -> Seq(Knots)] /\ ChainsApart(chain)
        /\ \A h \in Chains : Leads(first[h], after, chain[h])
        /\ first \in [Chains -> Knots \cup {NoKnot}] /\ after \in [Knots -> Knots \cup {NoKnot}]
        /\ \A e \in chainLog : KnownChainFault(e)
    BY DEF ChainsInv, FwdListsTypeOK
  <2>3. PICK c, s : c = chain' /\ s = first' OBVIOUS
  <2>4. c[f] = chain[g] /\ c[g] = <<>> /\ \A h \in Chains \ {f, g} : c[h] = chain[h] BY <2>1, <2>2, <2>3
  <2>5. s[f] = first[g] /\ s[g] = NoKnot /\ \A h \in Chains \ {f, g} : s[h] = first[h] BY <2>1, <2>2, <2>3
  <2>6. c \in [Chains -> Seq(Knots)]
    <3>1. chain[g] \in Seq(Knots) /\ <<>> \in Seq(Knots) BY <2>2
    <3> QED BY <2>1, <2>2, <2>3, <3>1
  <2>7. ChainsApart(c)
    <3> SUFFICES ASSUME NEW a \in Chains, NEW b \in Chains, NEW j \in 1..Len(c[a]), NEW k \in 1..Len(c[b]),
                        c[a][j] = c[b][k]
                 PROVE  a = b /\ j = k
        BY DEF ChainsApart
    <3>1. a # g /\ b # g
      <4>1. Len(c[g]) = 0 BY <2>4
      <4> QED BY <4>1
    <3>2. CASE a = f /\ b = f BY <2>1, <2>2, <2>4, <3>2 DEF ChainsApart
    <3>3. CASE a = f /\ b # f
      <4>1. c[b] = chain[b] BY <2>4, <3>1, <3>3
      <4>2. c[a] = chain[g] BY <2>4, <3>3
      <4> QED BY <2>2, <3>1, <4>1, <4>2 DEF ChainsApart
    <3>4. CASE a # f /\ b = f
      <4>1. c[a] = chain[a] BY <2>4, <3>1, <3>4
      <4>2. c[b] = chain[g] BY <2>4, <3>4
      <4> QED BY <2>2, <3>1, <4>1, <4>2 DEF ChainsApart
    <3>5. CASE a # f /\ b # f
      <4>1. c[a] = chain[a] /\ c[b] = chain[b] BY <2>4, <3>1, <3>5
      <4> QED BY <2>2, <4>1 DEF ChainsApart
    <3> QED BY <3>2, <3>3, <3>4, <3>5
  <2>8. ASSUME NEW h \in Chains PROVE Leads(s[h], after, c[h])
    <3>1. CASE h = g BY <2>4, <2>5, <3>1, EmptyLeads
    <3>2. CASE h = f BY <2>2, <2>4, <2>5, <3>2
    <3>3. CASE h # f /\ h # g BY <2>2, <2>4, <2>5, <3>3
    <3> QED BY <3>1, <3>2, <3>3
  <2>9. FwdListsTypeOK'
    <3>1. first[g] \in Knots \cup {NoKnot} BY <2>2
    <3> QED BY <2>1, <2>2, <3>1 DEF FwdListsTypeOK
  <2> QED BY <2>1, <2>2, <2>3, <2>6, <2>7, <2>8, <2>9 DEF ChainsInv
<1> QED BY <1>1, <1>2

LEMMA EraseAfterInv ==
    ASSUME ChainsInv, NEW f \in Chains, NEW i \in Nat \ {0}, EraseAfter(f, i)
    PROVE  ChainsInv'
<1>1. PICK q, u, x : q = chain[f] /\ u = RemoveAt(q, i + 1) /\ x = q[i] OBVIOUS
<1>2. /\ chain \in [Chains -> Seq(Knots)] /\ ChainsApart(chain) /\ Leads(first[f], after, q)
      /\ first \in [Chains -> Knots \cup {NoKnot}] /\ after \in [Knots -> Knots \cup {NoKnot}]
  BY <1>1 DEF ChainsInv, FwdListsTypeOK
<1>3. q \in Seq(Knots) /\ Len(q) \in Nat /\ Once(q) /\ i \in 1..Len(q)
  <2>1. i <= Len(chain[f]) BY DEF EraseAfter
  <2>2. q \in Seq(Knots) /\ Len(q) \in Nat /\ Once(q) BY <1>1, <1>2, ChainsOnce
  <2> QED BY <1>1, <2>1, <2>2
<1>4. CASE i = Len(q)
  <2>1. ChainStops("erase after", "null") BY <1>1, <1>4 DEF EraseAfter
  <2>2. KnownChainFault(<<"erase after", "null">>) BY DEF KnownChainFault
  <2> QED BY <2>1, <2>2, ChainStopsKeeps
<1>5. CASE i # Len(q)
  <2>1. i + 1 \in 1..Len(q) /\ i \in 1..Len(q) BY <1>3, <1>5
  <2>2. Del(Knots, q, i + 1, u)
    <3>1. Del(Knots, q, i + 1, RemoveAt(q, i + 1)) BY <1>3, <2>1, DelIs
    <3> QED BY <1>1, <3>1
  <2>3. /\ u \in Seq(Knots) /\ Len(u) = Len(q) - 1
        /\ \A j \in 1..Len(q) - 1 : u[j] = IF j < i + 1 THEN q[j] ELSE q[j + 1]
    BY <2>2 DEF Del
  <2>4. x \in Knots /\ after[x] = q[i + 1] /\ after[q[i + 1]] = Spot(q, i + 2)
    <3>1. after[q[i]] = Spot(q, i + 1) /\ after[q[i + 1]] = Spot(q, i + 1 + 1) BY <1>2, <2>1 DEF Leads
    <3>2. Spot(q, i + 1) = q[i + 1] BY <2>1 DEF Spot
    <3>3. i + 1 + 1 = i + 2 OBVIOUS
    <3> QED BY <1>1, <1>3, <3>1, <3>2, <3>3
  <2>5. /\ after' = [after EXCEPT ![x] = PastNext(x)] /\ first' = first /\ chainLog' = chainLog
        /\ chain' = Replaced(chain, f, u)
    BY <1>1, <1>5 DEF EraseAfter, Replaced
  <2>6. PastNext(x) = Spot(q, i + 2) BY <2>4 DEF PastNext
  <2>7. Spot(q, i + 2) \in Knots \cup {NoKnot} BY <1>3 DEF Spot
  <2>8. /\ after' \in [Knots -> Knots \cup {NoKnot}] /\ after'[x] = Spot(q, i + 2)
        /\ \A z \in Knots \ {x} : after'[z] = after[z]
    BY <1>2, <2>4, <2>5, <2>6, <2>7
  <2>9. FwdListsTypeOK' BY <1>2, <2>5, <2>8 DEF FwdListsTypeOK
  \* Where the jth was.
  <2> DEFINE Was(j) == IF j < i + 1 THEN j ELSE j + 1
  <2>10. \A j \in 1..Len(u) : u[j] = q[Was(j)] /\ Was(j) \in 1..Len(q) BY <1>3, <2>1, <2>3
  <2>11. \A j, k \in 1..Len(u) : Was(j) = Was(k) => j = k BY <1>3, <2>1, <2>3
  <2>12. Once(u)
    <3> SUFFICES ASSUME NEW j \in 1..Len(u), NEW k \in 1..Len(u), u[j] = u[k] PROVE j = k BY DEF Once
    <3> HIDE DEF Was
    <3>1. Was(j) = Was(k) BY <1>3, <2>10 DEF Once
    <3> QED BY <2>11, <3>1
  <2>13. \A j \in 1..Len(u) : (\E k \in 1..Len(chain[f]) : u[j] = chain[f][k]) \/ NotIn(chain, u[j])
    <3> HIDE DEF Was
    <3> QED BY <1>1, <2>10
  <2>14. \A j \in 1..Len(u) + 1 : Spot(u, j) = Spot(q, Was(j))
    <3> TAKE j \in 1..Len(u) + 1
    <3>1. CASE j \in 1..Len(u)
      <4> HIDE DEF Was
      <4> QED BY <2>10, <3>1 DEF Spot
    <3>2. CASE j \notin 1..Len(u)
      <4>1. Was(j) \notin 1..Len(q) BY <1>3, <2>1, <2>3, <3>2
      <4> HIDE DEF Was
      <4> QED BY <3>2, <4>1 DEF Spot
    <3> QED BY <3>1, <3>2
  <2>15. Leads(first'[f], after', u)
    <3>1. first'[f] = Spot(u, 1)
      <4>1. 1 \in 1..Len(u) + 1 /\ Was(1) = 1 BY <1>3, <2>1, <2>3
      <4>2. first[f] = Spot(q, 1) BY <1>2 DEF Leads
      <4> HIDE DEF Was
      <4> QED BY <2>5, <2>14, <4>1, <4>2
    <3>2. ASSUME NEW j \in 1..Len(u) PROVE after'[u[j]] = Spot(u, j + 1)
      <4>1. j + 1 \in 1..Len(u) + 1 BY <1>3, <2>1, <2>3
      <4>2. Spot(u, j + 1) = Spot(q, Was(j + 1)) BY <2>14, <4>1
      <4>3. CASE j = i
        <5>1. u[j] = x BY <1>1, <2>3, <4>3
        <5>2. Was(j + 1) = i + 2 BY <4>3
        <5> QED BY <2>8, <4>2, <5>1, <5>2
      <4>4. CASE j # i
        <5>1. Was(j) \in 1..Len(q) /\ u[j] = q[Was(j)] BY <2>10
        <5>2. Was(j) # i /\ Was(j + 1) = Was(j) + 1 BY <1>3, <4>4
        <5> HIDE DEF Was
        <5>3. q[Was(j)] # x /\ q[Was(j)] \in Knots BY <1>1, <1>3, <5>1, <5>2 DEF Once
        <5>4. after'[q[Was(j)]] = after[q[Was(j)]] BY <2>8, <5>3
        <5>5. after[q[Was(j)]] = Spot(q, Was(j) + 1) BY <1>2, <5>1 DEF Leads
        <5> QED BY <4>2, <5>1, <5>2, <5>4, <5>5
      <4> QED BY <4>3, <4>4
    <3> QED BY <3>1, <3>2 DEF Leads
  <2>16. ASSUME NEW g \in Chains \ {f}
         PROVE  first'[g] = first[g] /\ \A j \in 1..Len(chain[g]) : after'[chain[g][j]] = after[chain[g][j]]
    <3>1. \A j \in 1..Len(chain[g]) : chain[g][j] # x /\ chain[g][j] \in Knots
      BY <1>1, <1>2, <1>3 DEF ChainsApart
    <3> QED BY <2>5, <2>8, <3>1
  <2> QED BY <2>3, <2>5, <2>9, <2>12, <2>13, <2>15, <2>16, ReplaceInv
<1> QED BY <1>4, <1>5

\* insert_after loses the next node, or goes through nullptr.
LEMMA InsertAfterInv ==
    ASSUME ChainsInv, NEW f \in Chains, NEW i \in Nat \ {0}, NEW x \in Knots, NotIn(chain, x), InsertAfter(f, i, x)
    PROVE  ChainsInv'
<1>1. PICK q, at, new : /\ q = chain[f] /\ at = q[i]
                        /\ new = [after EXCEPT ![x] = PastNext(at), ![at] = x]
  OBVIOUS
<1>2. /\ chain \in [Chains -> Seq(Knots)] /\ ChainsApart(chain) /\ Leads(first[f], after, q)
      /\ first \in [Chains -> Knots \cup {NoKnot}] /\ after \in [Knots -> Knots \cup {NoKnot}]
  BY <1>1 DEF ChainsInv, FwdListsTypeOK
<1>3. q \in Seq(Knots) /\ Len(q) \in Nat /\ Once(q) /\ i \in 1..Len(q)
  <2>1. i <= Len(chain[f]) BY DEF InsertAfter
  <2>2. q \in Seq(Knots) /\ Len(q) \in Nat /\ Once(q) BY <1>1, <1>2, ChainsOnce
  <2> QED BY <1>1, <2>1, <2>2
<1>4. PICK ins, u : ins = InsertAt(q, i + 1, x) /\ u = RemoveAt(ins, i + 2) OBVIOUS
<1>5. ChainStops("insert after", IF i = Len(q) THEN "null"
                                 ELSE IF Run(first[f], new) = u THEN "lost"
                                 ELSE IF Run(first[f], new) = ins THEN "right"
                                 ELSE "garbage")
  BY <1>1, <1>4 DEF InsertAfter
<1>6. KnownChainFault(<<"insert after", "null">>) /\ KnownChainFault(<<"insert after", "lost">>)
  BY DEF KnownChainFault
<1>7. CASE i = Len(q)
  <2>1. ChainStops("insert after", "null") BY <1>5, <1>7
  <2> QED BY <1>6, <2>1, ChainStopsKeeps
<1>8. CASE i # Len(q)
  <2>1. i + 1 \in 1..Len(q) /\ i + 1 \in 1..Len(q) + 1 BY <1>3, <1>8
  <2>2. Ins(Knots, q, i + 1, x, ins)
    <3>1. Ins(Knots, q, i + 1, x, InsertAt(q, i + 1, x)) BY <1>3, <2>1, InsIs
    <3> QED BY <1>4, <3>1
  <2>3. /\ ins \in Seq(Knots) /\ Len(ins) = Len(q) + 1
        /\ \A j \in 1..Len(q) + 1 : ins[j] = IF j < i + 1 THEN q[j] ELSE IF j = i + 1 THEN x ELSE q[j - 1]
    BY <2>2 DEF Ins
  <2>4. Del(Knots, ins, i + 2, u)
    <3>1. i + 2 \in 1..Len(ins) BY <1>3, <2>1, <2>3
    <3>2. Del(Knots, ins, i + 2, RemoveAt(ins, i + 2)) BY <2>3, <3>1, DelIs
    <3> QED BY <1>4, <3>2
  <2>5. /\ u \in Seq(Knots) /\ Len(u) = Len(q)
        /\ \A j \in 1..Len(q) : u[j] = IF j < i + 2 THEN ins[j] ELSE ins[j + 1]
    <3>1. Len(ins) - 1 = Len(q) BY <1>3, <2>3
    <3> QED BY <2>4, <3>1 DEF Del
  <2>6. u[i + 1] = x /\ \A j \in 1..Len(q) : j # i + 1 => u[j] = q[j]
    <3>1. u[i + 1] = x
      <4>1. i + 1 < i + 2 /\ ~(i + 1 < i + 1) BY <1>3
      <4> QED BY <2>1, <2>3, <2>5, <4>1
    <3>2. ASSUME NEW j \in 1..Len(q), j < i + 1 PROVE u[j] = q[j]
      <4>1. j < i + 2 /\ j \in 1..Len(q) + 1 BY <1>3, <3>2
      <4> QED BY <2>3, <2>5, <3>2, <4>1
    <3>3. ASSUME NEW j \in 1..Len(q), j > i + 1 PROVE u[j] = q[j]
      <4>1. ~(j < i + 2) /\ j + 1 \in 1..Len(q) + 1 /\ ~(j + 1 < i + 1) /\ j + 1 # i + 1 /\ j + 1 - 1 = j
        BY <1>3, <3>3
      <4> QED BY <2>3, <2>5, <4>1
    <3> QED BY <1>3, <3>1, <3>2, <3>3
  <2>7. \A j \in 1..Len(q) : q[j] # x /\ q[j] \in Knots BY <1>1, <1>3 DEF NotIn
  <2>8. at \in Knots /\ at # x /\ after[at] = q[i + 1] /\ after[q[i + 1]] = Spot(q, i + 2)
    <3>1. after[q[i]] = Spot(q, i + 1) /\ after[q[i + 1]] = Spot(q, i + 1 + 1) BY <1>2, <1>3, <2>1 DEF Leads
    <3>2. Spot(q, i + 1) = q[i + 1] BY <2>1 DEF Spot
    <3>3. i + 1 + 1 = i + 2 OBVIOUS
    <3> QED BY <1>1, <1>3, <2>7, <3>1, <3>2, <3>3
  <2>9. PastNext(at) = Spot(q, i + 2) BY <2>8 DEF PastNext
  <2>10. new[x] = Spot(q, i + 2) /\ new[at] = x /\ \A z \in Knots \ {x, at} : new[z] = after[z]
    BY <1>1, <1>2, <2>8, <2>9
  <2>11. Once(u)
    <3> SUFFICES ASSUME NEW j \in 1..Len(u), NEW k \in 1..Len(u), u[j] = u[k] PROVE j = k BY DEF Once
    <3>1. j \in 1..Len(q) /\ k \in 1..Len(q) BY <2>5
    <3>2. CASE j = i + 1 /\ k # i + 1 BY <2>6, <2>7, <3>1, <3>2
    <3>3. CASE j # i + 1 /\ k = i + 1 BY <2>6, <2>7, <3>1, <3>3
    <3>4. CASE j # i + 1 /\ k # i + 1
      <4>1. q[j] = q[k] BY <2>6, <3>1, <3>4
      <4> QED BY <1>3, <3>1, <4>1 DEF Once
    <3> QED BY <3>2, <3>3, <3>4
  <2>12. \A j \in 1..Len(q) + 1 : Spot(u, j) = IF j = i + 1 THEN x ELSE Spot(q, j)
    BY <1>3, <2>1, <2>5, <2>6 DEF Spot
  <2>13. Leads(first[f], new, u)
    <3>1. first[f] = Spot(u, 1)
      <4>1. first[f] = Spot(q, 1) BY <1>2 DEF Leads
      <4>2. 1 \in 1..Len(q) + 1 /\ 1 # i + 1 BY <1>3
      <4> QED BY <2>12, <4>1, <4>2
    <3>2. ASSUME NEW j \in 1..Len(u) PROVE new[u[j]] = Spot(u, j + 1)
      <4>1. j \in 1..Len(q) /\ j + 1 \in 1..Len(q) + 1 BY <1>3, <2>5
      <4>2. CASE j = i
        <5>1. u[j] = at BY <1>1, <1>3, <2>6, <4>1, <4>2
        <5> QED BY <2>10, <2>12, <4>1, <4>2, <5>1
      <4>3. CASE j = i + 1
        <5>1. u[j] = x BY <2>6, <4>3
        <5>2. j + 1 # i + 1 /\ j + 1 = i + 2 BY <4>3
        <5>3. Spot(u, j + 1) = Spot(q, j + 1) BY <2>12, <4>1, <5>2
        <5> QED BY <2>10, <5>1, <5>2, <5>3
      <4>4. CASE j # i /\ j # i + 1
        <5>1. u[j] = q[j] BY <2>6, <4>1, <4>4
        <5>2. q[j] # at BY <1>1, <1>3, <4>1, <4>4 DEF Once
        <5>3. new[q[j]] = after[q[j]] BY <2>7, <2>10, <4>1, <5>2
        <5>4. after[q[j]] = Spot(q, j + 1) BY <1>2, <4>1 DEF Leads
        <5>5. j + 1 # i + 1 BY <4>4
        <5>6. Spot(u, j + 1) = Spot(q, j + 1) BY <2>12, <4>1, <5>5
        <5> QED BY <5>1, <5>3, <5>4, <5>6
      <4> QED BY <4>2, <4>3, <4>4
    <3> QED BY <3>1, <3>2 DEF Leads
  <2>14. Run(first[f], new) = u BY <2>5, <2>11, <2>13, RunIs
  <2>15. ChainStops("insert after", "lost") BY <1>5, <1>8, <2>14
  <2> QED BY <1>6, <2>15, ChainStopsKeeps
<1> QED BY <1>7, <1>8

LEMMA LooseNotIn ==
    ASSUME chain \in [Chains -> Seq(Knots)], NEW x \in LooseKnot
    PROVE  x \in Knots /\ NotIn(chain, x)
<1>1. x \in Knots /\ \A f \in Chains : x \notin ToSet(chain[f]) BY DEF LooseKnot
<1>2. ASSUME NEW f \in Chains, NEW j \in 1..Len(chain[f]) PROVE chain[f][j] # x
  <2>1. j \in DOMAIN chain[f] OBVIOUS
  <2>2. chain[f][j] \in ToSet(chain[f]) BY <2>1 DEF ToSet
  <2> QED BY <1>1, <2>2
<1> QED BY <1>1, <1>2 DEF NotIn

LEMMA ChainsInvNext == ChainsInv /\ [FwdListsNext]_fwdListsVars => ChainsInv'
<1> SUFFICES ASSUME ChainsInv, [FwdListsNext]_fwdListsVars PROVE ChainsInv' OBVIOUS
<1>1. CASE UNCHANGED fwdListsVars
  <2>1. first' = first /\ after' = after /\ chain' = chain /\ chainLog' = chainLog
    BY <1>1 DEF fwdListsVars
  <2>2. FwdListsTypeOK' BY <2>1 DEF ChainsInv, FwdListsTypeOK
  <2> QED BY <2>1, <2>2 DEF ChainsInv
<1>2. chain \in [Chains -> Seq(Knots)] BY DEF ChainsInv
<1>3. ASSUME NEW f \in Chains, PopChain(f) PROVE ChainsInv' BY <1>3, PopInv
<1>4. ASSUME NEW f \in Chains, ClearChain(f) PROVE ChainsInv' BY <1>4, ClearChainInv
<1>5. ASSUME NEW f \in Chains, NEW x \in LooseKnot, PushChain(f, x) PROVE ChainsInv'
  BY <1>2, <1>5, LooseNotIn, PushInv
<1>6. ASSUME NEW f \in Chains, NEW i \in 1..Cardinality(Knots), EraseAfter(f, i) PROVE ChainsInv'
  BY <1>6, EraseAfterInv
<1>7. ASSUME NEW f \in Chains, NEW i \in 1..Cardinality(Knots), NEW x \in LooseKnot, InsertAfter(f, i, x)
      PROVE  ChainsInv'
  BY <1>2, <1>7, LooseNotIn, InsertAfterInv
<1>8. ASSUME NEW f \in Chains, NEW g \in Chains, NEW assigns, MoveChain(f, g, assigns) PROVE ChainsInv'
  BY <1>8, MoveChainInv
<1> QED BY <1>1, <1>3, <1>4, <1>5, <1>6, <1>7, <1>8 DEF FwdListsNext

\* Every singly linked list runs through its nodes, until one of the known faults.
THEOREM ChainsLinked == FwdListsSpec => [](ChainsAreLinked /\ FwdListsTypeOK)
<1>1. ChainsInv => FwdListsTypeOK BY DEF ChainsInv
<1> QED BY <1>1, ChainsInvInit, ChainsInvNext, ChainsInvSays, PTL DEF FwdListsSpec

-----------------------------------------------------------------------------
(* Hash maps.                                                              *)

-----------------------------------------------------------------------------
(* The nodes of all buckets.                                               *)

\* No two nodes have the same key.
KeysOnce(b) ==
    \A i, h \in 1..Len(b) : \A j \in 1..Len(b[i]), k \in 1..Len(b[h]) :
        b[i][j].key = b[h][k].key => i = h /\ j = k

\* s has the nodes of the first n buckets, each once.
FlatTo(b, n, s) ==
    /\ s \in Seq(Node)
    /\ \A p \in 1..Len(s) : \E i \in 1..n : \E j \in 1..Len(b[i]) : s[p] = b[i][j]
    /\ \A i \in 1..n : \A j \in 1..Len(b[i]) : \E p \in 1..Len(s) : s[p] = b[i][j]
    /\ \A p, r \in 1..Len(s) : s[p].key = s[r].key => p = r

Flattens(b, n, g) == g = [i \in 1..n |-> IF i = 1 THEN b[i] ELSE g[i - 1] \o b[i]]

LEMMA FlattensExist ==
    ASSUME NEW b, NEW n \in Nat
    PROVE  \E g : Flattens(b, n, g)
<1> DEFINE Bad == {m \in Nat : ~ \E g : Flattens(b, m, g)}
<1> SUFFICES ASSUME Bad # {} PROVE FALSE OBVIOUS
<1>1. PICK m \in Bad : \A k \in Bad : m <= k BY LeastNumber
<1>2. m # 0
  <2>1. PICK g : g = [i \in 1..0 |-> b[i]] OBVIOUS
  <2>2. g = [i \in 1..0 |-> IF i = 1 THEN b[i] ELSE g[i - 1] \o b[i]] BY <2>1
  <2>3. Flattens(b, 0, g) BY <2>2 DEF Flattens
  <2> QED BY <2>3
<1>3. PICK g : Flattens(b, m - 1, g) BY <1>1, <1>2
<1>4. PICK last : last = IF m = 1 THEN b[1] ELSE g[m - 1] \o b[m] OBVIOUS
<1>5. PICK h : h = [k \in 1..m |-> IF k = m THEN last ELSE g[k]] OBVIOUS
<1>6. \A k \in 1..m : h[k] = IF k = 1 THEN b[k] ELSE h[k - 1] \o b[k]
  <2> SUFFICES ASSUME NEW k \in 1..m PROVE h[k] = IF k = 1 THEN b[k] ELSE h[k - 1] \o b[k] OBVIOUS
  <2>1. m \in Nat BY <1>1
  <2>2. CASE k = m
    <3>1. k # 1 => h[k - 1] = g[m - 1] BY <1>5, <2>1, <2>2
    <3>2. h[k] = last BY <1>5, <2>2
    <3> QED BY <1>4, <2>2, <3>1, <3>2
  <2>3. CASE k # m
    <3>1. k \in 1..(m - 1) BY <2>1, <2>3
    <3>2. g[k] = IF k = 1 THEN b[k] ELSE g[k - 1] \o b[k] BY <1>3, <3>1 DEF Flattens
    <3>3. k # 1 => h[k - 1] = g[k - 1] BY <1>5, <2>1, <2>3
    <3>4. h[k] = g[k] BY <1>5, <2>3
    <3> QED BY <3>2, <3>3, <3>4
  <2> QED BY <2>2, <2>3
<1>7. h = [k \in 1..m |-> IF k = 1 THEN b[k] ELSE h[k - 1] \o b[k]] BY <1>5, <1>6
<1>8. Flattens(b, m, h) BY <1>7 DEF Flattens
<1> QED BY <1>1, <1>8

LEMMA FlatFirst ==
    ASSUME NEW b, b \in Seq(Seq(Node)), Len(b) # 0, KeysOnce(b)
    PROVE  FlatTo(b, 1, b[1])
<1>1. Len(b) \in Nat /\ 1 \in 1..Len(b) /\ b[1] \in Seq(Node) OBVIOUS
<1>2. \A p \in 1..Len(b[1]) : \E i \in 1..1 : \E j \in 1..Len(b[i]) : b[1][p] = b[i][j]
  <2> TAKE p \in 1..Len(b[1])
  <2>1. 1 \in 1..1 OBVIOUS
  <2> QED BY <2>1
<1>3. \A i \in 1..1 : \A j \in 1..Len(b[i]) : \E p \in 1..Len(b[1]) : b[1][p] = b[i][j]
  <2> TAKE i \in 1..1
  <2>1. i = 1 OBVIOUS
  <2> QED BY <2>1
<1>4. \A p, r \in 1..Len(b[1]) : b[1][p].key = b[1][r].key => p = r BY <1>1 DEF KeysOnce
<1> QED BY <1>1, <1>2, <1>3, <1>4 DEF FlatTo

LEMMA FlatStep ==
    ASSUME NEW b, b \in Seq(Seq(Node)), KeysOnce(b), NEW n, n \in 1..Len(b) - 1, NEW s, FlatTo(b, n, s)
    PROVE  FlatTo(b, n + 1, s \o b[n + 1])
<1>1. PICK z, u : z = b[n + 1] /\ u = s \o z OBVIOUS
<1>2. Len(b) \in Nat /\ n + 1 \in 1..Len(b) /\ n \in Nat /\ \A i \in 1..n : i \in 1..Len(b) OBVIOUS
<1>3. z \in Seq(Node) BY <1>1, <1>2
<1>4. /\ s \in Seq(Node) /\ Len(s) \in Nat
      /\ \A p \in 1..Len(s) : \E i \in 1..n : \E j \in 1..Len(b[i]) : s[p] = b[i][j]
      /\ \A i \in 1..n : \A j \in 1..Len(b[i]) : \E p \in 1..Len(s) : s[p] = b[i][j]
      /\ \A p, r \in 1..Len(s) : s[p].key = s[r].key => p = r
  BY DEF FlatTo
<1>5. /\ u \in Seq(Node) /\ Len(u) = Len(s) + Len(z)
      /\ \A j \in 1..Len(s) : u[j] = s[j]
      /\ \A j \in 1..Len(z) : u[Len(s) + j] = z[j]
  <2>1. s \in Seq(Node) /\ z \in Seq(Node) /\ u = s \o z BY <1>1, <1>3, <1>4
  <2> QED BY ONLY <2>1, JoinedIs
<1>6. Len(z) \in Nat BY <1>3
<1>7. \A p \in 1..Len(u) : p \in 1..Len(s) \/ (p - Len(s) \in 1..Len(z) /\ u[p] = z[p - Len(s)])
  <2> TAKE p \in 1..Len(u)
  <2>1. CASE p <= Len(s) BY <1>4, <2>1
  <2>2. CASE p > Len(s)
    <3>1. p - Len(s) \in 1..Len(z) /\ Len(s) + (p - Len(s)) = p BY <1>4, <1>5, <1>6, <2>2
    <3> QED BY <1>5, <3>1
  <2> QED BY <1>4, <2>1, <2>2
<1>8. ASSUME NEW p \in 1..Len(u) PROVE \E i \in 1..n + 1 : \E j \in 1..Len(b[i]) : u[p] = b[i][j]
  <2>1. CASE p \in 1..Len(s)
    <3>1. PICK i \in 1..n : \E j \in 1..Len(b[i]) : s[p] = b[i][j] BY <1>4, <2>1
    <3>2. i \in 1..n + 1 BY <1>2
    <3>3. u[p] = s[p] BY <1>5, <2>1
    <3> QED BY <3>1, <3>2, <3>3
  <2>2. CASE p - Len(s) \in 1..Len(z) /\ u[p] = z[p - Len(s)]
    <3>1. n + 1 \in 1..n + 1 BY <1>2
    <3> QED BY <1>1, <2>2, <3>1
  <2> QED BY <1>7, <2>1, <2>2
<1>9. ASSUME NEW i \in 1..n + 1, NEW j \in 1..Len(b[i]) PROVE \E p \in 1..Len(u) : u[p] = b[i][j]
  <2>1. CASE i \in 1..n
    <3>1. PICK p \in 1..Len(s) : s[p] = b[i][j] BY <1>4, <2>1
    <3>2. p \in 1..Len(u) BY <1>4, <1>5, <1>6
    <3> QED BY <1>5, <3>1, <3>2
  <2>2. CASE i = n + 1
    <3>1. j \in 1..Len(z) /\ z[j] = b[i][j] BY <1>1, <2>2
    <3>4. Len(s) \in Nat /\ Len(z) \in Nat /\ Len(u) = Len(s) + Len(z) BY <1>4, <1>5, <1>6
    <3>2. Len(s) + j \in 1..Len(u) BY ONLY <3>1, <3>4
    <3> QED BY <1>5, <3>1, <3>2
  <2> QED BY <1>2, <2>1, <2>2
<1>10. \A p \in 1..Len(s), j \in 1..Len(z) : s[p].key # z[j].key
  <2> TAKE p \in 1..Len(s), j \in 1..Len(z)
  <2>4. PICK i \in 1..n : \E k \in 1..Len(b[i]) : s[p] = b[i][k] BY <1>4
  <2>1. PICK k \in 1..Len(b[i]) : s[p] = b[i][k] BY <2>4
  <2>2. i # n + 1 /\ i \in 1..Len(b) BY <1>2
  <2>3. j \in 1..Len(b[n + 1]) /\ z[j] = b[n + 1][j] BY <1>1
  <2> QED BY <1>2, <2>1, <2>2, <2>3 DEF KeysOnce
<1>11. \A j, k \in 1..Len(z) : z[j].key = z[k].key => j = k BY <1>1, <1>2 DEF KeysOnce
<1>12. ASSUME NEW p \in 1..Len(u), NEW r \in 1..Len(u), u[p].key = u[r].key PROVE p = r
  <2>1. CASE p \in 1..Len(s) /\ r \in 1..Len(s)
    <3>1. s[p].key = s[r].key BY <1>5, <1>12, <2>1
    <3> QED BY <1>4, <2>1, <3>1
  <2>2. CASE p \in 1..Len(s) /\ r \notin 1..Len(s)
    <3>1. r - Len(s) \in 1..Len(z) /\ u[r] = z[r - Len(s)] BY <1>7, <2>2
    <3>2. u[p] = s[p] BY <1>5, <2>2
    <3> QED BY <1>10, <1>12, <2>2, <3>1, <3>2
  <2>3. CASE p \notin 1..Len(s) /\ r \in 1..Len(s)
    <3>1. p - Len(s) \in 1..Len(z) /\ u[p] = z[p - Len(s)] BY <1>7, <2>3
    <3>2. u[r] = s[r] BY <1>5, <2>3
    <3> QED BY <1>10, <1>12, <2>3, <3>1, <3>2
  <2>4. CASE p \notin 1..Len(s) /\ r \notin 1..Len(s)
    <3>1. /\ p - Len(s) \in 1..Len(z) /\ u[p] = z[p - Len(s)]
          /\ r - Len(s) \in 1..Len(z) /\ u[r] = z[r - Len(s)]
      BY <1>7, <2>4
    <3>2. z[p - Len(s)].key = z[r - Len(s)].key BY <1>12, <3>1
    <3>3. p - Len(s) = r - Len(s) BY <1>11, <3>1, <3>2
    <3> QED BY <1>4, <3>3
  <2> QED BY <2>1, <2>2, <2>3, <2>4
<1>13. FlatTo(b, n + 1, u) BY <1>5, <1>8, <1>9, <1>12 DEF FlatTo
<1> QED BY <1>1, <1>13

\* What FlattenSeq returns for the buckets of a map.
LEMMA FlattenIs ==
    ASSUME NEW b, b \in Seq(Seq(Node)), KeysOnce(b)
    PROVE  FlatTo(b, Len(b), FlattenSeq(b))
<1>1. CASE Len(b) = 0
  <2>1. FlattenSeq(b) = b BY <1>1 DEF FlattenSeq
  <2>2. b \in Seq(Node) BY <1>1
  <2> QED BY <1>1, <2>1, <2>2 DEF FlatTo
<1>2. CASE Len(b) # 0
  <2>1. PICK L, g : L = Len(b) /\ g = CHOOSE h : Flattens(b, L, h) OBVIOUS
  <2>2. L \in Nat /\ L # 0 BY <1>2, <2>1
  <2>3. Flattens(b, L, g)
    <3>1. \E h : Flattens(b, L, h) BY <2>2, FlattensExist
    <3> QED BY <2>1, <3>1
  <2>4. FlattenSeq(b) = g[L] BY <1>2, <2>1 DEF FlattenSeq, Flattens
  <2>5. \A i \in 1..L : g[i] = IF i = 1 THEN b[i] ELSE g[i - 1] \o b[i] BY <2>3 DEF Flattens
  <2>6. \A i \in Nat : 1 <= i /\ i <= L => FlatTo(b, i, g[i])
    <3> DEFINE Bad == {i \in Nat : 1 <= i /\ i <= L /\ ~FlatTo(b, i, g[i])}
    <3> SUFFICES ASSUME Bad # {} PROVE FALSE OBVIOUS
    <3>1. PICK m \in Bad : \A k \in Bad : m <= k BY LeastNumber
    <3>2. m # 1
      <4>1. g[1] = b[1] BY <2>2, <2>5
      <4>2. FlatTo(b, 1, b[1]) BY <1>2, FlatFirst
      <4> QED BY <3>1, <4>1, <4>2
    <3>3. m - 1 \in Nat /\ 1 <= m - 1 /\ m - 1 <= L /\ m - 1 \in 1..L - 1 /\ m \in 1..L /\ ~(m <= m - 1)
          /\ m - 1 + 1 = m
      BY <2>2, <3>1, <3>2
    <3>4. FlatTo(b, m - 1, g[m - 1]) BY <3>1, <3>3
    <3>5. g[m] = g[m - 1] \o b[m] BY <2>5, <3>2, <3>3
    <3>6. FlatTo(b, m - 1 + 1, g[m - 1] \o b[m - 1 + 1]) BY <2>1, <3>3, <3>4, FlatStep
    <3>7. FlatTo(b, m, g[m]) BY <3>3, <3>5, <3>6
    <3> QED BY <3>1, <3>7
  <2>7. L \in Nat /\ 1 <= L /\ L <= L BY <2>2
  <2>8. FlatTo(b, L, g[L]) BY <2>6, <2>7
  <2> QED BY <2>1, <2>4, <2>8
<1> QED BY <1>1, <1>2

-----------------------------------------------------------------------------
(* The buckets of a map.                                                   *)

\* The bucket of k among c, when h is the hash function.
Slot(h, k, c) == (h[k] % c) + 1

\* The c buckets of b hold the nodes of N, each once, in the bucket of its key.
Table(h, b, c, N) ==
    /\ b \in Seq(Seq(Node)) /\ Len(b) = c /\ N \subseteq Node
    /\ \A i \in 1..c : \A j \in 1..Len(b[i]) : b[i][j] \in N /\ Slot(h, b[i][j].key, c) = i
    /\ \A i \in 1..c : \A j, k \in 1..Len(b[i]) : b[i][j].key = b[i][k].key => j = k
    /\ \A n \in N : /\ Slot(h, n.key, c) \in 1..c
                    /\ \E j \in 1..Len(b[Slot(h, n.key, c)]) : b[Slot(h, n.key, c)][j] = n

LEMMA SlotIn ==
    ASSUME NEW h, h \in [Keys -> Nat], NEW k, k \in Keys, NEW c, c \in Nat \ {0}
    PROVE  Slot(h, k, c) \in 1..c
<1>1. PICK a : a = h[k] OBVIOUS
<1>2. a \in Nat BY <1>1
<1>3. a % c \in 0..c - 1 BY <1>2
<1>4. (a % c) + 1 \in 1..c BY <1>2, <1>3
<1> QED BY <1>1, <1>4 DEF Slot

LEMMA TableIs ==
    ASSUME NEW h, NEW b, NEW c, NEW N, Table(h, b, c, N)
    PROVE  /\ b \in Seq(Seq(Node)) /\ Len(b) = c /\ c \in Nat /\ N \subseteq Node
           /\ \A i \in 1..c : b[i] \in Seq(Node) /\ Len(b[i]) \in Nat
           /\ \A i \in 1..c : \A j \in 1..Len(b[i]) :
                 b[i][j] \in N /\ Slot(h, b[i][j].key, c) = i /\ b[i][j].key \in Keys
           /\ \A i \in 1..c : \A j, k \in 1..Len(b[i]) : b[i][j].key = b[i][k].key => j = k
<1>1. b \in Seq(Seq(Node)) /\ Len(b) = c /\ N \subseteq Node BY DEF Table
<1>2. c \in Nat /\ \A i \in 1..c : b[i] \in Seq(Node) BY <1>1
<1>3. \A i \in 1..c : Len(b[i]) \in Nat BY <1>2
<1>4. \A n \in Node : n.key \in Keys BY DEF Node
<1> QED BY <1>1, <1>2, <1>3, <1>4 DEF Table

\* The node of each key is one.
LEMMA TableOne ==
    ASSUME NEW h, NEW b, NEW c, NEW N, Table(h, b, c, N), NEW n, n \in N, NEW m, m \in N, n.key = m.key
    PROVE  n = m
<1>1. PICK i : i = Slot(h, n.key, c) OBVIOUS
<1>2. i \in 1..c /\ (\E j \in 1..Len(b[i]) : b[i][j] = n) /\ \E j \in 1..Len(b[i]) : b[i][j] = m
  BY <1>1 DEF Table
<1>3. PICK j \in 1..Len(b[i]) : b[i][j] = n BY <1>2
<1>4. PICK k \in 1..Len(b[i]) : b[i][k] = m BY <1>2
<1>5. j = k BY <1>2, <1>3, <1>4 DEF Table
<1> QED BY <1>3, <1>4, <1>5

\* In all buckets, too, keys are different.
LEMMA TableKeys ==
    ASSUME NEW h, NEW b, NEW c, NEW N, Table(h, b, c, N)
    PROVE  KeysOnce(b)
<1> SUFFICES ASSUME NEW i \in 1..Len(b), NEW p \in 1..Len(b), NEW j \in 1..Len(b[i]), NEW k \in 1..Len(b[p]),
                    b[i][j].key = b[p][k].key
             PROVE  i = p /\ j = k
    BY DEF KeysOnce
<1>1. Len(b) = c BY DEF Table
<1>2. Slot(h, b[i][j].key, c) = i /\ Slot(h, b[p][k].key, c) = p BY <1>1 DEF Table
<1>3. i = p BY <1>2
<1>4. j = k BY <1>1, <1>3 DEF Table
<1> QED BY <1>3, <1>4

LEMMA TableEmpty ==
    ASSUME NEW h, NEW c, c \in Nat, NEW b, b = [i \in 1..c |-> <<>>]
    PROVE  Table(h, b, c, {})
<1>1. b \in Seq(Seq(Node)) /\ Len(b) = c OBVIOUS
<1>2. \A i \in 1..c : Len(b[i]) = 0 OBVIOUS
<1> QED BY <1>1, <1>2 DEF Table

PushedOn(h, b, c, n) == [b EXCEPT ![Slot(h, n.key, c)] = PushFront(@, n)]


\* One node more, with a new key.
LEMMA TablePush ==
    ASSUME NEW h, h \in [Keys -> Nat], NEW b, NEW c, c \in Nat \ {0}, NEW N, Table(h, b, c, N),
           NEW n, n \in Node, \A m \in N : m.key # n.key
    PROVE  Table(h, PushedOn(h, b, c, n), c, N \cup {n})
<1>1. PICK i, t, u, d : i = Slot(h, n.key, c) /\ t = b[i] /\ u = PushFront(t, n) /\ d = PushedOn(h, b, c, n) OBVIOUS
<1>2. n.key \in Keys BY DEF Node
<1>3. i \in 1..c BY <1>1, <1>2, SlotIn
<1>4. b \in Seq(Seq(Node)) /\ Len(b) = c /\ t \in Seq(Node) /\ N \subseteq Node
  BY <1>1, <1>3 DEF Table
<1>5. u \in Seq(Node) /\ Len(u) = Len(t) + 1 /\ u[1] = n /\ \A j \in 1..Len(t) : u[j + 1] = t[j]
  <2>1. t \in Seq(Node) /\ n \in Node BY <1>4
  <2>2. u = PushFront(t, n) BY <1>1
  <2>3. u = <<n>> \o t BY <2>2 DEF PushFront
  <2> QED BY ONLY <2>1, <2>3
<1>6. d = [b EXCEPT ![i] = u] BY <1>1 DEF PushedOn
<1>7. d \in Seq(Seq(Node)) /\ Len(d) = c /\ d[i] = u /\ \A p \in 1..c : p # i => d[p] = b[p]
  BY <1>3, <1>4, <1>5, <1>6
<1>8. Len(t) \in Nat BY <1>4
<1>9. \A j \in 1..Len(u) : j # 1 => j - 1 \in 1..Len(t) /\ u[j] = t[j - 1]
  <2> SUFFICES ASSUME NEW j \in 1..Len(u), j # 1 PROVE j - 1 \in 1..Len(t) /\ u[j] = t[j - 1] OBVIOUS
  <2>1. j - 1 \in 1..Len(t) /\ j - 1 + 1 = j BY <1>5, <1>8
  <2> QED BY <1>5, <2>1
<1>10. \A j \in 1..Len(t) : t[j] \in N /\ Slot(h, t[j].key, c) = i BY <1>1, <1>3 DEF Table
<1>11. ASSUME NEW p \in 1..c, NEW j \in 1..Len(d[p]) PROVE d[p][j] \in N \cup {n} /\ Slot(h, d[p][j].key, c) = p
  <2>1. CASE p # i BY <1>7, <2>1 DEF Table
  <2>2. CASE p = i /\ j = 1 BY <1>1, <1>5, <1>7, <2>2
  <2>3. CASE p = i /\ j # 1 BY <1>7, <1>9, <1>10, <2>3
  <2> QED BY <2>1, <2>2, <2>3
<1>12. ASSUME NEW p \in 1..c, NEW j \in 1..Len(d[p]), NEW k \in 1..Len(d[p]), d[p][j].key = d[p][k].key
       PROVE  j = k
  <2>1. CASE p # i BY <1>7, <1>12, <2>1 DEF Table
  <2>2. CASE p = i
    <3>1. j \in 1..Len(u) /\ k \in 1..Len(u) /\ u[j].key = u[k].key BY <1>7, <1>12, <2>2
    <3>2. CASE j = 1 /\ k # 1
      <4>1. u[k] \in N BY <1>9, <1>10, <3>1, <3>2
      <4> QED BY <1>5, <3>1, <3>2, <4>1
    <3>3. CASE j # 1 /\ k = 1
      <4>1. u[j] \in N BY <1>9, <1>10, <3>1, <3>3
      <4> QED BY <1>5, <3>1, <3>3, <4>1
    <3>4. CASE j # 1 /\ k # 1
      <4>1. j - 1 \in 1..Len(t) /\ k - 1 \in 1..Len(t) /\ t[j - 1].key = t[k - 1].key
        BY <1>9, <3>1, <3>4
      <4>2. \A a, e \in 1..Len(t) : t[a].key = t[e].key => a = e BY <1>1, <1>3 DEF Table
      <4>3. j - 1 = k - 1 BY <4>1, <4>2
      <4> QED BY <3>1, <4>3
    <3> QED BY <3>2, <3>3, <3>4
  <2> QED BY <2>1, <2>2
<1>13. ASSUME NEW m \in N \cup {n}
       PROVE  Slot(h, m.key, c) \in 1..c /\ \E j \in 1..Len(d[Slot(h, m.key, c)]) : d[Slot(h, m.key, c)][j] = m
  <2>1. CASE m = n
    <3>1. 1 \in 1..Len(u) BY <1>5, <1>8
    <3> QED BY <1>1, <1>3, <1>5, <1>7, <2>1, <3>1
  <2>2. CASE m \in N
    <3>1. PICK p : p = Slot(h, m.key, c) OBVIOUS
    <3>2. p \in 1..c /\ \E j \in 1..Len(b[p]) : b[p][j] = m BY <2>2, <3>1 DEF Table
    <3>3. PICK j \in 1..Len(b[p]) : b[p][j] = m BY <3>2
    <3>4. CASE p # i BY <1>7, <3>1, <3>2, <3>3, <3>4
    <3>5. CASE p = i
      <4>1. j \in 1..Len(t) /\ t[j] = m BY <1>1, <3>3, <3>5
      <4>2. j + 1 \in 1..Len(u) BY <1>5, <1>8, <4>1
      <4>3. u[j + 1] = m BY <1>5, <4>1
      <4> QED BY <1>7, <3>1, <3>2, <3>5, <4>2, <4>3
    <3> QED BY <3>4, <3>5
  <2> QED BY <2>1, <2>2
<1>14. N \cup {n} \subseteq Node BY <1>4
<1>15. Table(h, d, c, N \cup {n}) BY <1>7, <1>11, <1>12, <1>13, <1>14 DEF Table
<1> QED BY <1>1, <1>15

-----------------------------------------------------------------------------
(* rehash.                                                                 *)

Moves(h, nodes, c, n, g) ==
    g = [j \in 0..n |-> IF j = 0 THEN [i \in 1..c |-> <<>>] ELSE PushedOn(h, g[j - 1], c, nodes[j])]

LEMMA MovesExist ==
    ASSUME NEW h, NEW nodes, NEW c, NEW n \in Nat
    PROVE  \E g : Moves(h, nodes, c, n, g)
<1>1. PICK start : start = [i \in 1..c |-> <<>>] OBVIOUS
<1>2. \A m, g : Moves(h, nodes, c, m, g)
                   <=> g = [j \in 0..m |-> IF j = 0 THEN start ELSE PushedOn(h, g[j - 1], c, nodes[j])]
  BY <1>1 DEF Moves
<1> DEFINE Bad == {m \in Nat : ~ \E g : Moves(h, nodes, c, m, g)}
<1> SUFFICES ASSUME Bad # {} PROVE FALSE OBVIOUS
<1>3. PICK m \in Bad : \A k \in Bad : m <= k BY LeastNumber
<1>4. m # 0
  <2>1. PICK g : g = [j \in 0..0 |-> start] OBVIOUS
  <2>2. g = [j \in 0..0 |-> IF j = 0 THEN start ELSE PushedOn(h, g[j - 1], c, nodes[j])] BY <2>1
  <2>3. Moves(h, nodes, c, 0, g) BY <1>2, <2>2
  <2> QED BY <2>3
<1>5. PICK g : Moves(h, nodes, c, m - 1, g) BY <1>3, <1>4
<1>6. PICK last : last = PushedOn(h, g[m - 1], c, nodes[m]) OBVIOUS
<1>7. PICK f : f = [k \in 0..m |-> IF k = m THEN last ELSE g[k]] OBVIOUS
<1>8. \A k \in 0..m : f[k] = IF k = 0 THEN start ELSE PushedOn(h, f[k - 1], c, nodes[k])
  <2> SUFFICES ASSUME NEW k \in 0..m
               PROVE  f[k] = IF k = 0 THEN start ELSE PushedOn(h, f[k - 1], c, nodes[k])
      OBVIOUS
  <2>1. m \in Nat BY <1>3
  <2>2. CASE k = m
    <3>1. f[k - 1] = g[m - 1] BY <1>4, <1>7, <2>1, <2>2
    <3>2. f[k] = last BY <1>7, <2>2
    <3> QED BY <1>4, <1>6, <2>2, <3>1, <3>2
  <2>3. CASE k # m
    <3>1. k \in 0..(m - 1) BY <2>1, <2>3
    <3>2. g[k] = IF k = 0 THEN start ELSE PushedOn(h, g[k - 1], c, nodes[k]) BY <1>2, <1>5, <3>1
    <3>3. k # 0 => f[k - 1] = g[k - 1] BY <1>7, <2>1, <2>3
    <3>4. f[k] = g[k] BY <1>7, <2>3
    <3> QED BY <3>2, <3>3, <3>4
  <2> QED BY <2>2, <2>3
<1>9. f = [j \in 0..m |-> IF j = 0 THEN start ELSE PushedOn(h, f[j - 1], c, nodes[j])] BY <1>7, <1>8
<1>10. Moves(h, nodes, c, m, f) BY <1>2, <1>9
<1> QED BY <1>3, <1>10

AllOf(nodes) == {nodes[p] : p \in 1..Len(nodes)}

\* A table of nodes that are pushed one after the other.
LEMMA TableMoves ==
    ASSUME NEW h, h \in [Keys -> Nat], NEW nodes, nodes \in Seq(Node), NEW c, c \in Nat \ {0},
           \A p, r \in 1..Len(nodes) : nodes[p].key = nodes[r].key => p = r,
           NEW g, Moves(h, nodes, c, Len(nodes), g)
    PROVE  Table(h, g[Len(nodes)], c, AllOf(nodes))
<1>1. PICK L : L = Len(nodes) OBVIOUS
<1>2. L \in Nat BY <1>1
<1>3. PICK start : start = [i \in 1..c |-> <<>>] OBVIOUS
<1>4. \A j \in 0..L : g[j] = IF j = 0 THEN start ELSE PushedOn(h, g[j - 1], c, nodes[j])
  BY <1>1, <1>3 DEF Moves
<1> DEFINE Upto(k) == {nodes[p] : p \in 1..k}
<1>5. \A k \in Nat : k <= L => Table(h, g[k], c, Upto(k))
  <2> DEFINE Bad == {k \in Nat : k <= L /\ ~Table(h, g[k], c, Upto(k))}
  <2> SUFFICES ASSUME Bad # {} PROVE FALSE OBVIOUS
  <2>1. PICK m \in Bad : \A k \in Bad : m <= k BY LeastNumber
  <2>2. m # 0
    <3>1. g[0] = start BY <1>2, <1>4
    <3>2. Upto(0) = {} OBVIOUS
    <3>3. Table(h, start, c, {}) BY <1>3, TableEmpty
    <3> QED BY <2>1, <3>1, <3>2, <3>3
  <2>3. m - 1 \in Nat /\ m - 1 <= L /\ m \in 1..L /\ ~(m <= m - 1) BY <1>2, <2>1, <2>2
  <2>4. Table(h, g[m - 1], c, Upto(m - 1)) BY <2>1, <2>3
  <2>5. g[m] = PushedOn(h, g[m - 1], c, nodes[m]) BY <1>4, <2>3
  <2>6. nodes[m] \in Node BY <1>1, <2>3
  <2>7. \A n \in Upto(m - 1) : n.key # nodes[m].key
    <3> TAKE n \in Upto(m - 1)
    <3>1. PICK p \in 1..m - 1 : n = nodes[p] OBVIOUS
    <3>2. p \in 1..L /\ p # m BY <1>2, <2>3
    <3> QED BY <1>1, <2>3, <3>1, <3>2
  <2>8. PICK N, b, n : N = Upto(m - 1) /\ b = g[m - 1] /\ n = nodes[m] OBVIOUS
  <2>9. Table(h, PushedOn(h, b, c, n), c, N \cup {n}) BY <2>4, <2>6, <2>7, <2>8, TablePush
  <2>10. Upto(m) = N \cup {n}
    <3>1. \A p \in 1..m : p = m \/ p \in 1..m - 1 BY <2>3
    <3>2. \A p \in 1..m - 1 : p \in 1..m BY <2>3
    <3> QED BY <2>3, <2>8, <3>1, <3>2
  <2>11. Table(h, g[m], c, Upto(m)) BY <2>5, <2>8, <2>9, <2>10
  <2> QED BY <2>1, <2>11
<1>6. L <= L BY <1>2
<1>7. Table(h, g[L], c, Upto(L)) BY <1>2, <1>5, <1>6
<1> QED BY <1>1, <1>7 DEF AllOf

\* rehash keeps all nodes.
LEMMA TableRehash ==
    ASSUME NEW h, h = hashOf.fn, h \in [Keys -> Nat], NEW b, NEW c, NEW N, Table(h, b, c, N), NEW d, d \in Nat \ {0}
    PROVE  Table(h, Rehashed(b, d), d, N)
<1>1. PICK nodes, L : nodes = FlattenSeq(b) /\ L = Len(nodes) OBVIOUS
<1>2. b \in Seq(Seq(Node)) /\ Len(b) = c /\ N \subseteq Node BY DEF Table
<1>3. FlatTo(b, Len(b), nodes) BY <1>1, <1>2, TableKeys, FlattenIs
<1>4. /\ nodes \in Seq(Node)
      /\ \A p \in 1..Len(nodes) : \E i \in 1..c : \E j \in 1..Len(b[i]) : nodes[p] = b[i][j]
      /\ \A i \in 1..c : \A j \in 1..Len(b[i]) : \E p \in 1..Len(nodes) : nodes[p] = b[i][j]
      /\ \A p, r \in 1..Len(nodes) : nodes[p].key = nodes[r].key => p = r
  BY <1>2, <1>3 DEF FlatTo
<1>5. L \in Nat BY <1>1, <1>4
<1>6. PICK g : g = CHOOSE f : Moves(h, nodes, d, L, f) OBVIOUS
<1>7. Moves(h, nodes, d, L, g)
  <2>1. \E f : Moves(h, nodes, d, L, f) BY <1>5, MovesExist
  <2> QED BY <1>6, <2>1
<1>8. Rehashed(b, d) = g[L] BY <1>1, <1>6 DEF Rehashed, Moves, PushedOn, IndexOf, Slot
<1>9. N = AllOf(nodes)
  <2>1. ASSUME NEW n \in N PROVE n \in AllOf(nodes)
    <3>1. PICK i : i = Slot(h, n.key, c) OBVIOUS
    <3>2. i \in 1..c /\ \E j \in 1..Len(b[i]) : b[i][j] = n BY <3>1 DEF Table
    <3>3. PICK j \in 1..Len(b[i]) : b[i][j] = n BY <3>2
    <3>4. PICK p \in 1..Len(nodes) : nodes[p] = b[i][j] BY <1>4, <3>2
    <3> QED BY <3>3, <3>4 DEF AllOf
  <2>2. ASSUME NEW p \in 1..Len(nodes) PROVE nodes[p] \in N
    <3>1. PICK i \in 1..c : \E j \in 1..Len(b[i]) : nodes[p] = b[i][j] BY <1>4
    <3>2. PICK j \in 1..Len(b[i]) : nodes[p] = b[i][j] BY <3>1
    <3> QED BY <3>2 DEF Table
  <2> QED BY <2>1, <2>2 DEF AllOf
<1>10. Table(h, g[L], d, AllOf(nodes)) BY <1>1, <1>4, <1>7, TableMoves
<1> QED BY <1>8, <1>9, <1>10

-----------------------------------------------------------------------------
(* The other changes.                                                      *)

Dropped(b, i, j) == [b EXCEPT ![i] = RemoveAt(@, j)]

\* One node less.
LEMMA TableErase ==
    ASSUME NEW h, NEW b, NEW c, NEW N, Table(h, b, c, N), NEW i, i \in 1..c, NEW j, j \in 1..Len(b[i]),
           NEW n, n = b[i][j]
    PROVE  Table(h, Dropped(b, i, j), c, N \ {n})
<1>1. PICK t, u, d : t = b[i] /\ u = RemoveAt(t, j) /\ d = Dropped(b, i, j) OBVIOUS
<1>2. b \in Seq(Seq(Node)) /\ Len(b) = c /\ t \in Seq(Node) /\ N \subseteq Node
  BY <1>1 DEF Table
<1>3. Del(Node, t, j, u)
  <2>1. t \in Seq(Node) /\ j \in 1..Len(t) BY <1>1, <1>2
  <2>2. Del(Node, t, j, RemoveAt(t, j)) BY <2>1, DelIs
  <2> QED BY <1>1, <2>2
<1>4. u \in Seq(Node) /\ Len(u) = Len(t) - 1 /\ \A p \in 1..Len(t) - 1 : u[p] = IF p < j THEN t[p] ELSE t[p + 1]
  BY <1>3 DEF Del
<1>5. d = [b EXCEPT ![i] = u] BY <1>1 DEF Dropped
<1>6. d \in Seq(Seq(Node)) /\ Len(d) = c /\ d[i] = u /\ \A p \in 1..c : p # i => d[p] = b[p]
  BY <1>2, <1>4, <1>5
<1>7. Len(t) \in Nat /\ j \in 1..Len(t) /\ n = t[j] BY <1>1, <1>2
<1> DEFINE Was(p) == IF p < j THEN p ELSE p + 1
<1>8. \A p \in 1..Len(u) : u[p] = t[Was(p)] /\ Was(p) \in 1..Len(t) /\ Was(p) # j BY <1>4, <1>7
<1>9. \A p, r \in 1..Len(u) : Was(p) = Was(r) => p = r BY <1>4, <1>7
<1>10. \A r \in 1..Len(t) : r # j => \E p \in 1..Len(u) : Was(p) = r
  <2> SUFFICES ASSUME NEW r \in 1..Len(t), r # j PROVE \E p \in 1..Len(u) : Was(p) = r OBVIOUS
  <2>1. CASE r < j
    <3>1. r \in 1..Len(u) /\ Was(r) = r BY <1>4, <1>7, <2>1
    <3> QED BY <3>1
  <2>2. CASE r > j
    <3>1. r - 1 \in 1..Len(u) /\ Was(r - 1) = r BY <1>4, <1>7, <2>2
    <3> QED BY <3>1
  <2> QED BY <1>7, <2>1, <2>2
<1> HIDE DEF Was
<1>11. \A p \in 1..Len(t) : t[p] \in N /\ Slot(h, t[p].key, c) = i BY <1>1 DEF Table
<1>12. \A p, r \in 1..Len(t) : t[p].key = t[r].key => p = r BY <1>1 DEF Table
<1>13. ASSUME NEW p \in 1..c, NEW q \in 1..Len(d[p]) PROVE d[p][q] \in N \ {n} /\ Slot(h, d[p][q].key, c) = p
  <2>1. CASE p # i
    <3>1. d[p][q] \in N /\ Slot(h, d[p][q].key, c) = p BY <1>6, <2>1 DEF Table
    <3>2. Slot(h, n.key, c) = i BY <1>7, <1>11
    <3> QED BY <2>1, <3>1, <3>2
  <2>2. CASE p = i
    <3>1. q \in 1..Len(u) /\ d[p][q] = t[Was(q)] /\ Was(q) \in 1..Len(t) /\ Was(q) # j BY <1>6, <1>8, <2>2
    <3>2. t[Was(q)] # n BY <1>7, <1>12, <3>1
    <3> QED BY <1>11, <2>2, <3>1, <3>2
  <2> QED BY <2>1, <2>2
<1>14. ASSUME NEW p \in 1..c, NEW q \in 1..Len(d[p]), NEW k \in 1..Len(d[p]), d[p][q].key = d[p][k].key
       PROVE  q = k
  <2>1. CASE p # i BY <1>6, <1>14, <2>1 DEF Table
  <2>2. CASE p = i
    <3>1. q \in 1..Len(u) /\ k \in 1..Len(u) /\ u[q].key = u[k].key BY <1>6, <1>14, <2>2
    <3>2. Was(q) = Was(k) BY <1>8, <1>12, <3>1
    <3> QED BY <1>9, <3>1, <3>2
  <2> QED BY <2>1, <2>2
<1>15. ASSUME NEW m \in N \ {n}
       PROVE  Slot(h, m.key, c) \in 1..c /\ \E q \in 1..Len(d[Slot(h, m.key, c)]) : d[Slot(h, m.key, c)][q] = m
  <2>1. PICK p : p = Slot(h, m.key, c) OBVIOUS
  <2>2. p \in 1..c /\ \E q \in 1..Len(b[p]) : b[p][q] = m BY <2>1 DEF Table
  <2>3. PICK q \in 1..Len(b[p]) : b[p][q] = m BY <2>2
  <2>4. CASE p # i BY <1>6, <2>1, <2>2, <2>3, <2>4
  <2>5. CASE p = i
    <3>1. q \in 1..Len(t) /\ t[q] = m /\ q # j BY <1>1, <1>7, <2>3, <2>5
    <3>2. PICK r \in 1..Len(u) : Was(r) = q BY <1>10, <3>1
    <3>3. u[r] = m BY <1>8, <3>1, <3>2
    <3> QED BY <1>6, <2>1, <2>2, <2>5, <3>2, <3>3
  <2> QED BY <2>4, <2>5
<1>16. N \ {n} \subseteq Node BY <1>2
<1>17. Table(h, d, c, N \ {n}) BY <1>6, <1>13, <1>14, <1>15, <1>16 DEF Table
<1> QED BY <1>1, <1>17

\* SetNode, for the buckets.
Revalued(b, i, k, v) ==
    [b EXCEPT ![i] = [j \in DOMAIN @ |-> IF @[j].key = k THEN [@[j] EXCEPT !.val = v] ELSE @[j]]]

\* u has the keys of t.
SameKeys(t, u) == Len(u) = Len(t) /\ \A j \in 1..Len(t) : u[j].key = t[j].key

LEMMA RevaluedIs ==
    ASSUME NEW t, t \in Seq(Node), NEW k, k \in Keys, NEW v, v \in Vals,
           NEW u, u = [j \in DOMAIN t |-> IF t[j].key = k THEN [t[j] EXCEPT !.val = v] ELSE t[j]]
    PROVE  /\ u \in Seq(Node) /\ SameKeys(t, u)
           /\ \A j \in 1..Len(t) : u[j] = IF t[j].key = k THEN [key |-> k, val |-> v] ELSE t[j]
<1>1. DOMAIN t = 1..Len(t) /\ Len(t) \in Nat OBVIOUS
<1>2. \A n \in Node : n = [key |-> n.key, val |-> n.val] /\ n.key \in Keys BY DEF Node
<1>3. \A j \in 1..Len(t) : t[j] \in Node OBVIOUS
<1>4. \A j \in 1..Len(t) : t[j].key = k => [t[j] EXCEPT !.val = v] = [key |-> k, val |-> v]
  <2> TAKE j \in 1..Len(t)
  <2> HAVE t[j].key = k
  <2>1. PICK a, n : n = t[j] /\ a = n.val OBVIOUS
  <2>2. n = [key |-> k, val |-> a] BY <1>2, <1>3, <2>1
  <2>3. [n EXCEPT !.val = v] = [key |-> k, val |-> v] BY <2>2
  <2> QED BY <2>1, <2>3
<1>5. \A j \in 1..Len(t) : u[j] = IF t[j].key = k THEN [key |-> k, val |-> v] ELSE t[j] BY <1>1, <1>4
<1>6. [key |-> k, val |-> v] \in Node BY DEF Node
<1>7. ASSUME NEW j \in 1..Len(t) PROVE u[j] \in Node /\ u[j].key = t[j].key
  <2>1. PICK m : m = [key |-> k, val |-> v] OBVIOUS
  <2>2. m \in Node /\ m.key = k BY <1>6, <2>1
  <2>3. CASE t[j].key = k
    <3>1. u[j] = m BY <1>5, <2>1, <2>3
    <3> QED BY <2>2, <2>3, <3>1
  <2>4. CASE t[j].key # k
    <3>1. u[j] = t[j] BY <1>5, <2>4
    <3> QED BY <1>3, <3>1
  <2> QED BY <2>3, <2>4
<1>8. u \in [1..Len(t) -> Node] BY <1>1, <1>7
<1>9. u \in Seq(Node) /\ Len(u) = Len(t) BY <1>1, <1>8
<1> QED BY <1>5, <1>7, <1>9 DEF SameKeys

\* One node gets another value.
LEMMA TableSet ==
    ASSUME NEW h, NEW b, NEW c, NEW N, Table(h, b, c, N), NEW n, n \in N, NEW v, v \in Vals,
           NEW m, m = [key |-> n.key, val |-> v], NEW i, i = Slot(h, n.key, c)
    PROVE  /\ Table(h, Revalued(b, i, n.key, v), c, (N \ {n}) \cup {m})
           /\ \A p \in 1..c : SameKeys(b[p], Revalued(b, i, n.key, v)[p])
<1>1. PICK k, t, d : k = n.key /\ t = b[i] /\ d = Revalued(b, i, k, v) OBVIOUS
<1>2. PICK u : u = [j \in DOMAIN t |-> IF t[j].key = k THEN [t[j] EXCEPT !.val = v] ELSE t[j]] OBVIOUS
<1>3. b \in Seq(Seq(Node)) /\ Len(b) = c /\ N \subseteq Node /\ i \in 1..c BY DEF Table
<1>4. t \in Seq(Node) /\ k \in Keys BY <1>1, <1>3 DEF Node
<1>5. /\ u \in Seq(Node) /\ SameKeys(t, u)
      /\ \A j \in 1..Len(t) : u[j] = IF t[j].key = k THEN m ELSE t[j]
  <2>1. /\ u \in Seq(Node) /\ SameKeys(t, u)
        /\ \A j \in 1..Len(t) : u[j] = IF t[j].key = k THEN [key |-> k, val |-> v] ELSE t[j]
    BY <1>2, <1>4, RevaluedIs
  <2>2. m = [key |-> k, val |-> v] BY <1>1
  <2> QED BY <2>1, <2>2
<1>6. d = [b EXCEPT ![i] = u] BY <1>1, <1>2 DEF Revalued
<1>7. d \in Seq(Seq(Node)) /\ Len(d) = c /\ d[i] = u /\ \A p \in 1..c : p # i => d[p] = b[p]
  BY <1>3, <1>5, <1>6
<1>8. m \in Node /\ m.key = k BY <1>1, <1>4 DEF Node
<1>9. \A p \in 1..c : SameKeys(b[p], d[p]) BY <1>1, <1>5, <1>7 DEF SameKeys
<1>10. \A j \in 1..Len(t) : t[j] \in N /\ Slot(h, t[j].key, c) = i BY <1>1, <1>3 DEF Table
<1>11. ASSUME NEW p \in 1..c, NEW j \in 1..Len(d[p])
       PROVE  d[p][j] \in (N \ {n}) \cup {m} /\ Slot(h, d[p][j].key, c) = p
  <2>1. CASE p # i
    <3>1. d[p][j] \in N /\ Slot(h, d[p][j].key, c) = p BY <1>7, <2>1 DEF Table
    <3> QED BY <2>1, <3>1
  <2>2. CASE p = i
    <3>1. j \in 1..Len(t) /\ d[p][j] = IF t[j].key = k THEN m ELSE t[j] BY <1>5, <1>7, <2>2 DEF SameKeys
    <3>2. CASE t[j].key = k BY <1>1, <1>8, <2>2, <3>1, <3>2
    <3>3. CASE t[j].key # k BY <1>1, <1>10, <2>2, <3>1, <3>3
    <3> QED BY <3>2, <3>3
  <2> QED BY <2>1, <2>2
<1>12. ASSUME NEW p \in 1..c, NEW j \in 1..Len(d[p]), NEW q \in 1..Len(d[p]), d[p][j].key = d[p][q].key
       PROVE  j = q
  <2>1. j \in 1..Len(b[p]) /\ q \in 1..Len(b[p]) /\ b[p][j].key = b[p][q].key BY <1>9, <1>12 DEF SameKeys
  <2> QED BY <2>1 DEF Table
<1>13. ASSUME NEW a \in (N \ {n}) \cup {m}
       PROVE  Slot(h, a.key, c) \in 1..c /\ \E j \in 1..Len(d[Slot(h, a.key, c)]) : d[Slot(h, a.key, c)][j] = a
  <2>1. PICK e : e = IF a = m THEN n ELSE a OBVIOUS
  <2>2. e \in N /\ e.key = a.key BY <1>1, <1>8, <2>1
  <2>3. PICK p : p = Slot(h, a.key, c) OBVIOUS
  <2>4. p \in 1..c /\ \E j \in 1..Len(b[p]) : b[p][j] = e BY <2>2, <2>3 DEF Table
  <2>5. PICK j \in 1..Len(b[p]) : b[p][j] = e BY <2>4
  <2>6. j \in 1..Len(d[p]) BY <1>9, <2>4, <2>5 DEF SameKeys
  <2>7. d[p][j] = a
    <3>1. CASE a = m
      <4>1. e.key = k /\ p = i BY <1>1, <1>8, <2>2, <2>3, <3>1
      <4>2. j \in 1..Len(t) /\ t[j].key = k BY <1>1, <2>5, <4>1
      <4> QED BY <1>5, <1>7, <3>1, <4>1, <4>2
    <3>2. CASE a # m
      <4>1. e = a /\ a \in N /\ a # n BY <2>1, <3>2
      <4>2. a.key # k BY <1>1, <4>1, TableOne
      <4>3. CASE p # i BY <1>7, <2>4, <2>5, <4>1, <4>3
      <4>4. CASE p = i
        <5>1. j \in 1..Len(t) /\ t[j] = a BY <1>1, <2>5, <4>1, <4>4
        <5> QED BY <1>5, <1>7, <4>2, <4>4, <5>1
      <4> QED BY <4>3, <4>4
    <3> QED BY <3>1, <3>2
  <2> QED BY <2>3, <2>4, <2>6, <2>7
<1>14. (N \ {n}) \cup {m} \subseteq Node BY <1>3, <1>8
<1>15. Table(h, d, c, (N \ {n}) \cup {m}) BY <1>7, <1>11, <1>12, <1>13, <1>14 DEF Table
<1> QED BY <1>1, <1>9, <1>15

-----------------------------------------------------------------------------
(* Looking up.                                                             *)

LEMMA PositionIs ==
    ASSUME NEW t, t \in Seq(Node), \A i, j \in 1..Len(t) : t[i].key = t[j].key => i = j, NEW k
    PROVE  /\ \A j \in 1..Len(t) : t[j].key = k => Position(t, k) = j
           /\ (\A j \in 1..Len(t) : t[j].key # k) => Position(t, k) = 0
<1>1. PICK at : at = {i \in DOMAIN t : t[i].key = k} OBVIOUS
<1>2. Position(t, k) = IF at = {} THEN 0 ELSE Min(at) BY <1>1 DEF Position
<1>3. DOMAIN t = 1..Len(t) OBVIOUS
<1>4. ASSUME NEW j \in 1..Len(t), t[j].key = k PROVE Position(t, k) = j
  <2>1. at = {j} BY <1>1, <1>3, <1>4
  <2>2. \A x \in {j} : (\A y \in {j} : x =< y) => x = j OBVIOUS
  <2>3. \E x \in {j} : \A y \in {j} : x =< y OBVIOUS
  <2>4. Min(at) = j BY <2>1, <2>2, <2>3 DEF Min
  <2> QED BY <1>2, <2>1, <2>4
<1>5. ASSUME \A j \in 1..Len(t) : t[j].key # k PROVE Position(t, k) = 0
  <2>1. at = {} BY <1>1, <1>3, <1>5
  <2> QED BY <1>2, <2>1
<1> QED BY <1>4, <1>5

\* find_node.
LEMMA FindIs ==
    ASSUME NEW h, h = hashOf.fn, h \in [Keys -> Nat], NEW b, NEW c, NEW N, Table(h, b, c, N), NEW k, k \in Keys
    PROVE  /\ \A n \in N : n.key = k => FindNode(b, k) = <<n>>
           /\ (\A n \in N : n.key # k) => FindNode(b, k) = <<>>
<1>1. b \in Seq(Seq(Node)) /\ Len(b) = c /\ c \in Nat BY TableIs
<1>2. PICK i, t, p : i = Slot(h, k, c) /\ t = b[i] /\ p = Position(t, k) OBVIOUS
<1>3. FindNode(b, k) = IF b = <<>> THEN <<>> ELSE IF p = 0 THEN <<>> ELSE <<t[p]>>
  BY <1>1, <1>2 DEF FindNode, IndexOf, Slot
<1>4. CASE b = <<>>
  <2>1. c = 0 BY <1>1, <1>4
  <2>2. N = {} BY <2>1 DEF Table
  <2> QED BY <1>3, <1>4, <2>2
<1>5. CASE b # <<>>
  <2>1. c \in Nat \ {0} BY <1>1, <1>5
  <2>2. i \in 1..c BY <1>2, <2>1, SlotIn
  <2>3. t \in Seq(Node) /\ \A j, r \in 1..Len(t) : t[j].key = t[r].key => j = r BY <1>1, <1>2, <2>2 DEF Table
  <2>4. /\ \A j \in 1..Len(t) : t[j].key = k => p = j
        /\ (\A j \in 1..Len(t) : t[j].key # k) => p = 0
    BY <1>2, <2>3, PositionIs
  <2>5. ASSUME NEW n \in N, n.key = k PROVE FindNode(b, k) = <<n>>
    <3>1. \E j \in 1..Len(t) : t[j] = n BY <1>2, <2>5 DEF Table
    <3>2. PICK j \in 1..Len(t) : t[j] = n BY <3>1
    <3>3. p = j /\ p # 0 BY <2>4, <2>5, <3>2
    <3> QED BY <1>3, <1>5, <3>2, <3>3
  <2>6. ASSUME \A n \in N : n.key # k PROVE FindNode(b, k) = <<>>
    <3>1. \A j \in 1..Len(t) : t[j] \in N BY <1>2, <2>2 DEF Table
    <3>2. p = 0 BY <2>4, <2>6, <3>1
    <3> QED BY <1>3, <1>5, <3>2
  <2> QED BY <2>5, <2>6
<1> QED BY <1>4, <1>5

-----------------------------------------------------------------------------
(* A map and its dictionary.                                               *)

Dicts == UNION {[D -> Vals] : D \in SUBSET Keys}

Entry(d, k) == [key |-> k, val |-> d[k]]

Entries(d) == {Entry(d, k) : k \in DOMAIN d}

\* The map m holds the dictionary d.
MapHolds(h, m, d) ==
    /\ m \in [buckets : Seq(Seq(Node)), size : Nat]
    /\ d \in Dicts /\ IsFiniteSet(DOMAIN d) /\ m.size = Cardinality(DOMAIN d)
    /\ Table(h, m.buckets, Len(m.buckets), Entries(d))

LEMMA DictsIs ==
    ASSUME NEW d
    PROVE  d \in Dicts <=> DOMAIN d \subseteq Keys /\ d \in [DOMAIN d -> Vals]
<1>1. ASSUME d \in Dicts PROVE DOMAIN d \subseteq Keys /\ d \in [DOMAIN d -> Vals]
  <2>1. PICK D \in SUBSET Keys : d \in [D -> Vals] BY <1>1 DEF Dicts
  <2> QED BY <2>1
<1>2. ASSUME DOMAIN d \subseteq Keys, d \in [DOMAIN d -> Vals] PROVE d \in Dicts
  <2>1. DOMAIN d \in SUBSET Keys BY <1>2
  <2> QED BY <1>2, <2>1 DEF Dicts
<1> QED BY <1>1, <1>2

LEMMA EntryIs ==
    ASSUME NEW d, d \in Dicts
    PROVE  /\ \A k \in DOMAIN d : Entry(d, k) \in Entries(d)
           /\ \A k \in DOMAIN d : k \in Keys /\ Entry(d, k) \in Node /\ Entry(d, k).key = k
           /\ \A n \in Entries(d) : n \in Node /\ n.key \in DOMAIN d /\ n = Entry(d, n.key)
<1>1. DOMAIN d \subseteq Keys /\ d \in [DOMAIN d -> Vals] BY DictsIs
<1>2. \A k \in DOMAIN d : Entry(d, k) \in Entries(d) BY DEF Entries
<1>3. ASSUME NEW k \in DOMAIN d PROVE k \in Keys /\ Entry(d, k) \in Node /\ Entry(d, k).key = k
  <2>1. k \in Keys /\ d[k] \in Vals BY <1>1
  <2>2. [key |-> k, val |-> d[k]] \in Node BY <2>1 DEF Node
  <2> QED BY <2>1, <2>2 DEF Entry
<1>4. ASSUME NEW n \in Entries(d) PROVE n \in Node /\ n.key \in DOMAIN d /\ n = Entry(d, n.key)
  <2>1. PICK k \in DOMAIN d : n = Entry(d, k) BY DEF Entries
  <2>2. n.key = k /\ n \in Node BY <1>3, <2>1
  <2> QED BY <2>1, <2>2
<1> QED BY <1>2, <1>3, <1>4

LEMMA EntriesEmpty == <<>> \in Dicts /\ DOMAIN <<>> = {} /\ Entries(<<>>) = {}
<1>1. DOMAIN <<>> = {} OBVIOUS
<1>2. <<>> \in [{} -> Vals] OBVIOUS
<1>3. {} \in SUBSET Keys OBVIOUS
<1>4. <<>> \in Dicts BY <1>2, <1>3 DEF Dicts
<1>5. Entries(<<>>) = {} BY <1>1 DEF Entries
<1> QED BY <1>1, <1>4, <1>5

\* A map without nodes.
LEMMA GoodEmpty ==
    ASSUME NEW h, NEW c, c \in Nat, NEW b, b = [i \in 1..c |-> <<>>], NEW m, m = [buckets |-> b, size |-> 0]
    PROVE  MapHolds(h, m, <<>>)
<1>1. Table(h, b, c, {}) BY TableEmpty
<1>2. b \in Seq(Seq(Node)) /\ Len(b) = c BY <1>1 DEF Table
<1>3. m \in [buckets : Seq(Seq(Node)), size : Nat] /\ m.buckets = b /\ m.size = 0 BY <1>2
<1>4. IsFiniteSet({}) /\ Cardinality({}) = 0 BY FS_EmptySet
<1>5. PICK e : e = <<>> OBVIOUS
<1>6. e \in Dicts /\ DOMAIN e = {} /\ Entries(e) = {} BY <1>5, EntriesEmpty
<1>7. MapHolds(h, m, e) BY <1>1, <1>2, <1>3, <1>4, <1>6 DEF MapHolds
<1> QED BY <1>5, <1>7

Added(d, k, v) == [key \in DOMAIN d \cup {k} |-> IF key = k THEN v ELSE d[key]]

\* A node is pushed.
LEMMA GoodAdded ==
    ASSUME NEW h, h \in [Keys -> Nat], NEW m, NEW d, MapHolds(h, m, d), NEW k, k \in Keys, k \notin DOMAIN d,
           NEW v, v \in Vals, NEW c, c \in Nat \ {0}, NEW b, Table(h, b, c, Entries(d)),
           NEW n, n = [key |-> k, val |-> v],
           NEW new, new = [buckets |-> PushedOn(h, b, c, n), size |-> m.size + 1]
    PROVE  MapHolds(h, new, Added(d, k, v))
<1>1. PICK e : e = Added(d, k, v) OBVIOUS
<1>2. m.size \in Nat /\ d \in Dicts /\ IsFiniteSet(DOMAIN d) /\ m.size = Cardinality(DOMAIN d) BY DEF MapHolds
<1>3. DOMAIN d \subseteq Keys /\ d \in [DOMAIN d -> Vals] BY <1>2, DictsIs
<1>4. DOMAIN e = DOMAIN d \cup {k} /\ e[k] = v /\ \A q \in DOMAIN d : e[q] = d[q] BY <1>1 DEF Added
<1>5. e \in [DOMAIN e -> Vals] BY <1>1, <1>3, <1>4 DEF Added
<1>6. e \in Dicts BY <1>3, <1>4, <1>5, DictsIs
<1>7. Entries(e) = Entries(d) \cup {n}
  <2>1. Entry(e, k) = n BY <1>4 DEF Entry
  <2>2. \A q \in DOMAIN d : Entry(e, q) = Entry(d, q) BY <1>4 DEF Entry
  <2> QED BY <1>4, <2>1, <2>2 DEF Entries
<1>8. n \in Node /\ n.key = k BY DEF Node
<1>9. \A q \in Entries(d) : q.key # n.key BY <1>2, <1>8, EntryIs
<1>10. Table(h, PushedOn(h, b, c, n), c, Entries(d) \cup {n}) BY <1>8, <1>9, TablePush
<1>11. PICK p : p = PushedOn(h, b, c, n) OBVIOUS
<1>12. p \in Seq(Seq(Node)) /\ Len(p) = c BY <1>10, <1>11 DEF Table
<1>13. new \in [buckets : Seq(Seq(Node)), size : Nat] /\ new.buckets = p /\ new.size = m.size + 1
  BY <1>2, <1>11, <1>12
<1>14. IsFiniteSet(DOMAIN e) /\ Cardinality(DOMAIN e) = Cardinality(DOMAIN d) + 1
  <2>1. /\ IsFiniteSet(DOMAIN d \cup {k})
        /\ Cardinality(DOMAIN d \cup {k}) = IF k \in DOMAIN d THEN Cardinality(DOMAIN d) ELSE Cardinality(DOMAIN d) + 1
    BY <1>2, FS_AddElement
  <2> QED BY <1>4, <2>1
<1>15. MapHolds(h, new, e) BY <1>2, <1>6, <1>7, <1>10, <1>11, <1>12, <1>13, <1>14 DEF MapHolds
<1> QED BY <1>1, <1>15

Replace(d, k, v) == [d EXCEPT ![k] = v]

\* A node gets another value.
LEMMA GoodPut ==
    ASSUME NEW h, NEW m, NEW d, MapHolds(h, m, d), NEW k, k \in DOMAIN d, NEW v, v \in Vals,
           NEW c, c = Len(m.buckets),
           NEW b, b = Revalued(m.buckets, Slot(h, k, c), k, v),
           NEW new, new = [buckets |-> b, size |-> m.size]
    PROVE  /\ MapHolds(h, new, Replace(d, k, v)) /\ Len(b) = c
           /\ \A p \in 1..c : SameKeys(m.buckets[p], b[p])
<1>1. PICK e, n, q : e = Replace(d, k, v) /\ n = Entry(d, k) /\ q = [key |-> n.key, val |-> v] OBVIOUS
<1>2. /\ m.size \in Nat /\ d \in Dicts /\ IsFiniteSet(DOMAIN d) /\ m.size = Cardinality(DOMAIN d)
      /\ Table(h, m.buckets, c, Entries(d))
  BY DEF MapHolds
<1>3. DOMAIN d \subseteq Keys /\ d \in [DOMAIN d -> Vals] BY <1>2, DictsIs
<1>4. DOMAIN e = DOMAIN d /\ e[k] = v /\ (\A r \in DOMAIN d : r # k => e[r] = d[r]) /\ e \in [DOMAIN d -> Vals]
  BY <1>1, <1>3 DEF Replace
<1>5. e \in Dicts BY <1>3, <1>4, DictsIs
<1>6. n \in Entries(d) /\ n.key = k BY <1>1, <1>2, EntryIs
<1>7. Entries(e) = (Entries(d) \ {n}) \cup {q}
  <2>1. Entry(e, k) = q BY <1>1, <1>4, <1>6 DEF Entry
  <2>2. \A r \in DOMAIN d : r # k => Entry(e, r) = Entry(d, r) BY <1>4 DEF Entry
  <2>3. \A r \in DOMAIN d : r # k => Entry(d, r) # n BY <1>2, <1>6, EntryIs
  <2>4. ASSUME NEW a \in Entries(e) PROVE a \in (Entries(d) \ {n}) \cup {q}
    <3>1. PICK r \in DOMAIN d : a = Entry(e, r) BY <1>4 DEF Entries
    <3> QED BY <2>1, <2>2, <2>3, <3>1 DEF Entries
  <2>5. ASSUME NEW a \in (Entries(d) \ {n}) \cup {q} PROVE a \in Entries(e)
    <3>1. CASE a = q BY <1>4, <2>1, <3>1 DEF Entries
    <3>2. CASE a # q
      <4>1. PICK r \in DOMAIN d : a = Entry(d, r) BY <3>2 DEF Entries
      <4>2. r # k BY <1>1, <3>2, <4>1
      <4> QED BY <1>4, <2>2, <4>1, <4>2 DEF Entries
    <3> QED BY <3>1, <3>2
  <2> QED BY <2>4, <2>5
<1>8. /\ Table(h, Revalued(m.buckets, Slot(h, k, c), n.key, v), c, (Entries(d) \ {n}) \cup {q})
      /\ \A p \in 1..c : SameKeys(m.buckets[p], Revalued(m.buckets, Slot(h, k, c), n.key, v)[p])
  <2>1. PICK N, t, i : N = Entries(d) /\ t = m.buckets /\ i = Slot(h, n.key, c) OBVIOUS
  <2>2. Table(h, t, c, N) /\ n \in N BY <1>2, <1>6, <2>1
  <2>3. /\ Table(h, Revalued(t, i, n.key, v), c, (N \ {n}) \cup {q})
        /\ \A p \in 1..c : SameKeys(t[p], Revalued(t, i, n.key, v)[p])
    BY <1>1, <2>1, <2>2, TableSet
  <2> QED BY <1>6, <2>1, <2>3
<1>9. Table(h, b, c, Entries(e)) /\ \A p \in 1..c : SameKeys(m.buckets[p], b[p]) BY <1>6, <1>7, <1>8
<1>10. b \in Seq(Seq(Node)) /\ Len(b) = c BY <1>9 DEF Table
<1>11. new \in [buckets : Seq(Seq(Node)), size : Nat] /\ new.buckets = b /\ new.size = m.size BY <1>2, <1>10
<1>12. MapHolds(h, new, e) BY <1>2, <1>4, <1>5, <1>9, <1>10, <1>11 DEF MapHolds
<1> QED BY <1>1, <1>9, <1>10, <1>12

Less(d, k) == Restrict(d, DOMAIN d \ {k})

\* Where the node of a key of the dictionary is.
LEMMA PlaceIs ==
    ASSUME NEW h, NEW m, NEW d, MapHolds(h, m, d), NEW k, k \in DOMAIN d,
           NEW b, b = m.buckets, NEW i, i = Slot(h, k, Len(b)), NEW j, j = Position(b[i], k)
    PROVE  i \in 1..Len(b) /\ j \in 1..Len(b[i]) /\ b[i][j] = Entry(d, k)
<1>1. Table(h, b, Len(b), Entries(d)) /\ d \in Dicts BY DEF MapHolds
<1>2. Entry(d, k) \in Entries(d) /\ Entry(d, k).key = k BY <1>1, EntryIs
<1>3. i \in 1..Len(b) /\ \E p \in 1..Len(b[i]) : b[i][p] = Entry(d, k) BY <1>1, <1>2 DEF Table
<1>4. PICK p \in 1..Len(b[i]) : b[i][p] = Entry(d, k) BY <1>3
<1>5. b[i] \in Seq(Node) /\ \A q, r \in 1..Len(b[i]) : b[i][q].key = b[i][r].key => q = r
  <2>1. PICK c, N : c = Len(b) /\ N = Entries(d) OBVIOUS
  <2>2. Table(h, b, c, N) BY <1>1, <2>1
  <2> QED BY <1>3, <2>1, <2>2, TableIs
<1>6. j = p BY <1>2, <1>4, <1>5, PositionIs
<1> QED BY <1>3, <1>4, <1>6

\* A node is unlinked.
LEMMA GoodLess ==
    ASSUME NEW h, NEW m, NEW d, MapHolds(h, m, d), NEW k, k \in DOMAIN d,
           NEW i, i = Slot(h, k, Len(m.buckets)), NEW j, j = Position(m.buckets[i], k)
    PROVE  /\ MapHolds(h, Without(m, i, k), Less(d, k))
           /\ Without(m, i, k).buckets = Dropped(m.buckets, i, j)
<1>1. PICK b, c, e, new : b = m.buckets /\ c = Len(b) /\ e = Less(d, k) /\ new = Without(m, i, k) OBVIOUS
<1>2. /\ m.size \in Nat /\ d \in Dicts /\ IsFiniteSet(DOMAIN d) /\ m.size = Cardinality(DOMAIN d)
      /\ Table(h, b, c, Entries(d))
  BY <1>1 DEF MapHolds
<1>3. DOMAIN d \subseteq Keys /\ d \in [DOMAIN d -> Vals] BY <1>2, DictsIs
<1>4. DOMAIN e = DOMAIN d \ {k} /\ (\A r \in DOMAIN e : e[r] = d[r]) /\ e \in [DOMAIN d \ {k} -> Vals]
  BY <1>1, <1>3 DEF Less, Restrict
<1>5. e \in Dicts BY <1>3, <1>4, DictsIs
<1>6. i \in 1..c /\ j \in 1..Len(b[i]) /\ b[i][j] = Entry(d, k) BY <1>1, PlaceIs
<1>7. Entries(e) = Entries(d) \ {Entry(d, k)}
  <2>1. \A r \in DOMAIN e : Entry(e, r) = Entry(d, r) BY <1>4 DEF Entry
  <2>2. \A r \in DOMAIN d : r # k => Entry(d, r) # Entry(d, k) BY <1>2, EntryIs
  <2> QED BY <1>4, <2>1, <2>2 DEF Entries
<1>8. Table(h, Dropped(b, i, j), c, Entries(d) \ {Entry(d, k)}) BY <1>2, <1>6, TableErase
<1>9. PICK t : t = Dropped(b, i, j) OBVIOUS
<1>10. t \in Seq(Seq(Node)) /\ Len(t) = c BY <1>8, <1>9 DEF Table
<1>11. new = [buckets |-> t, size |-> m.size - 1]
  <2>1. [b EXCEPT ![i] = Unlink(@, Position(@, k))] = t BY <1>1, <1>9 DEF Dropped, Unlink
  <2> QED BY <1>1, <2>1 DEF Without
<1>12. IsFiniteSet(DOMAIN e) /\ Cardinality(DOMAIN e) = Cardinality(DOMAIN d) - 1 /\ Cardinality(DOMAIN e) \in Nat
  <2>1. /\ IsFiniteSet(DOMAIN d \ {k})
        /\ Cardinality(DOMAIN d \ {k}) = IF k \in DOMAIN d THEN Cardinality(DOMAIN d) - 1 ELSE Cardinality(DOMAIN d)
    BY <1>2, FS_RemoveElement
  <2>2. Cardinality(DOMAIN d \ {k}) \in Nat BY <2>1, FS_CardinalityType
  <2> QED BY <1>4, <2>1, <2>2
<1>13. new \in [buckets : Seq(Seq(Node)), size : Nat] /\ new.buckets = t /\ new.size = m.size - 1
  BY <1>2, <1>10, <1>11, <1>12
<1>14. MapHolds(h, new, e) BY <1>2, <1>5, <1>7, <1>8, <1>9, <1>10, <1>12, <1>13 DEF MapHolds
<1> QED BY <1>1, <1>9, <1>13, <1>14

-----------------------------------------------------------------------------
(* Iterators.                                                              *)

\* The key k comes after key, which is in bucket i.
Ahead(h, b, i, key, k) ==
    Slot(h, k, Len(b)) > i \/ \E p, q \in 1..Len(b[i]) : p < q /\ b[i][p].key = key /\ b[i][q].key = k

\* An iterator is on key in bucket idx + 1, and the keys of due come after it.
On(h, b, d, idx, key, due) ==
    /\ idx \in Nat /\ key \in DOMAIN d /\ Slot(h, key, Len(b)) = idx + 1
    /\ \A k \in due : k \in DOMAIN d /\ Ahead(h, b, idx + 1, key, k)

\* An iterator, that may be at the end.
StandsOn(h, b, d, idx, key, due) ==
    /\ key = NoKey => due = {}
    /\ key # NoKey => On(h, b, d, idx, key, due)

\* In a bucket that is not empty, all keys that are not of an earlier one come after the first.
LEMMA FirstNodeIs ==
    ASSUME NEW h, NEW m, NEW d, MapHolds(h, m, d), NEW b, b = m.buckets, NEW i, i \in 1..Len(b), b[i] # <<>>,
           NEW key, key = b[i][1].key,
           NEW due, \A k \in due : k \in DOMAIN d /\ Slot(h, k, Len(b)) >= i
    PROVE  key # NoKey /\ On(h, b, d, i - 1, key, due \ {key})
<1>1. PICK c, N, t : c = Len(b) /\ N = Entries(d) /\ t = b[i] OBVIOUS
<1>2. Table(h, b, c, N) /\ d \in Dicts BY <1>1 DEF MapHolds
<1>3. /\ t \in Seq(Node) /\ Len(t) \in Nat /\ i \in Nat /\ i - 1 \in Nat /\ i - 1 + 1 = i /\ c \in Nat
      /\ \A j \in 1..Len(t) : t[j] \in N /\ Slot(h, t[j].key, c) = i /\ t[j].key \in Keys
  <2>1. c \in Nat /\ i \in 1..c BY <1>1, <1>2, TableIs
  <2> QED BY <1>1, <1>2, <2>1, TableIs
<1>4. 1 \in 1..Len(t)
  <2>1. t # <<>> BY <1>1
  <2> QED BY <1>3, <2>1
<1>5. key \in Keys /\ t[1] \in N /\ Slot(h, key, c) = i BY <1>1, <1>3, <1>4
<1>6. key # NoKey BY <1>5, HashMapAssumption
<1>7. key \in DOMAIN d BY <1>1, <1>2, <1>5, EntryIs
<1>8. ASSUME NEW k \in due \ {key} PROVE k \in DOMAIN d /\ Ahead(h, b, i, key, k)
  <2>1. k \in DOMAIN d /\ Slot(h, k, c) >= i /\ k # key BY <1>1
  <2>2. Entry(d, k) \in N /\ Entry(d, k).key = k BY <1>1, <1>2, <2>1, EntryIs
  <2>3. PICK r : r = Slot(h, k, c) OBVIOUS
  <2>4. r \in 1..c /\ \E j \in 1..Len(b[r]) : b[r][j] = Entry(d, k)
    <3>1. PICK n : n = Entry(d, k) OBVIOUS
    <3>2. n \in N /\ r = Slot(h, n.key, c) BY <2>2, <2>3, <3>1
    <3> QED BY <1>2, <3>1, <3>2 DEF Table
  <2>5. CASE r > i BY <1>1, <2>1, <2>3, <2>5 DEF Ahead
  <2>6. CASE r = i
    <3>1. PICK j \in 1..Len(t) : t[j] = Entry(d, k) BY <1>1, <2>4, <2>6
    <3>2. j # 1 BY <1>1, <2>1, <2>2, <3>1
    <3>3. 1 < j BY <3>2
    <3>4. b[i][1].key = key /\ b[i][j].key = k /\ 1 \in 1..Len(b[i]) /\ j \in 1..Len(b[i])
      BY <1>1, <1>4, <2>2, <3>1
    <3>5. Ahead(h, b, i, key, k) BY <3>3, <3>4 DEF Ahead
    <3> QED BY <2>1, <3>5
  <2>7. r > i \/ r = i BY <1>3, <2>1, <2>3, <2>4
  <2> QED BY <2>5, <2>6, <2>7
<1>9. On(h, b, d, i - 1, key, due \ {key})
  <2>1. PICK w : w = i - 1 OBVIOUS
  <2>2. w \in Nat /\ w + 1 = i BY <1>3, <2>1
  <2>3. On(h, b, d, w, key, due \ {key}) BY <1>1, <1>5, <1>7, <1>8, <2>2 DEF On
  <2> QED BY <2>1, <2>3
<1> QED BY <1>6, <1>9

\* settle, from the end of a bucket.
LEMMA SettleIs ==
    ASSUME NEW h, NEW m, NEW d, MapHolds(h, m, d), NEW b, b = m.buckets, NEW idx, idx \in Nat,
           NEW due, \A k \in due : k \in DOMAIN d /\ Slot(h, k, Len(b)) > idx + 1,
           NEW place, place = Settle(b, idx, NoKey)
    PROVE  StandsOn(h, b, d, place[1], place[2], due \ {place[2]})
<1>1. PICK c, N, later : c = Len(b) /\ N = Entries(d) /\ later = {i \in idx + 2..Len(b) : b[i] # <<>>} OBVIOUS
<1>2. Table(h, b, c, N) /\ d \in Dicts BY <1>1 DEF MapHolds
<1>3. b \in Seq(Seq(Node)) /\ c \in Nat BY <1>1, <1>2, TableIs
<1>4. place = IF later = {} THEN <<Len(b) - 1, NoKey>> ELSE <<Min(later) - 1, FirstKey(b[Min(later)])>>
  BY <1>1 DEF Settle
<1>5. ASSUME NEW k \in due
      PROVE  /\ k \in DOMAIN d /\ Slot(h, k, c) \in later /\ Slot(h, k, c) \in 1..c
  <2>1. k \in DOMAIN d /\ Slot(h, k, c) > idx + 1 BY <1>1
  <2>2. Entry(d, k) \in N /\ Entry(d, k).key = k BY <1>1, <1>2, <2>1, EntryIs
  <2>3. PICK r : r = Slot(h, k, c) OBVIOUS
  <2>4. r \in 1..c /\ \E j \in 1..Len(b[r]) : b[r][j] = Entry(d, k)
    <3>1. PICK n : n = Entry(d, k) OBVIOUS
    <3>2. n \in N /\ r = Slot(h, n.key, c) BY <2>2, <2>3, <3>1
    <3> QED BY <1>2, <3>1, <3>2 DEF Table
  <2>5. b[r] # <<>>
    <3>1. PICK j \in 1..Len(b[r]) : b[r][j] = Entry(d, k) BY <2>4
    <3> QED BY <3>1
  <2>6. r \in idx + 2..c BY <1>3, <2>1, <2>3, <2>4
  <2> QED BY <1>1, <2>1, <2>3, <2>4, <2>5, <2>6
<1>6. CASE later = {}
  <2>1. due = {} BY <1>5, <1>6
  <2>2. place[2] = NoKey BY <1>4, <1>6
  <2> QED BY <2>1, <2>2 DEF StandsOn
<1>7. CASE later # {}
  <2>1. later \in SUBSET Nat BY <1>1, <1>3
  <2>2. PICK i \in later : \A k \in later : i <= k BY <1>7, <2>1, LeastNumber
  <2>3. Min(later) = i
    <3>1. \A x \in later : x \in Nat BY <2>1
    <3>2. \A x \in later : (\A y \in later : x =< y) => x = i BY <2>2, <3>1
    <3>3. \E x \in later : \A y \in later : x =< y BY <2>2
    <3>4. PICK x : x = Min(later) OBVIOUS
    <3>5. x \in later /\ \A y \in later : x =< y BY <3>3, <3>4 DEF Min
    <3> QED BY <3>2, <3>4, <3>5
  <2>4. i \in 1..c /\ b[i] # <<>> /\ i \in Nat BY <1>1, <1>3, <2>2
  <2>5. place[1] = i - 1 /\ place[2] = b[i][1].key BY <1>4, <1>7, <2>3, <2>4 DEF FirstKey
  <2>6. ASSUME NEW k \in due PROVE k \in DOMAIN d /\ Slot(h, k, Len(b)) >= i
    <3>1. PICK r : r = Slot(h, k, c) OBVIOUS
    <3>2. k \in DOMAIN d /\ r \in later /\ r \in 1..c BY <1>5, <3>1
    <3>3. i <= r /\ r \in Nat BY <1>3, <2>2, <3>2
    <3>4. r >= i BY <2>4, <3>3
    <3> QED BY <1>1, <3>1, <3>2, <3>4
  <2>7. PICK key : key = place[2] OBVIOUS
  <2>8. key # NoKey /\ On(h, b, d, i - 1, key, due \ {key})
    <3>1. key = b[i][1].key /\ i \in 1..Len(b) /\ b[i] # <<>> BY <1>1, <2>4, <2>5, <2>7
    <3> QED BY <2>6, <3>1, FirstNodeIs
  <2> QED BY <2>5, <2>7, <2>8 DEF StandsOn
<1> QED BY <1>6, <1>7

\* begin.
LEMMA BeginIs ==
    ASSUME NEW h, NEW m, NEW d, MapHolds(h, m, d), NEW b, b = m.buckets, b # <<>>,
           NEW place, place = Settle(b, 0, FirstKey(b[1]))
    PROVE  StandsOn(h, b, d, place[1], place[2], DOMAIN d \ {place[2]})
<1>1. PICK c, N : c = Len(b) /\ N = Entries(d) OBVIOUS
<1>2. Table(h, b, c, N) /\ d \in Dicts BY <1>1 DEF MapHolds
<1>3. b \in Seq(Seq(Node)) /\ c \in Nat /\ 1 \in 1..c
  <2>1. b \in Seq(Seq(Node)) /\ c \in Nat BY <1>1, <1>2, TableIs
  <2> QED BY <1>1, <2>1
<1>4. ASSUME NEW k \in DOMAIN d
      PROVE  /\ Slot(h, k, c) \in 1..c /\ Slot(h, k, c) >= 1
             /\ b[1] = <<>> => Slot(h, k, c) > 1
  <2>1. Entry(d, k) \in N /\ Entry(d, k).key = k BY <1>1, <1>2, EntryIs
  <2>2. PICK r : r = Slot(h, k, c) OBVIOUS
  <2>3. r \in 1..c /\ \E j \in 1..Len(b[r]) : b[r][j] = Entry(d, k) BY <1>2, <2>1, <2>2 DEF Table
  <2>4. PICK j \in 1..Len(b[r]) : b[r][j] = Entry(d, k) BY <2>3
  <2>5. b[1] = <<>> => r # 1 BY <2>4
  <2>6. r >= 1 /\ (r # 1 => r > 1) BY <1>3, <2>3
  <2> QED BY <2>2, <2>3, <2>5, <2>6
<1>5. CASE b[1] = <<>>
  <2>1. FirstKey(b[1]) = NoKey BY <1>5 DEF FirstKey
  <2>2. \A k \in DOMAIN d : k \in DOMAIN d /\ Slot(h, k, Len(b)) > 0 + 1 BY <1>1, <1>4, <1>5
  <2>3. 0 \in Nat /\ place = Settle(b, 0, NoKey) BY <2>1
  <2>4. PICK due, zero : due = DOMAIN d /\ zero = 0 OBVIOUS
  <2>5. \A k \in due : k \in DOMAIN d /\ Slot(h, k, Len(b)) > zero + 1 BY <2>2, <2>4
  <2>6. zero \in Nat /\ place = Settle(b, zero, NoKey) BY <2>3, <2>4
  <2> QED BY <2>4, <2>5, <2>6, SettleIs
<1>6. CASE b[1] # <<>>
  <2>1. PICK key : key = b[1][1].key OBVIOUS
  <2>2. FirstKey(b[1]) = key BY <1>6, <2>1 DEF FirstKey
  <2>3. PICK due, one : due = DOMAIN d /\ one = 1 OBVIOUS
  <2>4. key # NoKey /\ On(h, b, d, one - 1, key, due \ {key})
    <3>1. one \in 1..Len(b) /\ b[one] # <<>> /\ key = b[one][1].key BY <1>1, <1>3, <1>6, <2>1, <2>3
    <3>2. \A k \in due : k \in DOMAIN d /\ Slot(h, k, Len(b)) >= one BY <1>1, <1>4, <2>3
    <3> QED BY <3>1, <3>2, FirstNodeIs
  <2>5. place = <<0, key>> BY <2>2, <2>4 DEF Settle
  <2>6. place[1] = one - 1 /\ place[2] = key BY <2>3, <2>5
  <2> QED BY <2>3, <2>4, <2>6 DEF StandsOn
<1> QED BY <1>5, <1>6

\* operator++.
LEMMA FollowingIs ==
    ASSUME NEW h, NEW m, NEW d, MapHolds(h, m, d), NEW b, b = m.buckets, NEW idx, NEW key, NEW due,
           On(h, b, d, idx, key, due), NEW place, place = Following(b, idx, key)
    PROVE  /\ StandsOn(h, b, d, place[1], place[2], due \ {place[2]})
           /\ place[2] # key
<1>1. PICK c, N, i, t, j : /\ c = Len(b) /\ N = Entries(d) /\ i = Slot(h, key, c) /\ t = b[i]
                           /\ j = Position(t, key)
  OBVIOUS
<1>2. Table(h, b, c, N) /\ d \in Dicts BY <1>1 DEF MapHolds
<1>3. /\ idx \in Nat /\ i = idx + 1 /\ key \in DOMAIN d
      /\ \A k \in due : k \in DOMAIN d /\ Ahead(h, b, i, key, k)
  <2>1. idx \in Nat /\ i = idx + 1 /\ key \in DOMAIN d BY <1>1 DEF On
  <2> QED BY <2>1 DEF On
<1>4. i \in 1..c /\ j \in 1..Len(t) /\ t[j] = Entry(d, key) /\ t[j].key = key
  <2>1. i = Slot(h, key, Len(b)) /\ j = Position(b[i], key) BY <1>1
  <2>2. i \in 1..Len(b) /\ j \in 1..Len(b[i]) /\ b[i][j] = Entry(d, key) BY <1>3, <2>1, PlaceIs
  <2>3. Entry(d, key).key = key BY <1>2, <1>3, EntryIs
  <2> QED BY <1>1, <2>2, <2>3
<1>5. /\ t \in Seq(Node) /\ Len(t) \in Nat /\ c \in Nat
      /\ \A q \in 1..Len(t) : t[q] \in N /\ Slot(h, t[q].key, c) = i /\ t[q].key \in Keys
      /\ \A p, q \in 1..Len(t) : t[p].key = t[q].key => p = q
  BY <1>1, <1>2, <1>4, TableIs
<1>6. key # NoKey
  <2>1. key \in Keys BY <1>4, <1>5
  <2> QED BY <2>1, HashMapAssumption
<1>7. place = Settle(b, idx, IF j = Len(t) THEN NoKey ELSE t[j + 1].key) BY <1>1, <1>3 DEF Following
<1>8. ASSUME NEW k \in due
      PROVE  /\ k \in DOMAIN d /\ k # key
             /\ Slot(h, k, c) > i \/ \E q \in 1..Len(t) : j < q /\ t[q].key = k
  <2>1. k \in DOMAIN d /\ Ahead(h, b, i, key, k) BY <1>3
  <2>2. CASE Slot(h, k, c) > i
    <3>1. i \in Nat /\ ~(i > i) BY <1>3
    <3>2. k # key BY <1>1, <2>2, <3>1
    <3> QED BY <2>1, <2>2, <3>2
  <2>3. CASE ~(Slot(h, k, c) > i)
    <3>1. \E p, q \in 1..Len(t) : p < q /\ t[p].key = key /\ t[q].key = k BY <1>1, <2>1, <2>3 DEF Ahead
    <3>2. PICK p, q \in 1..Len(t) : p < q /\ t[p].key = key /\ t[q].key = k BY <3>1
    <3>3. p = j BY <1>4, <1>5, <3>2
    <3>4. j # q /\ j < q BY <3>2, <3>3
    <3>5. k # key BY <1>4, <1>5, <3>2, <3>4
    <3> QED BY <2>1, <3>2, <3>4, <3>5
  <2> QED BY <2>2, <2>3
<1>9. CASE j = Len(t)
  <2>1. place = Settle(b, idx, NoKey) BY <1>7, <1>9
  <2>2. ASSUME NEW k \in due PROVE k \in DOMAIN d /\ Slot(h, k, Len(b)) > idx + 1
    <3>1. ~ \E q \in 1..Len(t) : j < q /\ t[q].key = k BY <1>5, <1>9
    <3> QED BY <1>1, <1>3, <1>8, <3>1
  <2>3. StandsOn(h, b, d, place[1], place[2], due \ {place[2]}) BY <1>3, <2>1, <2>2, SettleIs
  <2>4. place[2] # key
    <3>1. PICK r : r = {key} OBVIOUS
    <3>2. ASSUME place[2] = key PROVE FALSE
      <4>1. On(h, b, d, place[1], key, due \ {key}) BY <1>6, <2>3, <3>2 DEF StandsOn
      <4>2. place[1] = idx BY <1>1, <1>3, <4>1 DEF On
      <4>3. PICK later : later = {q \in idx + 2..Len(b) : b[q] # <<>>} OBVIOUS
      <4>4. place = IF later = {} THEN <<Len(b) - 1, NoKey>> ELSE <<Min(later) - 1, FirstKey(b[Min(later)])>>
        BY <2>1, <4>3 DEF Settle
      <4>5. later # {} BY <1>6, <3>2, <4>4
      <4>6. later \in SUBSET Nat BY <1>1, <1>3, <1>5, <4>3
      <4>7. PICK q \in later : \A k \in later : q <= k BY <4>5, <4>6, LeastNumber
      <4>8. PICK x : x = Min(later) OBVIOUS
      <4>9. x \in later BY <4>7, <4>8 DEF Min
      <4>10. place[1] = x - 1 BY <4>4, <4>5, <4>8
      <4>11. x \in idx + 2..c BY <1>1, <4>3, <4>9
      <4> QED BY <1>3, <1>5, <4>2, <4>10, <4>11
    <3> QED BY <3>2
  <2> QED BY <2>3, <2>4
<1>10. CASE j # Len(t)
  <2>1. PICK succ : succ = t[j + 1].key OBVIOUS
  <2>2. j + 1 \in 1..Len(t) /\ j < j + 1 /\ j # j + 1 BY <1>4, <1>5, <1>10
  <2>3. succ \in Keys /\ t[j + 1] \in N /\ Slot(h, succ, c) = i BY <1>5, <2>1, <2>2
  <2>4. succ # NoKey BY <2>3, HashMapAssumption
  <2>5. succ # key BY <1>4, <1>5, <2>1, <2>2
  <2>6. succ \in DOMAIN d BY <1>1, <1>2, <2>1, <2>3, EntryIs
  <2>7. place = <<idx, succ>> BY <1>7, <1>10, <2>1, <2>4 DEF Settle
  <2>8. ASSUME NEW k \in due \ {succ} PROVE k \in DOMAIN d /\ Ahead(h, b, i, succ, k)
    <3>1. k \in DOMAIN d /\ (Slot(h, k, c) > i \/ \E q \in 1..Len(t) : j < q /\ t[q].key = k) BY <1>8
    <3>2. CASE Slot(h, k, c) > i BY <1>1, <3>1, <3>2 DEF Ahead
    <3>3. CASE \E q \in 1..Len(t) : j < q /\ t[q].key = k
      <4>1. PICK q \in 1..Len(t) : j < q /\ t[q].key = k BY <3>3
      <4>2. q # j + 1 BY <2>1, <4>1
      <4>3. j + 1 < q BY <1>4, <1>5, <4>1, <4>2
      <4>4. j + 1 \in 1..Len(b[i]) /\ q \in 1..Len(b[i]) /\ b[i][j + 1].key = succ /\ b[i][q].key = k
        BY <1>1, <2>1, <2>2, <4>1
      <4>5. Ahead(h, b, i, succ, k) BY <4>3, <4>4 DEF Ahead
      <4> QED BY <3>1, <4>5
    <3> QED BY <3>1, <3>2, <3>3
  <2>9. On(h, b, d, idx, succ, due \ {succ}) BY <1>1, <1>3, <2>3, <2>6, <2>8 DEF On
  <2>10. place[1] = idx /\ place[2] = succ BY <2>7
  <2> QED BY <2>4, <2>5, <2>9, <2>10 DEF StandsOn
<1> QED BY <1>9, <1>10

\* An iterator stays where it is when a node that is not its own, and not to come, is unlinked.
LEMMA OnDropped ==
    ASSUME NEW h, NEW m, NEW d, MapHolds(h, m, d), NEW b, b = m.buckets, NEW idx, NEW key, NEW due,
           On(h, b, d, idx, key, due), NEW k, k \in DOMAIN d, k # key, k \notin due,
           NEW i, i = Slot(h, k, Len(b)), NEW j, j = Position(b[i], k)
    PROVE  On(h, Dropped(b, i, j), Less(d, k), idx, key, due)
<1>1. PICK c, N, t, u, e, f : /\ c = Len(b) /\ N = Entries(d) /\ t = b[i] /\ u = RemoveAt(t, j)
                              /\ e = Dropped(b, i, j) /\ f = Less(d, k)
  OBVIOUS
<1>2. Table(h, b, c, N) /\ d \in Dicts BY <1>1 DEF MapHolds
<1>3. i \in 1..c /\ j \in 1..Len(t) /\ t[j] = Entry(d, k) /\ t[j].key = k
  <2>1. i \in 1..c /\ j \in 1..Len(t) /\ t[j] = Entry(d, k) BY <1>1, PlaceIs
  <2> QED BY <1>2, <2>1, EntryIs
<1>4. b \in Seq(Seq(Node)) /\ t \in Seq(Node) /\ Len(t) \in Nat /\ c \in Nat BY <1>1, <1>2, <1>3, TableIs
<1>5. Del(Node, t, j, u)
  <2>1. Del(Node, t, j, RemoveAt(t, j)) BY <1>3, <1>4, DelIs
  <2> QED BY <1>1, <2>1
<1>6. u \in Seq(Node) /\ Len(u) = Len(t) - 1 /\ \A p \in 1..Len(t) - 1 : u[p] = IF p < j THEN t[p] ELSE t[p + 1]
  BY <1>5 DEF Del
<1>7. e = [b EXCEPT ![i] = u] BY <1>1 DEF Dropped
<1>8. Len(e) = c /\ e[i] = u /\ \A p \in 1..c : p # i => e[p] = b[p] BY <1>1, <1>3, <1>4, <1>6, <1>7
<1>9. DOMAIN f = DOMAIN d \ {k} BY <1>1 DEF Less, Restrict
<1>10. PICK n : n = idx + 1 OBVIOUS
<1>11. /\ idx \in Nat /\ key \in DOMAIN d /\ Slot(h, key, c) = n
       /\ \A a \in due : a \in DOMAIN d /\ Ahead(h, b, n, key, a)
  <2>1. idx \in Nat /\ key \in DOMAIN d /\ Slot(h, key, c) = n BY <1>1, <1>10 DEF On
  <2> QED BY <1>10, <2>1 DEF On
<1>12. n \in 1..c
  <2>1. PICK r : r = Position(b[Slot(h, key, Len(b))], key) OBVIOUS
  <2>2. Slot(h, key, Len(b)) \in 1..Len(b) BY <1>11, <2>1, PlaceIs
  <2> QED BY <1>1, <1>11, <2>2
<1>13. ASSUME NEW a \in due PROVE a \in DOMAIN f /\ Ahead(h, e, n, key, a)
  <2>1. a \in DOMAIN d /\ a # k /\ Ahead(h, b, n, key, a) BY <1>11
  <2>2. CASE Slot(h, a, c) > n BY <1>1, <1>8, <1>9, <2>1, <2>2 DEF Ahead
  <2>3. CASE ~(Slot(h, a, c) > n)
    <3>1. PICK p, q \in 1..Len(b[n]) : p < q /\ b[n][p].key = key /\ b[n][q].key = a
      BY <1>1, <2>1, <2>3 DEF Ahead
    <3>2. CASE n # i
      <4>1. e[n] = b[n] BY <1>8, <1>12, <3>2
      <4>2. Ahead(h, e, n, key, a) BY <3>1, <4>1 DEF Ahead
      <4> QED BY <1>9, <2>1, <4>2
    <3>3. CASE n = i
      <4>1. p \in 1..Len(t) /\ q \in 1..Len(t) /\ t[p].key = key /\ t[q].key = a BY <1>1, <3>1, <3>3
      <4>2. p # j /\ q # j BY <1>3, <2>1, <4>1
      <4>3. PICK v, w : v = (IF p < j THEN p ELSE p - 1) /\ w = (IF q < j THEN q ELSE q - 1) OBVIOUS
      <4>4. v \in 1..Len(t) - 1 /\ w \in 1..Len(t) - 1 /\ v < w BY <1>3, <1>4, <3>1, <4>1, <4>2, <4>3
      <4>5. u[v] = t[p]
        <5>1. CASE p < j
          <6>1. v = p BY <4>3, <5>1
          <6> QED BY <1>6, <4>4, <5>1, <6>1
        <5>2. CASE ~(p < j)
          <6>1. v = p - 1 /\ ~(v < j) /\ v + 1 = p BY <1>3, <1>4, <4>1, <4>2, <4>3, <5>2
          <6> QED BY <1>6, <4>4, <6>1
        <5> QED BY <5>1, <5>2
      <4>6. u[w] = t[q]
        <5>1. CASE q < j
          <6>1. w = q BY <4>3, <5>1
          <6> QED BY <1>6, <4>4, <5>1, <6>1
        <5>2. CASE ~(q < j)
          <6>1. w = q - 1 /\ ~(w < j) /\ w + 1 = q BY <1>3, <1>4, <4>1, <4>2, <4>3, <5>2
          <6> QED BY <1>6, <4>4, <6>1
        <5> QED BY <5>1, <5>2
      <4>7. v \in 1..Len(e[n]) /\ w \in 1..Len(e[n]) /\ e[n][v].key = key /\ e[n][w].key = a
        BY <1>6, <1>8, <3>3, <4>1, <4>4, <4>5, <4>6
      <4>8. Ahead(h, e, n, key, a) BY <4>4, <4>7 DEF Ahead
      <4> QED BY <1>9, <2>1, <4>8
    <3> QED BY <3>2, <3>3
  <2> QED BY <2>2, <2>3
<1>14. On(h, e, f, idx, key, due) BY <1>8, <1>9, <1>10, <1>11, <1>13 DEF On
<1> QED BY <1>1, <1>14

-----------------------------------------------------------------------------
(* The inductive invariant.                                                *)

Walks(h, m, d, w) ==
    /\ w.key = NoKey => w.due = {}
    /\ w.key # NoKey => w.map \in Maps /\ On(h, m[w.map].buckets, d[w.map], w.idx, w.key, w.due)

HashInv ==
    /\ hashOf \in [fn : Hashes, checks : BOOLEAN]
    /\ broke \in {"no", "null", "panic"}
    /\ DOMAIN hm = Maps /\ DOMAIN dict = Maps
    /\ \A x \in Maps : MapHolds(hashOf.fn, hm[x], dict[x])
    /\ Walks(hashOf.fn, hm, dict, walk)

\* size_ counts the nodes of the buckets.
LEMMA CountIs ==
    ASSUME NEW h, NEW m, NEW d, MapHolds(h, m, d)
    PROVE  Len(FlattenSeq(m.buckets)) = m.size
<1>1. PICK b, c, N, s, L : b = m.buckets /\ c = Len(b) /\ N = Entries(d) /\ s = FlattenSeq(b) /\ L = Len(s) OBVIOUS
<1>2. Table(h, b, c, N) /\ d \in Dicts /\ IsFiniteSet(DOMAIN d) /\ m.size = Cardinality(DOMAIN d)
  BY <1>1 DEF MapHolds
<1>3. b \in Seq(Seq(Node)) BY <1>2, TableIs
<1>4. FlatTo(b, Len(b), s) BY <1>1, <1>2, <1>3, TableKeys, FlattenIs
<1>5. /\ s \in Seq(Node) /\ L \in Nat
      /\ \A p \in 1..L : \E i \in 1..c : \E j \in 1..Len(b[i]) : s[p] = b[i][j]
      /\ \A i \in 1..c : \A j \in 1..Len(b[i]) : \E p \in 1..L : s[p] = b[i][j]
      /\ \A p, r \in 1..L : s[p].key = s[r].key => p = r
  BY <1>1, <1>4 DEF FlatTo
<1>6. PICK f, D, I : f = [p \in 1..L |-> s[p].key] /\ D = DOMAIN d /\ I = 1..L OBVIOUS
<1>7. ASSUME NEW p \in I PROVE f[p] \in D
  <2>1. PICK i \in 1..c : \E j \in 1..Len(b[i]) : s[p] = b[i][j] BY <1>5, <1>6
  <2>2. PICK j \in 1..Len(b[i]) : s[p] = b[i][j] BY <2>1
  <2>3. s[p] \in N BY <1>2, <2>2 DEF Table
  <2>4. s[p].key \in D BY <1>1, <1>2, <1>6, <2>3, EntryIs
  <2> QED BY <1>6, <2>4
<1>8. ASSUME NEW k \in D PROVE \E p \in I : f[p] = k
  <2>1. PICK n : n = Entry(d, k) OBVIOUS
  <2>2. n \in N /\ n.key = k BY <1>1, <1>2, <1>6, <2>1, EntryIs
  <2>3. PICK i : i = Slot(h, n.key, c) OBVIOUS
  <2>4. i \in 1..c /\ \E j \in 1..Len(b[i]) : b[i][j] = n BY <1>2, <2>2, <2>3 DEF Table
  <2>5. PICK j \in 1..Len(b[i]) : b[i][j] = n BY <2>4
  <2>6. PICK p \in 1..L : s[p] = b[i][j] BY <1>5, <2>4
  <2> QED BY <1>6, <2>2, <2>5, <2>6
<1>9. f \in [I -> D] BY <1>6, <1>7
<1>10. f \in Surjection(I, D) BY <1>8, <1>9 DEF Surjection, Range
<1>11. IsInjective(f) BY <1>5, <1>6 DEF IsInjective
<1>12. f \in Injection(I, D) BY <1>9, <1>11 DEF Injection
<1>13. IsFiniteSet(I) /\ Cardinality(I) = L
  <2>1. 1 \in Int /\ L \in Int BY <1>5
  <2>2. IsFiniteSet(1..L) /\ Cardinality(1..L) = IF 1 > L THEN 0 ELSE L - 1 + 1 BY <2>1, FS_Interval
  <2>3. (IF 1 > L THEN 0 ELSE L - 1 + 1) = L BY <1>5
  <2> QED BY <1>6, <2>2, <2>3
<1>14. Cardinality(D) = Cardinality(I) BY <1>10, <1>12, <1>13, FS_Surjection
<1> QED BY <1>1, <1>2, <1>6, <1>13, <1>14

LEMMA HashIs ==
    ASSUME hashOf \in [fn : Hashes, checks : BOOLEAN]
    PROVE  hashOf.fn \in [Keys -> Nat] /\ hashOf.checks \in BOOLEAN
<1>1. hashOf.fn \in Hashes /\ hashOf.checks \in BOOLEAN OBVIOUS
<1> QED BY <1>1, HashMapAssumption

\* The invariant is what is to be shown.
LEMMA HashInvSays ==
    ASSUME HashInv
    PROVE  MapIsDictionary /\ HashMapTypeOK
<1>1. PICK h : h = hashOf.fn OBVIOUS
<1>2. h \in [Keys -> Nat] BY <1>1, HashIs DEF HashInv
<1>3. ASSUME NEW x \in Maps
      PROVE  /\ hm[x].buckets \in Seq(Seq(Node)) /\ DOMAIN dict[x] \subseteq Keys
             /\ hm[x].size = Cardinality(DOMAIN dict[x])
             /\ Len(FlattenSeq(hm[x].buckets)) = hm[x].size
  <2>1. PICK m, d : m = hm[x] /\ d = dict[x] OBVIOUS
  <2>2. MapHolds(h, m, d) BY <1>1, <2>1 DEF HashInv
  <2>3. m.buckets \in Seq(Seq(Node)) /\ d \in Dicts /\ m.size = Cardinality(DOMAIN d) BY <2>2 DEF MapHolds
  <2>4. DOMAIN d \subseteq Keys BY <2>3, DictsIs
  <2>5. Len(FlattenSeq(m.buckets)) = m.size BY <2>2, CountIs
  <2> QED BY <2>1, <2>3, <2>4, <2>5
<1>4. ASSUME NEW x \in Maps, NEW k \in Keys
      PROVE  FindNode(hm[x].buckets, k) = IF k \in DOMAIN dict[x] THEN <<[key |-> k, val |-> dict[x][k]]>> ELSE <<>>
  <2>1. PICK b, d, c, N : b = hm[x].buckets /\ d = dict[x] /\ c = Len(b) /\ N = Entries(d) OBVIOUS
  <2>2. MapHolds(h, hm[x], d) BY <1>1, <2>1 DEF HashInv
  <2>3. Table(h, b, c, N) /\ d \in Dicts BY <2>1, <2>2 DEF MapHolds
  <2>4. /\ \A n \in N : n.key = k => FindNode(b, k) = <<n>>
        /\ (\A n \in N : n.key # k) => FindNode(b, k) = <<>>
    BY <1>1, <1>2, <2>3, FindIs
  <2>5. CASE k \in DOMAIN d
    <3>1. PICK n : n = Entry(d, k) OBVIOUS
    <3>2. n \in N /\ n.key = k BY <2>1, <2>3, <2>5, <3>1, EntryIs
    <3>3. FindNode(b, k) = <<n>> BY <2>4, <3>2
    <3> QED BY <2>1, <2>5, <3>1, <3>3 DEF Entry
  <2>6. CASE k \notin DOMAIN d
    <3>1. \A n \in N : n.key # k BY <2>1, <2>3, <2>6, EntryIs
    <3> QED BY <2>1, <2>4, <2>6, <3>1
  <2> QED BY <2>5, <2>6
<1>5. /\ walk.key # NoKey => walk.key \in DOMAIN dict[walk.map]
      /\ walk.key = NoKey => walk.due = {}
  <2>1. ASSUME walk.key # NoKey PROVE walk.key \in DOMAIN dict[walk.map]
    <3>1. On(hashOf.fn, hm[walk.map].buckets, dict[walk.map], walk.idx, walk.key, walk.due)
      BY <2>1 DEF HashInv, Walks
    <3> QED BY <3>1 DEF On
  <2>2. ASSUME walk.key = NoKey PROVE walk.due = {} BY <2>2 DEF HashInv, Walks
  <2> QED BY <2>1, <2>2
<1>6. MapIsDictionary BY <1>3, <1>4, <1>5 DEF MapIsDictionary
<1>7. HashMapTypeOK BY <1>3 DEF HashMapTypeOK, HashInv
<1> QED BY <1>6, <1>7

LEMMA NoWalkIs ==
    ASSUME NEW h, NEW m, NEW d
    PROVE  Walks(h, m, d, NoWalk)
<1>1. NoWalk.key = NoKey /\ NoWalk.due = {} BY DEF NoWalk
<1> QED BY <1>1 DEF Walks

LEMMA NewMapIs == \A h : MapHolds(h, NewMap, <<>>)
<1> TAKE h
<1>1. PICK b, m : b = [i \in 1..0 |-> <<>>] /\ m = [buckets |-> b, size |-> 0] OBVIOUS
<1>2. MapHolds(h, m, <<>>) BY <1>1, GoodEmpty
<1>3. b = <<>> BY <1>1
<1> QED BY <1>1, <1>2, <1>3 DEF NewMap

LEMMA HashInvInit ==
    ASSUME HashMapInit
    PROVE  HashInv
<1>1. hashOf \in [fn : Hashes, checks : BOOLEAN] /\ broke = "no" /\ walk = NoWalk BY DEF HashMapInit
<1>2. DOMAIN hm = Maps /\ DOMAIN dict = Maps /\ \A x \in Maps : hm[x] = NewMap /\ dict[x] = <<>>
  BY DEF HashMapInit
<1>3. \A x \in Maps : MapHolds(hashOf.fn, hm[x], dict[x]) BY <1>2, NewMapIs
<1>4. Walks(hashOf.fn, hm, dict, walk) BY <1>1, NoWalkIs
<1> QED BY <1>1, <1>2, <1>3, <1>4 DEF HashInv

\* Keep: an iterator of another map stands where it was.
LEMMA KeepIs ==
    ASSUME HashInv, NEW x, x \in Maps, Keep(x),
           \A y \in Maps : y # x => hm'[y] = hm[y] /\ dict'[y] = dict[y]
    PROVE  Walks(hashOf.fn, hm', dict', walk')
<1>1. CASE walk.map = x
  <2>1. walk' = NoWalk BY <1>1 DEF Keep
  <2>2. Walks(hashOf.fn, hm', dict', NoWalk) BY NoWalkIs
  <2> QED BY <2>1, <2>2
<1>2. CASE walk.map # x
  <2>1. walk' = walk BY <1>2 DEF Keep
  <2>2. Walks(hashOf.fn, hm', dict', walk) BY <1>2 DEF HashInv, Walks
  <2> QED BY <2>1, <2>2
<1> QED BY <1>1, <1>2

\* A map that changes, and its iterator.
LEMMA OneChanges ==
    ASSUME HashInv, NEW x, x \in Maps, NEW new, NEW d,
           hm' = [hm EXCEPT ![x] = new], dict' = [dict EXCEPT ![x] = d],
           MapHolds(hashOf.fn, new, d), Keep(x), UNCHANGED broke
    PROVE  HashInv'
<1>1. hashOf' = hashOf BY DEF Keep
<1>2. DOMAIN hm = Maps /\ DOMAIN dict = Maps BY DEF HashInv
<1>3. /\ DOMAIN hm' = Maps /\ DOMAIN dict' = Maps /\ hm'[x] = new /\ dict'[x] = d
      /\ \A y \in Maps : y # x => hm'[y] = hm[y] /\ dict'[y] = dict[y]
  BY <1>2
<1>4. \A y \in Maps : MapHolds(hashOf.fn, hm'[y], dict'[y]) BY <1>3 DEF HashInv
<1>5. Walks(hashOf.fn, hm', dict', walk') BY <1>3, KeepIs
<1> QED BY <1>1, <1>3, <1>4, <1>5 DEF HashInv

LEMMA ClearMapKeeps ==
    ASSUME HashInv, NEW x, x \in Maps, ClearMap(x)
    PROVE  HashInv'
<1>1. PICK m, new : m = hm[x] /\ new = Emptied(m) OBVIOUS
<1>2. MapHolds(hashOf.fn, m, dict[x]) BY <1>1 DEF HashInv
<1>3. m.buckets \in Seq(Seq(Node)) BY <1>2 DEF MapHolds
<1>4. PICK c : c = Len(m.buckets) OBVIOUS
<1>5. c \in Nat /\ DOMAIN m.buckets = 1..c BY <1>3, <1>4
<1>6. PICK b : b = [i \in 1..c |-> <<>>] OBVIOUS
<1>7. new = [buckets |-> b, size |-> 0] BY <1>1, <1>5, <1>6 DEF Emptied
<1>8. MapHolds(hashOf.fn, new, <<>>) BY <1>5, <1>6, <1>7, GoodEmpty
<1>9. hm' = [hm EXCEPT ![x] = new] /\ dict' = [dict EXCEPT ![x] = <<>>] /\ Keep(x) /\ UNCHANGED broke
  BY <1>1 DEF ClearMap
<1> QED BY <1>8, <1>9, OneChanges

LEMMA EraseKeyKeeps ==
    ASSUME HashInv, NEW x, x \in Maps, NEW k, k \in Keys, EraseKey(x, k)
    PROVE  HashInv'
<1>1. PICK m, d, i : m = hm[x] /\ d = dict[x] /\ i = IndexOf(k, Len(m.buckets)) OBVIOUS
<1>2. MapHolds(hashOf.fn, m, d) BY <1>1 DEF HashInv
<1>3. i = Slot(hashOf.fn, k, Len(m.buckets)) BY <1>1 DEF IndexOf, Slot
<1>4. k \in DOMAIN d
  <2>1. FindNode(m.buckets, k) # <<>> BY <1>1 DEF EraseKey
  <2> QED BY <1>1, <2>1, HashInvSays DEF MapIsDictionary
<1>5. MapHolds(hashOf.fn, Without(m, i, k), Less(d, k))
  <2>1. PICK j : j = Position(m.buckets[i], k) OBVIOUS
  <2> QED BY <1>2, <1>3, <1>4, <2>1, GoodLess
<1>6. hm' = [hm EXCEPT ![x] = Without(m, i, k)] BY <1>1 DEF EraseKey
<1>7. dict' = [dict EXCEPT ![x] = Less(d, k)] BY <1>1 DEF EraseKey, Forgets, Less
<1>8. Keep(x) /\ UNCHANGED broke BY DEF EraseKey
<1>9. PICK new, e : new = Without(m, i, k) /\ e = Less(d, k) OBVIOUS
<1> QED BY <1>5, <1>6, <1>7, <1>8, <1>9, OneChanges

LEMMA MoveMapKeeps ==
    ASSUME HashInv, NEW x, x \in Maps, NEW y, y \in Maps, MoveMap(x, y)
    PROVE  HashInv'
<1>1. /\ x # y /\ hm' = [hm EXCEPT ![x] = hm[y], ![y] = NewMap]
      /\ dict' = [dict EXCEPT ![x] = dict[y], ![y] = << >>]
      /\ walk' = (IF walk.map \in {x, y} THEN NoWalk ELSE walk)
      /\ hashOf' = hashOf /\ broke' = broke
  BY DEF MoveMap
<1>2. DOMAIN hm = Maps /\ DOMAIN dict = Maps BY DEF HashInv
<1>3. /\ DOMAIN hm' = Maps /\ hm'[x] = hm[y] /\ hm'[y] = NewMap
      /\ \A z \in Maps : z # x /\ z # y => hm'[z] = hm[z]
  BY <1>1, <1>2
<1>4. PICK none : none = << >> OBVIOUS
<1>5. dict' = [dict EXCEPT ![x] = dict[y], ![y] = none] BY <1>1, <1>4
<1>6. /\ DOMAIN dict' = Maps /\ dict'[x] = dict[y] /\ dict'[y] = none
      /\ \A z \in Maps : z # x /\ z # y => dict'[z] = dict[z]
  BY <1>1, <1>2, <1>5
<1>7. ASSUME NEW z \in Maps PROVE MapHolds(hashOf.fn, hm'[z], dict'[z])
  <2>1. CASE z = x BY <1>3, <1>6, <2>1 DEF HashInv
  <2>2. CASE z = y BY <1>3, <1>4, <1>6, <2>2, NewMapIs
  <2>3. CASE z # x /\ z # y BY <1>3, <1>6, <2>3 DEF HashInv
  <2> QED BY <2>1, <2>2, <2>3
<1>8. Walks(hashOf.fn, hm', dict', walk')
  <2>1. CASE walk.map \in {x, y} BY <1>1, <2>1, NoWalkIs
  <2>2. CASE walk.map \notin {x, y}
    <3>1. walk' = walk BY <1>1, <2>2
    <3>2. Walks(hashOf.fn, hm', dict', walk) BY <1>3, <1>6, <2>2 DEF HashInv, Walks
    <3> QED BY <3>1, <3>2
  <2> QED BY <2>1, <2>2
<1> QED BY <1>1, <1>3, <1>6, <1>7, <1>8 DEF HashInv

LEMMA AtIs ==
    ASSUME NEW h, NEW m, NEW d, NEW x, x \in Maps, NEW place, NEW due,
           StandsOn(h, m[x].buckets, d[x], place[1], place[2], due \ {place[2]})
    PROVE  Walks(h, m, d, At(x, place, due))
<1>1. PICK w, rest : rest = due \ {place[2]} /\ w = [map |-> x, idx |-> place[1], key |-> place[2], due |-> rest]
  OBVIOUS
<1>2. w = At(x, place, due) BY <1>1 DEF At
<1>3. w.map = x /\ w.idx = place[1] /\ w.key = place[2] /\ w.due = rest BY <1>1
<1>4. Walks(h, m, d, w) BY <1>1, <1>3 DEF Walks, StandsOn
<1> QED BY <1>2, <1>4

\* Only the iterator changes.
LEMMA WalkChanges ==
    ASSUME HashInv, UNCHANGED <<hashOf, hm, dict, broke>>, NEW x, x \in Maps, NEW place, NEW due,
           walk' = At(x, place, due),
           StandsOn(hashOf.fn, hm[x].buckets, dict[x], place[1], place[2], due \ {place[2]})
    PROVE  HashInv'
<1>1. Walks(hashOf.fn, hm, dict, At(x, place, due)) BY AtIs
<1>2. Walks(hashOf.fn, hm, dict, walk') BY <1>1
<1> QED BY <1>2 DEF HashInv

LEMMA BeginKeeps ==
    ASSUME HashInv, NEW x, x \in Maps, Begin(x)
    PROVE  HashInv'
<1>1. PICK b, d, place, due : /\ b = hm[x].buckets /\ d = dict[x] /\ due = DOMAIN d
                              /\ place = Settle(b, 0, FirstKey(b[1]))
  OBVIOUS
<1>2. MapHolds(hashOf.fn, hm[x], d) BY <1>1 DEF HashInv
<1>3. b # <<>> BY <1>1 DEF Begin
<1>4. StandsOn(hashOf.fn, b, d, place[1], place[2], DOMAIN d \ {place[2]}) BY <1>1, <1>2, <1>3, BeginIs
<1>5. walk' = At(x, place, due) /\ UNCHANGED <<hashOf, hm, dict, broke>> BY <1>1 DEF Begin
<1>6. StandsOn(hashOf.fn, hm[x].buckets, dict[x], place[1], place[2], due \ {place[2]}) BY <1>1, <1>4
<1> QED BY <1>5, <1>6, WalkChanges

LEMMA FindItKeeps ==
    ASSUME HashInv, NEW x, x \in Maps, NEW k, k \in Keys, FindIt(x, k)
    PROVE  HashInv'
<1>1. PICK b, d, i, h : b = hm[x].buckets /\ d = dict[x] /\ i = IndexOf(k, Len(b)) /\ h = hashOf.fn OBVIOUS
<1>2. MapHolds(h, hm[x], d) BY <1>1 DEF HashInv
<1>3. i = Slot(h, k, Len(b)) BY <1>1 DEF IndexOf, Slot
<1>4. k \in DOMAIN d
  <2>1. FindNode(b, k) # <<>> BY <1>1 DEF FindIt
  <2> QED BY <1>1, <2>1, HashInvSays DEF MapIsDictionary
<1>5. i \in 1..Len(b) /\ Len(b) \in Nat
  <2>1. PICK j : j = Position(b[i], k) OBVIOUS
  <2>2. i \in 1..Len(b) BY <1>1, <1>2, <1>3, <1>4, <2>1, PlaceIs
  <2>3. b \in Seq(Seq(Node)) BY <1>1, <1>2 DEF MapHolds
  <2> QED BY <2>2, <2>3
<1>6. PICK place, none : place = <<i - 1, k>> /\ none = {} OBVIOUS
<1>7. place[1] = i - 1 /\ place[2] = k /\ none \ {place[2]} = {} BY <1>6
<1>8. k # NoKey BY HashMapAssumption
<1>9. On(h, b, d, place[1], place[2], {})
  <2>1. place[1] \in Nat /\ place[1] + 1 = i BY <1>5, <1>7
  <2> QED BY <1>3, <1>4, <1>7, <2>1 DEF On
<1>10. StandsOn(h, b, d, place[1], place[2], none \ {place[2]}) BY <1>7, <1>8, <1>9 DEF StandsOn
<1>11. walk' = At(x, place, none) /\ UNCHANGED <<hashOf, hm, dict, broke>> BY <1>1, <1>6 DEF FindIt
<1>12. StandsOn(hashOf.fn, hm[x].buckets, dict[x], place[1], place[2], none \ {place[2]}) BY <1>1, <1>10
<1> QED BY <1>11, <1>12, WalkChanges

LEMMA AdvanceKeeps ==
    ASSUME HashInv, Advance
    PROVE  HashInv'
<1>1. PICK x, b, d, h, place, due :
         /\ x = walk.map /\ b = hm[x].buckets /\ d = dict[x] /\ h = hashOf.fn
         /\ place = Following(b, walk.idx, walk.key) /\ due = walk.due
  OBVIOUS
<1>2. x \in Maps /\ On(h, b, d, walk.idx, walk.key, due) BY <1>1 DEF HashInv, Walks, Advance
<1>3. MapHolds(h, hm[x], d) BY <1>1, <1>2 DEF HashInv
<1>4. StandsOn(h, b, d, place[1], place[2], due \ {place[2]})
  <2>1. PICK idx, key : idx = walk.idx /\ key = walk.key OBVIOUS
  <2>2. On(h, b, d, idx, key, due) /\ place = Following(b, idx, key) BY <1>1, <1>2, <2>1
  <2> QED BY <1>1, <1>3, <2>2, FollowingIs
<1>5. walk' = At(x, place, due) /\ UNCHANGED <<hashOf, hm, dict, broke>> BY <1>1 DEF Advance
<1>6. StandsOn(hashOf.fn, hm[x].buckets, dict[x], place[1], place[2], due \ {place[2]}) BY <1>1, <1>4
<1> QED BY <1>2, <1>5, <1>6, WalkChanges

\* erase through an iterator.
LEMMA EraseItKeeps ==
    ASSUME HashInv, EraseIt
    PROVE  HashInv'
<1>1. PICK x, m, b, d, h, idx, key, place, due :
         /\ x = walk.map /\ m = hm[x] /\ b = m.buckets /\ d = dict[x] /\ h = hashOf.fn
         /\ idx = walk.idx /\ key = walk.key
         /\ place = Following(b, idx, key) /\ due = walk.due
  OBVIOUS
<1>2. x \in Maps /\ On(h, b, d, idx, key, due) BY <1>1 DEF HashInv, Walks, EraseIt
<1>3. MapHolds(h, m, d) BY <1>1, <1>2 DEF HashInv
<1>4. StandsOn(h, b, d, place[1], place[2], due \ {place[2]}) /\ place[2] # key
  <2>1. MapHolds(h, m, d) /\ b = m.buckets /\ On(h, b, d, idx, key, due) /\ place = Following(b, idx, key)
    BY <1>1, <1>2, <1>3
  <2> QED BY ONLY <2>1, FollowingIs
<1>5. PICK i, j : i = idx + 1 /\ j = Position(b[i], key) OBVIOUS
<1>6. key \in DOMAIN d /\ i = Slot(h, key, Len(b)) BY <1>2, <1>5 DEF On
<1>7. i \in 1..Len(b) /\ j \in 1..Len(b[i]) BY <1>1, <1>3, <1>5, <1>6, PlaceIs
<1>8. j # 0 BY <1>7
<1>9. PICK new, e, w : new = Without(m, i, key) /\ e = Less(d, key) /\ w = At(x, place, due) OBVIOUS
<1>10. MapHolds(h, new, e) /\ new.buckets = Dropped(b, i, j) BY <1>1, <1>3, <1>5, <1>6, <1>9, GoodLess
<1>11. hm' = [hm EXCEPT ![x] = new]
  <2>1. Position(b[idx + 1], key) # 0 BY <1>5, <1>8
  <2>2. hm' = IF Position(b[idx + 1], key) = 0 THEN hm ELSE [hm EXCEPT ![x] = Without(@, idx + 1, key)]
    BY <1>1 DEF EraseIt
  <2> QED BY <1>1, <1>5, <1>9, <2>1, <2>2
<1>12. dict' = [dict EXCEPT ![x] = e] BY <1>1, <1>9 DEF EraseIt, Forgets, Less
<1>13. walk' = w /\ hashOf' = hashOf /\ broke' = broke BY <1>1, <1>9 DEF EraseIt
<1>14. DOMAIN hm = Maps /\ DOMAIN dict = Maps BY DEF HashInv
<1>15. /\ DOMAIN hm' = Maps /\ DOMAIN dict' = Maps /\ hm'[x] = new /\ dict'[x] = e
       /\ \A y \in Maps : y # x => hm'[y] = hm[y] /\ dict'[y] = dict[y]
  BY <1>2, <1>11, <1>12, <1>14
<1>16. \A y \in Maps : MapHolds(h, hm'[y], dict'[y]) BY <1>1, <1>10, <1>15 DEF HashInv
<1>17. StandsOn(h, new.buckets, e, place[1], place[2], due \ {place[2]})
  <2>1. CASE place[2] = NoKey BY <1>4, <2>1 DEF StandsOn
  <2>2. CASE place[2] # NoKey
    <3>1. PICK idx2, key2, rest : idx2 = place[1] /\ key2 = place[2] /\ rest = due \ {place[2]} OBVIOUS
    <3>2. On(h, b, d, idx2, key2, rest) BY <1>4, <2>2, <3>1 DEF StandsOn
    <3>3. key \notin rest
      <4>1. SUFFICES ASSUME key \in due PROVE FALSE BY <3>1
      <4>2. Ahead(h, b, i, key, key) BY <1>2, <1>5, <4>1 DEF On
      <4>3. Len(b) \in Nat /\ i \in Nat
        <5>1. b \in Seq(Seq(Node)) BY <1>1, <1>3 DEF MapHolds
        <5> QED BY <1>7, <5>1
      <4>4. ~(i > i) BY <4>3
      <4>5. PICK p, q \in 1..Len(b[i]) : p < q /\ b[i][p].key = key /\ b[i][q].key = key
        BY <1>6, <4>2, <4>4 DEF Ahead
      <4>6. PICK c, N : c = Len(b) /\ N = Entries(d) OBVIOUS
      <4>7. Table(h, b, c, N) BY <1>1, <1>3, <4>6 DEF MapHolds
      <4>8. i \in 1..c BY <1>7, <4>6
      <4>9. \A r, y \in 1..Len(b[i]) : b[i][r].key = b[i][y].key => r = y BY <4>7, <4>8, TableIs
      <4>10. b[i][p].key = b[i][q].key BY <4>5
      <4>11. p = q BY <4>9, <4>10
      <4>12. \A r \in Int : ~(r < r) OBVIOUS
      <4>13. p \in Int OBVIOUS
      <4> QED BY <4>5, <4>11, <4>12, <4>13
    <3>4. On(h, Dropped(b, i, j), Less(d, key), idx2, key2, rest)
      <4>1. key # key2 BY <1>4, <3>1
      <4> QED BY <1>1, <1>3, <1>5, <1>6, <3>2, <3>3, <4>1, OnDropped
    <3>5. On(h, new.buckets, e, idx2, key2, rest) BY <1>9, <1>10, <3>4
    <3> QED BY <2>2, <3>1, <3>5 DEF StandsOn
  <2> QED BY <2>1, <2>2
<1>18. Walks(h, hm', dict', walk')
  <2>1. PICK f, g : f = hm' /\ g = dict' OBVIOUS
  <2>2. StandsOn(h, f[x].buckets, g[x], place[1], place[2], due \ {place[2]}) BY <1>15, <1>17, <2>1
  <2>3. Walks(h, f, g, At(x, place, due)) BY <1>2, <2>2, AtIs
  <2> QED BY <1>9, <1>13, <2>1, <2>3
<1> QED BY <1>1, <1>13, <1>15, <1>16, <1>18 DEF HashInv

\* The iterator on a map one of whose nodes gets another value.
LEMMA OnSame ==
    ASSUME NEW h, NEW b, NEW d, NEW e, NEW f, NEW idx, NEW key, NEW due, On(h, b, d, idx, key, due),
           Len(e) = Len(b), DOMAIN f = DOMAIN d, \A p \in 1..Len(b) : SameKeys(b[p], e[p]),
           Slot(h, key, Len(b)) \in 1..Len(b)
    PROVE  On(h, e, f, idx, key, due)
<1>1. PICK n : n = idx + 1 OBVIOUS
<1>2. /\ idx \in Nat /\ key \in DOMAIN d /\ Slot(h, key, Len(b)) = n
      /\ \A k \in due : k \in DOMAIN d /\ Ahead(h, b, n, key, k)
  <2>1. idx \in Nat /\ key \in DOMAIN d /\ Slot(h, key, Len(b)) = n BY <1>1 DEF On
  <2> QED BY <1>1, <2>1 DEF On
<1>3. SameKeys(b[n], e[n]) BY <1>2
<1>4. Len(e[n]) = Len(b[n]) /\ \A j \in 1..Len(b[n]) : e[n][j].key = b[n][j].key BY <1>3 DEF SameKeys
<1>5. ASSUME NEW k \in due PROVE k \in DOMAIN f /\ Ahead(h, e, n, key, k)
  <2>1. k \in DOMAIN d /\ Ahead(h, b, n, key, k) BY <1>2
  <2>2. CASE Slot(h, k, Len(b)) > n BY <2>1, <2>2 DEF Ahead
  <2>3. CASE ~(Slot(h, k, Len(b)) > n)
    <3>1. PICK p, q \in 1..Len(b[n]) : p < q /\ b[n][p].key = key /\ b[n][q].key = k BY <2>1, <2>3 DEF Ahead
    <3>2. p \in 1..Len(e[n]) /\ q \in 1..Len(e[n]) /\ e[n][p].key = key /\ e[n][q].key = k BY <1>4, <3>1
    <3>3. Ahead(h, e, n, key, k) BY <3>1, <3>2 DEF Ahead
    <3> QED BY <2>1, <3>3
  <2> QED BY <2>2, <2>3
<1> QED BY <1>1, <1>2, <1>5 DEF On

LEMMA SetNodeKeeps ==
    ASSUME HashInv, NEW x, x \in Maps, NEW k, k \in Keys, NEW v, v \in Vals, SetNode(x, k, v),
           FindNode(hm[x].buckets, k) # <<>>
    PROVE  HashInv'
<1>1. PICK m, d, c, i, h : /\ m = hm[x] /\ d = dict[x] /\ c = Len(m.buckets) /\ h = hashOf.fn
                           /\ i = IndexOf(k, c)
  OBVIOUS
<1>2. MapHolds(h, m, d) BY <1>1 DEF HashInv
<1>3. i = Slot(h, k, c) BY <1>1 DEF IndexOf, Slot
<1>4. k \in DOMAIN d BY <1>1, HashInvSays DEF MapIsDictionary
<1>5. PICK b, new, e : b = Revalued(m.buckets, i, k, v) /\ new = [buckets |-> b, size |-> m.size] /\ e = Replace(d, k, v)
  OBVIOUS
<1>6. MapHolds(h, new, e) /\ Len(b) = c /\ \A p \in 1..c : SameKeys(m.buckets[p], b[p])
  BY <1>1, <1>2, <1>3, <1>4, <1>5, GoodPut
<1>7. m = [buckets |-> m.buckets, size |-> m.size] BY <1>2 DEF MapHolds
<1>8. hm' = [hm EXCEPT ![x] = new]
  <2>1. hm' = [hm EXCEPT ![x].buckets[i] =
                  [j \in DOMAIN @ |-> IF @[j].key = k THEN [@[j] EXCEPT !.val = v] ELSE @[j]]]
    BY <1>1 DEF SetNode
  <2>2. PICK t, u : /\ t = m.buckets[i]
                    /\ u = [j \in DOMAIN t |-> IF t[j].key = k THEN [t[j] EXCEPT !.val = v] ELSE t[j]]
    OBVIOUS
  <2>3. b = [m.buckets EXCEPT ![i] = u] BY <1>5, <2>2 DEF Revalued
  <2>4. hm' = [hm EXCEPT ![x].buckets[i] = u] BY <1>1, <2>1, <2>2
  <2>5. PICK a : a = [m EXCEPT !.buckets[i] = u] OBVIOUS
  <2>6. hm' = [hm EXCEPT ![x] = a] BY <1>1, <2>4, <2>5
  <2>7. a = new
    <3>1. PICK y, z : y = m.buckets /\ z = m.size OBVIOUS
    <3>2. m = [buckets |-> y, size |-> z] BY <1>7, <3>1
    <3>3. a = [m EXCEPT !.buckets = b] BY <2>3, <2>5
    <3> QED BY <1>5, <3>1, <3>2, <3>3
  <2> QED BY <2>6, <2>7
<1>9. dict' = [dict EXCEPT ![x] = e]
  <2>1. dict' = [dict EXCEPT ![x][k] = v] BY DEF SetNode
  <2> QED BY <1>1, <1>5, <2>1 DEF Replace
<1>10. hashOf' = hashOf /\ walk' = walk /\ broke' = broke BY DEF SetNode
<1>11. DOMAIN hm = Maps /\ DOMAIN dict = Maps BY DEF HashInv
<1>12. /\ DOMAIN hm' = Maps /\ DOMAIN dict' = Maps /\ hm'[x] = new /\ dict'[x] = e
       /\ \A y \in Maps : y # x => hm'[y] = hm[y] /\ dict'[y] = dict[y]
  BY <1>8, <1>9, <1>11
<1>13. \A y \in Maps : MapHolds(h, hm'[y], dict'[y]) BY <1>1, <1>6, <1>12 DEF HashInv
<1>14. Walks(h, hm', dict', walk)
  <2>1. CASE walk.key = NoKey BY <2>1 DEF HashInv, Walks
  <2>2. CASE walk.key # NoKey /\ walk.map # x BY <1>1, <1>12, <2>2 DEF HashInv, Walks
  <2>3. CASE walk.key # NoKey /\ walk.map = x
    <3>1. PICK q, idx, key, due : q = m.buckets /\ idx = walk.idx /\ key = walk.key /\ due = walk.due OBVIOUS
    <3>2. On(h, q, d, idx, key, due) BY <1>1, <2>3, <3>1 DEF HashInv, Walks
    <3>3. Slot(h, key, Len(q)) \in 1..Len(q)
      <4>1. PICK r, j : r = Slot(h, key, Len(q)) /\ j = Position(q[r], key) OBVIOUS
      <4>2. key \in DOMAIN d BY <3>2 DEF On
      <4> QED BY <1>2, <3>1, <4>1, <4>2, PlaceIs
    <3>4. DOMAIN e = DOMAIN d BY <1>5 DEF Replace
    <3>5. Len(b) = Len(q) /\ \A p \in 1..Len(q) : SameKeys(q[p], b[p]) BY <1>1, <1>6, <3>1
    <3>6. On(h, b, e, idx, key, due) BY <3>2, <3>3, <3>4, <3>5, OnSame
    <3>7. new.buckets = b BY <1>5
    <3> QED BY <1>12, <2>3, <3>1, <3>6, <3>7 DEF Walks
  <2> QED BY <2>1, <2>2, <2>3
<1> QED BY <1>1, <1>10, <1>12, <1>13, <1>14 DEF HashInv

\* The table after GrowIfNeeded, when nothing stopped it.
LEMMA GrownIs ==
    ASSUME NEW m, NEW d, MapHolds(hashOf.fn, m, d), hashOf.fn \in [Keys -> Nat], NEW ok,
           NEW b, b = GrowIfNeeded(m, ok)[1]
    PROVE  Table(hashOf.fn, b, Len(b), Entries(d))
<1>1. PICK h, old : h = hashOf.fn /\ old = m.buckets OBVIOUS
<1>2. /\ Table(h, old, Len(old), Entries(d)) /\ old \in Seq(Seq(Node)) /\ d \in Dicts
      /\ m.size = Cardinality(DOMAIN d) /\ IsFiniteSet(DOMAIN d)
  BY <1>1 DEF MapHolds
<1>3. b = IF old = <<>> THEN (IF ok THEN [i \in 1..FirstBuckets |-> <<>>] ELSE <<>>)
          ELSE IF IsFull(m) THEN Rehashed(old, 2 * Len(old)) ELSE old
  BY <1>1 DEF GrowIfNeeded
<1>4. CASE old = <<>>
  <2>1. Entries(d) = {}
    <3>1. PICK c, N : c = Len(old) /\ N = Entries(d) OBVIOUS
    <3>2. Table(h, old, c, N) /\ c = 0 BY <1>2, <1>4, <3>1
    <3> QED BY <3>1, <3>2 DEF Table
  <2>2. CASE ok
    <3>1. b = [i \in 1..FirstBuckets |-> <<>>] /\ FirstBuckets \in Nat BY <1>3, <1>4, <2>2, HashMapAssumption
    <3>2. PICK c : c = FirstBuckets OBVIOUS
    <3>3. Table(h, b, c, {}) /\ Len(b) = c BY <3>1, <3>2, TableEmpty
    <3> QED BY <1>1, <2>1, <3>3
  <2>3. CASE ~ok
    <3>1. b = <<>> BY <1>3, <1>4, <2>3
    <3>2. b = old BY <1>4, <3>1
    <3> QED BY <1>1, <1>2, <3>2
  <2> QED BY <2>2, <2>3
<1>5. CASE old # <<>> /\ IsFull(m)
  <2>1. PICK c, N, n : c = Len(old) /\ N = Entries(d) /\ n = 2 * c OBVIOUS
  <2>2. n \in Nat \ {0}
    <3>1. Len(old) \in Nat /\ Len(old) # 0 BY <1>2, <1>5
    <3> QED BY <2>1, <3>1
  <2>3. b = Rehashed(old, n) BY <1>3, <1>5, <2>1
  <2>4. Table(h, Rehashed(old, n), n, N) BY <1>1, <1>2, <2>1, <2>2, TableRehash
  <2>5. Len(Rehashed(old, n)) = n BY <2>4 DEF Table
  <2> QED BY <1>1, <2>1, <2>3, <2>4, <2>5
<1>6. CASE old # <<>> /\ ~IsFull(m) BY <1>1, <1>2, <1>3, <1>6
<1> QED BY <1>4, <1>5, <1>6

\* What AddNode leaves when nothing stops it.
LEMMA AddNodeKeeps ==
    ASSUME HashInv, NEW x, x \in Maps, NEW k, k \in Keys, NEW v, v \in Vals, NEW ok, NEW nodeOk,
           AddNode(x, k, v, ok, nodeOk), FindNode(hm[x].buckets, k) = <<>>
    PROVE  HashInv'
<1>1. PICK m, d, h, grown, b : /\ m = hm[x] /\ d = dict[x] /\ h = hashOf.fn
                               /\ grown = GrowIfNeeded(m, ok) /\ b = grown[1]
  OBVIOUS
<1>2. PICK stop : stop = (IF grown[2] # "no" THEN grown[2]
                          ELSE IF ~nodeOk THEN "null"
                          ELSE IF b # <<>> THEN "no"
                          ELSE IF hashOf.checks THEN "panic" ELSE "null")
  OBVIOUS
<1>3. PICK i, c : c = Len(b) /\ i = IndexOf(k, c) OBVIOUS
<1>4. /\ broke' = stop
      /\ IF stop = "no"
         THEN /\ hm' = [hm EXCEPT ![x] =
                           [buckets |-> [b EXCEPT ![i] = PushFront(@, [key |-> k, val |-> v])],
                            size    |-> @.size + 1]]
              /\ dict' = [dict EXCEPT ![x] = [key \in DOMAIN @ \cup {k} |-> IF key = k THEN v ELSE @[key]]]
         ELSE hm' = [y \in Maps |-> NewMap] /\ dict' = [y \in Maps |-> << >>]
      /\ IF stop = "no" THEN Keep(x) ELSE walk' = NoWalk /\ UNCHANGED hashOf
  BY <1>1, <1>2, <1>3 DEF AddNode
<1>5. h \in [Keys -> Nat] BY <1>1, HashIs DEF HashInv
<1>6. MapHolds(h, m, d) BY <1>1 DEF HashInv
<1>7. CASE stop = "no"
  <2>1. b # <<>> /\ broke' = "no"
    <3>1. grown[2] = "no" BY <1>2, <1>7
    <3> QED BY <1>2, <1>4, <1>7, <3>1
  <2>2. Table(h, b, c, Entries(d)) BY <1>1, <1>3, <1>5, <1>6, GrownIs
  <2>3. c \in Nat \ {0}
    <3>1. b \in Seq(Seq(Node)) BY <2>2 DEF Table
    <3> QED BY <1>3, <2>1, <3>1
  <2>4. k \notin DOMAIN d
    <3>1. PICK n : n = [key |-> k, val |-> d[k]] OBVIOUS
    <3>2. <<n>> # <<>> OBVIOUS
    <3> QED BY <1>1, <3>1, <3>2, HashInvSays DEF MapIsDictionary
  <2>5. PICK n, p, new, e : /\ n = [key |-> k, val |-> v] /\ p = PushedOn(h, b, c, n)
                            /\ new = [buckets |-> p, size |-> m.size + 1] /\ e = Added(d, k, v)
    OBVIOUS
  <2>6. MapHolds(h, new, e) BY <1>5, <1>6, <2>2, <2>3, <2>4, <2>5, GoodAdded
  <2>7. i = Slot(h, n.key, c) BY <1>1, <1>3, <2>5 DEF IndexOf, Slot
  <2>8. p = [b EXCEPT ![i] = PushFront(@, n)] BY <2>5, <2>7 DEF PushedOn
  <2>9. hm' = [hm EXCEPT ![x] = new] BY <1>1, <1>4, <1>7, <2>5, <2>8
  <2>10. dict' = [dict EXCEPT ![x] = e] BY <1>1, <1>4, <1>7, <2>5 DEF Added
  <2>11. Keep(x) /\ hashOf' = hashOf BY <1>4, <1>7 DEF Keep
  <2>12. DOMAIN hm = Maps /\ DOMAIN dict = Maps BY DEF HashInv
  <2>13. /\ DOMAIN hm' = Maps /\ DOMAIN dict' = Maps /\ hm'[x] = new /\ dict'[x] = e
         /\ \A y \in Maps : y # x => hm'[y] = hm[y] /\ dict'[y] = dict[y]
    BY <2>9, <2>10, <2>12
  <2>14. \A y \in Maps : MapHolds(h, hm'[y], dict'[y]) BY <1>1, <2>6, <2>13 DEF HashInv
  <2>15. Walks(h, hm', dict', walk') BY <1>1, <2>11, <2>13, KeepIs
  <2>16. hashOf' \in [fn : Hashes, checks : BOOLEAN] /\ hashOf'.fn = h BY <1>1, <2>11 DEF HashInv
  <2> QED BY <2>1, <2>13, <2>14, <2>15, <2>16 DEF HashInv
<1>8. CASE stop # "no"
  <2>1. stop \in {"no", "null", "panic"}
    <3>1. grown[2] \in {"no", "null", "panic"} BY <1>1 DEF GrowIfNeeded, RehashStop
    <3> QED BY <1>2, <3>1
  <2>2. hm' = [y \in Maps |-> NewMap] /\ walk' = NoWalk /\ hashOf' = hashOf BY <1>4, <1>8
  <2>3. DOMAIN hm' = Maps /\ \A y \in Maps : hm'[y] = NewMap BY <2>2
  <2>4. PICK none : none = << >> OBVIOUS
  <2>5. dict' = [y \in Maps |-> none] BY <1>4, <1>8, <2>4
  <2>6. DOMAIN dict' = Maps /\ \A y \in Maps : dict'[y] = none BY <2>5
  <2>7. MapHolds(h, NewMap, none) BY <2>4, NewMapIs
  <2>8. \A y \in Maps : MapHolds(h, hm'[y], dict'[y]) BY <2>3, <2>6, <2>7
  <2>9. Walks(h, hm', dict', walk') BY <2>2, NoWalkIs
  <2>10. hashOf' \in [fn : Hashes, checks : BOOLEAN] /\ hashOf'.fn = h BY <1>1, <2>2 DEF HashInv
  <2>11. broke' \in {"no", "null", "panic"} BY <1>4, <2>1
  <2> QED BY <2>3, <2>6, <2>8, <2>9, <2>10, <2>11 DEF HashInv
<1> QED BY <1>7, <1>8

LEMMA HashInvNext ==
    ASSUME HashInv, [HashMapNext]_hashMapVars
    PROVE  HashInv'
<1>1. CASE UNCHANGED hashMapVars BY <1>1 DEF HashInv, hashMapVars
<1>2. CASE HashMapNext
  <2>1. ASSUME NEW x \in Maps, ClearMap(x) PROVE HashInv' BY <2>1, ClearMapKeeps
  <2>2. ASSUME NEW x \in Maps, Begin(x) PROVE HashInv' BY <2>2, BeginKeeps
  <2>3. ASSUME NEW x \in Maps, NEW y \in Maps, MoveMap(x, y) PROVE HashInv' BY <2>3, MoveMapKeeps
  <2>4. ASSUME NEW x \in Maps, NEW k \in Keys, EraseKey(x, k) PROVE HashInv' BY <2>4, EraseKeyKeeps
  <2>5. ASSUME NEW x \in Maps, NEW k \in Keys, FindIt(x, k) PROVE HashInv' BY <2>5, FindItKeeps
  <2>6. ASSUME NEW x \in Maps, NEW k \in Keys, NEW ok, NEW nodeOk, Subscript(x, k, ok, nodeOk) PROVE HashInv'
    <3>1. CASE FindNode(hm[x].buckets, k) # <<>> BY <2>6, <3>1 DEF Subscript, HashInv, hashMapVars
    <3>2. CASE FindNode(hm[x].buckets, k) = <<>>
      <4>1. AddNode(x, k, ValDefault, ok, nodeOk) BY <2>6, <3>2 DEF Subscript
      <4>2. ValDefault \in Vals BY HashMapAssumption
      <4> QED BY <3>2, <4>1, <4>2, AddNodeKeeps
    <3> QED BY <3>1, <3>2
  <2>7. ASSUME NEW x \in Maps, NEW k \in Keys, NEW ok, NEW nodeOk, NEW v \in Vals,
               InsertOrAssign(x, k, v, ok, nodeOk)
        PROVE  HashInv'
    <3>1. CASE FindNode(hm[x].buckets, k) # <<>> BY <2>7, <3>1, SetNodeKeeps DEF InsertOrAssign
    <3>2. CASE FindNode(hm[x].buckets, k) = <<>> BY <2>7, <3>2, AddNodeKeeps DEF InsertOrAssign
    <3> QED BY <3>1, <3>2
  <2>8. ASSUME NEW x \in Maps, NEW k \in Keys, NEW ok, NEW nodeOk, NEW v \in Vals,
               InsertNew(x, k, v, ok, nodeOk)
        PROVE  HashInv'
    BY <2>8, AddNodeKeeps DEF InsertNew
  <2>9. CASE Advance BY <2>9, AdvanceKeeps
  <2>10. CASE EraseIt BY <2>10, EraseItKeeps
  <2> QED BY <1>2, <2>1, <2>2, <2>3, <2>4, <2>5, <2>6, <2>7, <2>8, <2>9, <2>10 DEF HashMapNext
<1> QED BY <1>1, <1>2

\* Every hash map is its dictionary, whatever the keys, the hash functions and the first number
\* of buckets are: each entry is found in the bucket of its hash, once, nothing else is, size_
\* counts them, and an iterator passes every entry that was there when it began.
THEOREM MapsAreDictionaries == HashMapSpec => [](MapIsDictionary /\ HashMapTypeOK)
<1>1. HashMapInit => HashInv BY HashInvInit
<1>2. HashInv /\ [HashMapNext]_hashMapVars => HashInv' BY HashInvNext
<1>3. HashInv => MapIsDictionary /\ HashMapTypeOK BY HashInvSays
<1> QED BY <1>1, <1>2, <1>3, PTL DEF HashMapSpec

-----------------------------------------------------------------------------
(* The stream of the log.                                                  *)

\* A set of numbers that is not empty has a least element.

Char  == Glyph \cup {EndOfLine, Junk}
Steps == {"idle", "test", "load", "cell first", "index first", "index last", "cell last",
          "stored", "flush", "put"}
\* A stream that was not written outside of.
Stream(i, buffer) == [pos |-> i, cells |-> buffer, spilled |-> FALSE]

-----------------------------------------------------------------------------
(* The handler.                                                            *)

\* written has the stream between the characters of NmiText, up to the n-th.
Handled(s, n, written) ==
    written = [k \in 0..n |-> IF k = 0 THEN s ELSE Write(written[k - 1], NmiText[k])]

\* There is such a function: a counterexample of least n extends the one below it.
LEMMA HandledExists ==
    ASSUME NEW s, NEW n \in Nat
    PROVE  \E written : Handled(s, n, written)
<1> DEFINE Bad == {m \in Nat : ~ \E g : Handled(s, m, g)}
<1> SUFFICES ASSUME Bad # {} PROVE FALSE OBVIOUS
<1>1. PICK m \in Bad : \A k \in Bad : m <= k BY LeastNumber
<1>2. m # 0
  <2>1. Handled(s, 0, [k \in 0..0 |-> s]) BY DEF Handled
  <2> QED BY <2>1
<1>3. PICK g : Handled(s, m - 1, g) BY <1>1, <1>2
<1> DEFINE h == [k \in 0..m |-> IF k = m THEN Write(g[m - 1], NmiText[m]) ELSE g[k]]
<1>4. \A k \in 0..m : h[k] = IF k = 0 THEN s ELSE Write(h[k - 1], NmiText[k])
  <2> SUFFICES ASSUME NEW k \in 0..m PROVE h[k] = IF k = 0 THEN s ELSE Write(h[k - 1], NmiText[k]) OBVIOUS
  <2>1. m \in Nat BY <1>1
  <2>2. CASE k = m
    <3>1. h[k - 1] = g[m - 1] BY <1>2, <2>1, <2>2
    <3> QED BY <1>2, <2>1, <2>2, <3>1
  <2>3. CASE k # m
    <3>1. k \in 0..(m - 1) BY <2>1, <2>3
    <3>2. g[k] = IF k = 0 THEN s ELSE Write(g[k - 1], NmiText[k]) BY <1>3, <3>1 DEF Handled
    <3>3. k # 0 => h[k - 1] = g[k - 1] BY <2>1, <2>3
    <3>4. h[k] = g[k] BY <2>3
    <3> QED BY <3>2, <3>3, <3>4
  <2> QED BY <2>2, <2>3
<1>5. Handled(s, m, h) BY <1>4 DEF Handled
<1> QED BY <1>1, <1>5

\* write keeps the stream in its bounds, and leaves an empty buffer after the end of a line.
StreamHolds(buffer) == DOMAIN buffer = 1..StreamSize
Bounded(s) == \E i \in 0..StreamSize : \E buffer : StreamHolds(buffer) /\ s = Stream(i, buffer)
Empty(s) == \E buffer : StreamHolds(buffer) /\ s = Stream(0, buffer)

LEMMA FlushedIs ==
    ASSUME NEW i, NEW buffer
    PROVE  Empty(Flushed(Stream(i, buffer)))
<1>1. PICK clean : clean = [k \in 1..StreamSize |-> Junk] OBVIOUS
<1>2. StreamHolds(clean) BY <1>1 DEF StreamHolds
<1>3. PICK x, f : x = [pos |-> i, cells |-> buffer, spilled |-> f] /\ f = FALSE OBVIOUS
<1>4. Flushed(x) = [x EXCEPT !.pos = 0, !.cells = clean] BY <1>1 DEF Flushed
<1>5. [x EXCEPT !.pos = 0, !.cells = clean] = [pos |-> 0, cells |-> clean, spilled |-> f]
  <2>1. PICK y : y = [x EXCEPT !.pos = 0] OBVIOUS
  <2>2. y = [pos |-> 0, cells |-> buffer, spilled |-> f] BY <1>3, <2>1
  <2>3. [x EXCEPT !.pos = 0, !.cells = clean] = [y EXCEPT !.cells = clean] BY <2>1
  <2> QED BY <2>2, <2>3
<1>6. x = Stream(i, buffer) /\ Stream(0, clean) = [pos |-> 0, cells |-> clean, spilled |-> f] BY <1>3 DEF Stream
<1> QED BY <1>2, <1>3, <1>4, <1>5, <1>6 DEF Empty

LEMMA WriteIs ==
    ASSUME NEW s, Bounded(s), NEW c
    PROVE  Bounded(Write(s, c)) /\ (c = EndOfLine => Empty(Write(s, c)))
<1>0. StreamSize \in Nat \ {0} BY LogStreamAssumption
<1>1. \A t : Empty(t) => Bounded(t) BY <1>0 DEF Empty, Bounded
<1>2. PICK room : room = IF StreamFull(s.pos) THEN Flushed(s) ELSE s OBVIOUS
<1>3. \E i \in 0..StreamSize - 1 : \E buffer : StreamHolds(buffer) /\ room = Stream(i, buffer)
  <2>1. PICK i \in 0..StreamSize : \E buffer : StreamHolds(buffer) /\ s = Stream(i, buffer) BY DEF Bounded
  <2>5. PICK buffer : StreamHolds(buffer) /\ s = Stream(i, buffer) BY <2>1
  <2>2. s.pos = i BY <2>5 DEF Stream
  <2>3. CASE i = StreamSize
    <3>1. Empty(room) BY <1>2, <2>5, <2>2, <2>3, FlushedIs DEF StreamFull
    <3> QED BY <1>0, <3>1 DEF Empty
  <2>4. CASE i # StreamSize BY <1>0, <1>2, <2>5, <2>2, <2>4 DEF StreamFull
  <2> QED BY <2>3, <2>4
<1>12. PICK i \in 0..StreamSize - 1 : \E buffer : StreamHolds(buffer) /\ room = Stream(i, buffer) BY <1>3
<1>4. PICK buffer : StreamHolds(buffer) /\ room = Stream(i, buffer) BY <1>12
<1>5. PICK done, with : /\ done = [room EXCEPT !.cells[room.pos + 1] = c, !.pos = @ + 1]
                        /\ with = [buffer EXCEPT ![i + 1] = c]
  OBVIOUS
<1>6. room.pos = i /\ done = Stream(i + 1, with) BY <1>4, <1>5 DEF Stream
<1>7. StreamHolds(with) BY <1>4, <1>5 DEF StreamHolds
<1>8. i + 1 \in 0..StreamSize /\ ~(i >= StreamSize) BY <1>0
<1>9. Write(s, c) = IF c = EndOfLine THEN Flushed(done) ELSE done
  BY <1>2, <1>5, <1>6, <1>8 DEF Write
<1>10. Bounded(done) BY <1>6, <1>7, <1>8 DEF Bounded
<1>11. Empty(Flushed(done)) BY <1>6, FlushedIs
<1> QED BY <1>1, <1>9, <1>10, <1>11

\* What the handler leaves: an empty buffer.
LEMMA NmiIs ==
    ASSUME NEW s, Bounded(s), NEW w, w = CHOOSE g : Handled(s, Len(NmiText), g)
    PROVE  Empty(w[Len(NmiText)])
<1>1. /\ Len(NmiText) = 2 /\ NmiText[1] = Letter /\ NmiText[2] = EndOfLine
  BY DEF NmiText
<1>2. \E g : Handled(s, 2, g) BY HandledExists
<1>3. Handled(s, 2, w) BY <1>1, <1>2
<1>6. \A k \in 0..2 : w[k] = IF k = 0 THEN s ELSE Write(w[k - 1], NmiText[k]) BY <1>3 DEF Handled
<1>4. w[0] = s /\ w[1] = Write(w[0], NmiText[1]) /\ w[2] = Write(w[1], NmiText[2]) BY <1>6
<1>5. Bounded(w[1]) BY <1>1, <1>4, WriteIs
<1> QED BY <1>1, <1>4, <1>5, WriteIs

-----------------------------------------------------------------------------
(* The kernel's steps, with interrupts between them.                       *)

\* The index is inside the buffer wherever it is stored, and every place that was loaded is.
BufferInv ==
    /\ pos \in 0..StreamSize /\ StreamHolds(cells) /\ alone \in BOOLEAN
    /\ spilled = FALSE
    /\ DOMAIN line = {"step", "text", "ln", "at", "n", "then"}
    /\ line.step \in Steps /\ line.then \in {"idle", "test", "load"}
    /\ line.step = "load" => pos < StreamSize
    /\ line.step \in {"cell first", "index first", "index last", "cell last"} =>
          line.at \in 0..StreamSize - 1

LEMMA NmiKeepsBuffer ==
    ASSUME BufferInv, Nmi
    PROVE  BufferInv' /\ pos' = 0
<1>1. PICK s, w : /\ s = [pos |-> pos, cells |-> cells, spilled |-> spilled]
                  /\ w = CHOOSE g : Handled(s, Len(NmiText), g)
  OBVIOUS
<1>2. PICK z : z = w[Len(NmiText)] OBVIOUS
<1>3. /\ pos' = z.pos /\ cells' = SeenAll(z.cells, FALSE) /\ spilled' = z.spilled /\ alone' = FALSE
      /\ line' = [line EXCEPT !.text = SeenAll(@, FALSE)]
  BY <1>1, <1>2 DEF Nmi, Handled
<1>4. spilled = FALSE BY DEF BufferInv
<1>5. Bounded(s) BY <1>1, <1>4 DEF BufferInv, Bounded, Stream
<1>6. Empty(z) BY <1>1, <1>2, <1>5, NmiIs
<1>7. PICK buffer : StreamHolds(buffer) /\ z = Stream(0, buffer) BY <1>6 DEF Empty
<1>8. pos' = 0 /\ spilled' = FALSE /\ cells' = SeenAll(buffer, FALSE) BY <1>3, <1>7 DEF Stream
<1>9. StreamHolds(cells)' BY <1>7, <1>8 DEF StreamHolds, SeenAll
<1>10. line'.step = line.step /\ line'.at = line.at /\ line'.then = line.then /\ DOMAIN line' = DOMAIN line
  <2>1. PICK text : text = SeenAll(line.text, FALSE) OBVIOUS
  <2> QED BY <1>3, <2>1 DEF BufferInv
<1>11. StreamSize \in Nat \ {0} BY LogStreamAssumption
<1>12. spilled' = FALSE /\ alone' \in BOOLEAN BY <1>3, <1>8
<1>13. pos' \in 0..StreamSize /\ pos' < StreamSize BY <1>8, <1>11
<1>14. /\ DOMAIN line' = {"step", "text", "ln", "at", "n", "then"}
       /\ line'.step \in Steps /\ line'.then \in {"idle", "test", "load"}
       /\ line'.step \in {"cell first", "index first", "index last", "cell last"} =>
             line'.at \in 0..StreamSize - 1
  BY <1>10 DEF BufferInv
<1> QED BY <1>8, <1>9, <1>12, <1>13, <1>14 DEF BufferInv

\* The parts of BufferInv that a step of write leaves alone, and the ones it has to see to.
LineHolds(l, i) ==
    /\ DOMAIN l = {"step", "text", "ln", "at", "n", "then"}
    /\ l.step \in Steps /\ l.then \in {"idle", "test", "load"}
    /\ l.step = "load" => i < StreamSize
    /\ l.step \in {"cell first", "index first", "index last", "cell last"} => l.at \in 0..StreamSize - 1

LEMMA BufferParts ==
    ASSUME pos \in 0..StreamSize, StreamHolds(cells), alone \in BOOLEAN, spilled = FALSE, LineHolds(line, pos)
    PROVE  BufferInv
BY DEF BufferInv, LineHolds

LEMMA BufferKept ==
    ASSUME BufferInv, [LogNext]_logVars
    PROVE  BufferInv'
<1>0. StreamSize \in Nat \ {0} BY LogStreamAssumption
<1>a. LineHolds(line, pos) BY DEF BufferInv, LineHolds
<1>c. pos \in 0..StreamSize BY DEF BufferInv
<1>b. StreamHolds(cells) /\ alone \in BOOLEAN /\ spilled = FALSE BY DEF BufferInv
<1>1. ASSUME NEW pieces \in Templates, NEW args \in ArgLists, NEW ln \in BOOLEAN, PrintMessage(pieces, args, ln)
      PROVE  BufferInv'
  BY <1>1 DEF BufferInv, PrintMessage, Idle, Steps
<1>2. CASE Test BY <1>0, <1>2 DEF BufferInv, Test, Idle, Steps, StreamFull
<1>3. CASE Load
  <2>6. line.step = "load" BY <1>3 DEF Load
  <2>7. pos < StreamSize BY <1>a, <2>6 DEF LineHolds
  <2>2. pos \in 0..StreamSize - 1 BY <1>0, <1>c, <2>7
  <2>1. PICK step \in {"cell first", "index first"} : line' = [line EXCEPT !.step = step, !.at = pos]
    BY <1>3 DEF Load
  <2>3. line'.step = step /\ line'.at = pos /\ line'.then = line.then /\ DOMAIN line' = DOMAIN line BY <1>a, <2>1 DEF LineHolds
  <2>4. LineHolds(line', pos) BY <1>a, <2>2, <2>3 DEF LineHolds, Steps
  <2>5. pos' = pos /\ cells' = cells /\ alone' = alone /\ spilled' = spilled BY <1>3 DEF Load
  <2> QED BY <1>c, <1>b, <2>4, <2>5 DEF BufferInv, LineHolds
<1>4. CASE StoreCell
  <2>1. line.at \in 0..StreamSize - 1 /\ line.step \in {"cell first", "cell last"} BY <1>4, <1>a DEF StoreCell, LineHolds
  <2>2. PICK c : c = line.text[1] OBVIOUS
  <2>12. line.at \in 0..StreamSize - 1 BY <2>1
  <2>11. ~(line.at >= StreamSize) BY ONLY <1>0, <2>12
  <2>3. cells' = [cells EXCEPT ![line.at + 1] = c] /\ spilled' = spilled BY <1>4, <2>2, <2>11 DEF StoreCell
  <2>4. StreamHolds(cells)' BY <1>b, <2>3 DEF StreamHolds
  <2>5. PICK step : step = IF line.step = "cell first" THEN "index last" ELSE "stored" OBVIOUS
  <2>6. line' = [line EXCEPT !.step = step] BY <1>4, <2>5 DEF StoreCell
  <2>7. line'.step = step /\ line'.at = line.at /\ line'.then = line.then /\ DOMAIN line' = DOMAIN line BY <1>a, <2>6 DEF LineHolds
  <2>8. step \in {"index last", "stored"} BY <2>5
  <2>9. LineHolds(line', pos) BY <1>a, <2>1, <2>7, <2>8 DEF LineHolds, Steps
  <2>10. pos' = pos /\ alone' = alone BY <1>4 DEF StoreCell
  <2> QED BY <1>c, <1>b, <2>3, <2>4, <2>9, <2>10 DEF BufferInv, LineHolds
<1>5. CASE StoreIndex
  <2>1. line.at \in 0..StreamSize - 1 BY <1>5, <1>a DEF StoreIndex, LineHolds
  <2>5. PICK step : step = IF line.step = "index first" THEN "cell last" ELSE "stored" OBVIOUS
  <2>6. line' = [line EXCEPT !.step = step] BY <1>5, <2>5 DEF StoreIndex
  <2>7. line'.step = step /\ line'.at = line.at /\ line'.then = line.then /\ DOMAIN line' = DOMAIN line BY <1>a, <2>6 DEF LineHolds
  <2>8. step \in {"cell last", "stored"} BY <2>5
  <2>9. pos' = line.at + 1 BY <1>5 DEF StoreIndex
  <2>10. pos' \in 0..StreamSize BY <1>0, <2>1, <2>9
  <2>11. LineHolds(line', pos') BY <1>a, <2>1, <2>7, <2>8 DEF LineHolds, Steps
  <2>12. cells' = cells /\ alone' = alone /\ spilled' = spilled BY <1>5 DEF StoreIndex
  <2> QED BY <1>b, <2>10, <2>11, <2>12 DEF BufferInv, LineHolds
<1>6. CASE Stored BY <1>6 DEF BufferInv, Stored, Steps
<1>7. CASE Flush BY <1>7 DEF BufferInv, Flush, Steps
<1>8. CASE Put BY <1>8 DEF BufferInv, Put, Steps
<1>9. CASE Reset
  <2>1. pos' = 0 /\ cells' = [k \in 1..StreamSize |-> Junk] BY <1>9 DEF Reset
  <2>2. StreamHolds(cells)' BY <2>1 DEF StreamHolds
  <2>3. alone' = alone /\ spilled' = spilled BY <1>9 DEF Reset
  <2>6. pos' = 0 BY <2>1
  <2>7. pos' \in 0..StreamSize BY <1>0, <2>1
  <2>4. CASE line.then = "idle"
    <3>1. line' = Idle BY <1>9, <2>4 DEF Reset
    <3>2. LineHolds(line', 0) BY <1>0, <3>1 DEF Idle, LineHolds, Steps
    <3> QED BY <1>b, <2>2, <2>3, <2>6, <2>7, <3>2 DEF BufferInv, LineHolds
  <2>5. CASE line.then # "idle"
    <3>1. line' = [line EXCEPT !.step = line.then, !.at = 0, !.n = 0] BY <1>9, <2>5 DEF Reset
    <3>2. line'.step = line.then /\ line'.at = 0 /\ line'.then = line.then /\ DOMAIN line' = DOMAIN line BY <1>a, <3>1 DEF LineHolds
    <3>3. line.then \in {"idle", "test", "load"} BY <1>a DEF LineHolds
    <3>5. /\ line'.step \in {"idle", "test", "load"} /\ line'.then \in {"idle", "test", "load"}
          /\ DOMAIN line' = {"step", "text", "ln", "at", "n", "then"}
      BY <1>a, <3>2, <3>3 DEF LineHolds
    <3>6. 0 < StreamSize BY <1>0
    <3>4. LineHolds(line', 0) BY <3>5, <3>6 DEF LineHolds, Steps
    <3> QED BY <1>b, <2>2, <2>3, <2>6, <2>7, <3>4 DEF BufferInv, LineHolds
  <2> QED BY <2>4, <2>5
<1>10. CASE Nmi BY <1>10, NmiKeepsBuffer
<1>11. CASE UNCHANGED logVars BY <1>11 DEF logVars, BufferInv
<1> QED BY <1>1, <1>2, <1>3, <1>4, <1>5, <1>6, <1>7, <1>8, <1>9, <1>10, <1>11 DEF LogNext

-----------------------------------------------------------------------------
(* What is owed, until an interrupt comes.                                 *)

Printed == Glyph \cup {EndOfLine}

\* o is what the buffer holds after its first lo cells and up to hi, and rest after it.
Owes(o, buffer, lo, hi, rest) ==
    /\ Len(o) = (hi - lo) + Len(rest)
    /\ \A k \in 1..(hi - lo) : o[k] = buffer[lo + k]
    /\ \A k \in 1..Len(rest) : o[(hi - lo) + k] = rest[k]

NoEnd(buffer, i) == \A k \in 1..i : buffer[k] # EndOfLine

\* A message is printed.
LEMMA OwesMore ==
    ASSUME NEW o \in Seq(Printed), NEW m \in Seq(Printed), NEW buffer, NEW i \in Nat, Owes(o, buffer, 0, i, <<>>)
    PROVE  Owes(o \o m, buffer, 0, i, m) /\ o \o m \in Seq(Printed)
<1>1. /\ Len(o) = i
      /\ \A k \in 1..i : o[k] = buffer[k]
  BY DEF Owes
<1>2. Len(o \o m) = i + Len(m) BY <1>1
<1>3. \A k \in 1..i : (o \o m)[k] = buffer[0 + k] BY <1>1
<1>4. \A k \in 1..Len(m) : (o \o m)[i + k] = m[k] BY <1>1
<1>5. i - 0 = i OBVIOUS
<1> QED BY <1>2, <1>3, <1>4, <1>5 DEF Owes

\* The next character reached the buffer.
LEMMA OwesStored ==
    ASSUME NEW o \in Seq(Printed), NEW t \in Seq(Printed), t # <<>>, NEW buffer, NEW i \in Nat,
           Owes(o, buffer, 0, i, t), buffer[i + 1] = t[1]
    PROVE  Owes(o, buffer, 0, i + 1, Tail(t))
<1>1. PICK r : r = Tail(t) OBVIOUS
<1>2. Len(t) \in Nat \ {0} /\ Len(r) = Len(t) - 1 /\ \A k \in 1..Len(r) : r[k] = t[k + 1] BY <1>1
<1>3. /\ Len(o) = i + Len(t)
      /\ \A k \in 1..i : o[k] = buffer[k]
      /\ \A k \in 1..Len(t) : o[i + k] = t[k]
  BY DEF Owes
<1>4. Len(o) = (i + 1) + Len(r) BY <1>2, <1>3
<1>5. o[i + 1] = buffer[i + 1] BY <1>2, <1>3
<1>6. \A k \in 1..(i + 1) : o[k] = buffer[0 + k] BY <1>3, <1>5
<1>7. \A k \in 1..Len(r) : o[(i + 1) + k] = r[k]
  <2> SUFFICES ASSUME NEW k \in 1..Len(r) PROVE o[(i + 1) + k] = r[k] OBVIOUS
  <2>1. k + 1 \in 1..Len(t) /\ (i + 1) + k = i + (k + 1) BY <1>2
  <2>2. o[i + (k + 1)] = t[k + 1] BY <1>3, <2>1
  <2> QED BY <1>2, <2>1, <2>2
<1>8. (i + 1) - 0 = i + 1 OBVIOUS
<1> QED BY <1>1, <1>4, <1>6, <1>7, <1>8 DEF Owes

\* A cell past the ones that are owed changes.
PutAt(with, buffer, i, c) == with = [buffer EXCEPT ![i] = c]

LEMMA OwesCell ==
    ASSUME NEW o, NEW t, NEW buffer, NEW i \in Nat, Owes(o, buffer, 0, i, t), NoEnd(buffer, i),
           NEW c, StreamHolds(buffer), i + 1 \in 1..StreamSize, StreamSize \in Nat,
           NEW with, PutAt(with, buffer, i + 1, c)
    PROVE  Owes(o, with, 0, i, t) /\ NoEnd(with, i) /\ with[i + 1] = c
<1>1. \A k \in 1..i : with[k] = buffer[k] BY DEF StreamHolds, PutAt
<1>2. with[i + 1] = c BY DEF StreamHolds, PutAt
<1>3. \A k \in 1..(i - 0) : with[0 + k] = buffer[0 + k] BY <1>1
<1> QED BY <1>1, <1>2, <1>3 DEF Owes, NoEnd

\* write_str puts a character out.
LEMMA OwesPut ==
    ASSUME NEW o \in Seq(Printed), NEW t \in Seq(Printed), NEW buffer, NEW lo \in Nat, NEW hi \in Nat, lo < hi,
           Owes(o, buffer, lo, hi, t)
    PROVE  o # <<>> /\ buffer[lo + 1] = Head(o) /\ Owes(Tail(o), buffer, lo + 1, hi, t) /\ Tail(o) \in Seq(Printed)
<1>0. PICK n : n = hi - lo OBVIOUS
<1>1. /\ n \in Nat \ {0}
      /\ Len(o) = n + Len(t)
      /\ \A k \in 1..n : o[k] = buffer[lo + k]
      /\ \A k \in 1..Len(t) : o[n + k] = t[k]
  <2>1. /\ Len(o) = (hi - lo) + Len(t)
        /\ \A k \in 1..(hi - lo) : o[k] = buffer[lo + k]
        /\ \A k \in 1..Len(t) : o[(hi - lo) + k] = t[k]
    BY DEF Owes
  <2>2. n \in Nat \ {0} BY <1>0
  <2> QED BY <1>0, <2>1, <2>2
<1>2. o # <<>> /\ Len(o) \in Nat \ {0} BY <1>1
<1>3. PICK r : r = Tail(o) OBVIOUS
<1>4. Len(r) = Len(o) - 1 /\ (\A k \in 1..Len(r) : r[k] = o[k + 1]) /\ r \in Seq(Printed) BY <1>2, <1>3
<1>5. Head(o) = o[1] /\ o[1] = buffer[lo + 1] BY <1>1, <1>2
<1>6. hi - (lo + 1) = n - 1 BY <1>0
<1>7. Len(r) = (n - 1) + Len(t) BY <1>1, <1>4
<1>8. \A k \in 1..(n - 1) : r[k] = buffer[(lo + 1) + k]
  <2> SUFFICES ASSUME NEW k \in 1..(n - 1) PROVE r[k] = buffer[(lo + 1) + k] OBVIOUS
  <2>0. Len(t) \in Nat /\ n \in Nat /\ k \in Nat BY <1>1
  <2>3. Len(r) \in Nat /\ n - 1 <= Len(r) BY ONLY <1>7, <2>0
  <2>1. k + 1 \in 1..n /\ k \in 1..Len(r) /\ lo + (k + 1) = (lo + 1) + k BY ONLY <2>0, <2>3, k \in 1..(n - 1), lo \in Nat
  <2>2. o[k + 1] = buffer[lo + (k + 1)] BY <1>1, <2>1
  <2> QED BY <1>4, <2>1, <2>2
<1>9. \A k \in 1..Len(t) : r[(n - 1) + k] = t[k]
  <2> SUFFICES ASSUME NEW k \in 1..Len(t) PROVE r[(n - 1) + k] = t[k] OBVIOUS
  <2>1. (n - 1) + k \in 1..Len(r) /\ ((n - 1) + k) + 1 = n + k BY <1>1, <1>7
  <2>2. o[n + k] = t[k] BY <1>1
  <2> QED BY <1>4, <2>1, <2>2
<1> QED BY <1>2, <1>3, <1>4, <1>5, <1>6, <1>7, <1>8, <1>9 DEF Owes

\* The buffer is given up once all of it was put out.
LEMMA OwesReset ==
    ASSUME NEW o, NEW t, NEW buffer, NEW n \in Nat, Owes(o, buffer, n, n, t), NEW clean
    PROVE  Owes(o, clean, 0, 0, t) /\ NoEnd(clean, 0)
<1>1. n - n = 0 /\ 0 - 0 = 0 /\ 1..0 = {} OBVIOUS
<1> QED BY <1>1 DEF Owes, NoEnd

\* Between messages the buffer is what is owed.
LEMMA OwesAll ==
    ASSUME NEW o \in Seq(Printed), NEW buffer, NEW i \in Nat, Owes(o, buffer, 0, i, <<>>), NoEnd(buffer, i)
    PROVE  o = SubSeq(buffer, 1, i) /\ EndOfLine \notin ToSet(o)
<1>1. Len(o) = i /\ \A k \in 1..i : o[k] = buffer[k] BY DEF Owes
<1>2. o = [k \in 1..i |-> o[k]] BY <1>1
<1>3. SubSeq(buffer, 1, i) = [k \in 1..(i - 1 + 1) |-> buffer[k + 1 - 1]] OBVIOUS
<1>4. SubSeq(buffer, 1, i) = [k \in 1..i |-> buffer[k]] BY <1>3
<1>5. \A k \in DOMAIN o : o[k] # EndOfLine BY <1>1 DEF NoEnd
<1> QED BY <1>1, <1>2, <1>4, <1>5 DEF ToSet

LEMMA PrintedIs ==
    /\ Junk \notin Printed /\ Letter \in Glyph /\ EndOfLine \notin Glyph
    /\ \A t \in Seq(Printed) : SeenAll(t, TRUE) = t
<1>1. Len(Digit) = 16 /\ DOMAIN Digit = 1..16 BY DEF Digit
<1>2. /\ Digit[1] = "0" /\ Digit[2] = "1" /\ Digit[3] = "2" /\ Digit[4] = "3" /\ Digit[5] = "4"
      /\ Digit[6] = "5" /\ Digit[7] = "6" /\ Digit[8] = "7" /\ Digit[9] = "8" /\ Digit[10] = "9"
      /\ Digit[11] = "A" /\ Digit[12] = "B" /\ Digit[13] = "C" /\ Digit[14] = "D" /\ Digit[15] = "E"
      /\ Digit[16] = "F"
  BY DEF Digit
<1>3. \A i \in 1..16 : i = 1 \/ i = 2 \/ i = 3 \/ i = 4 \/ i = 5 \/ i = 6 \/ i = 7 \/ i = 8 \/ i = 9 \/ i = 10
                       \/ i = 11 \/ i = 12 \/ i = 13 \/ i = 14 \/ i = 15 \/ i = 16
  OBVIOUS
<1>4. \A i \in DOMAIN Digit : Digit[i] # "junk" /\ Digit[i] # "\n"
  <2> SUFFICES ASSUME NEW i \in 1..16 PROVE Digit[i] # "junk" /\ Digit[i] # "\n" BY <1>1
  <2>1. Digit[i] \in {"0", "1", "2", "3", "4", "5", "6", "7", "8", "9", "A", "B", "C", "D", "E", "F"}
    BY <1>2, <1>3
  <2> QED BY <2>1
<1>5. "junk" \notin ToSet(Digit) /\ "\n" \notin ToSet(Digit) BY <1>4 DEF ToSet
<1>6. Letter # "junk" /\ Letter # "\n" BY LogStreamAssumption DEF EndOfLine
<1>7. Junk \notin Printed /\ EndOfLine \notin Glyph BY <1>5, <1>6 DEF Printed, Glyph, Junk, EndOfLine
<1>8. ASSUME NEW t \in Seq(Printed) PROVE SeenAll(t, TRUE) = t
  <2>1. SeenAll(t, TRUE) = [i \in DOMAIN t |-> t[i]] BY DEF SeenAll, Seen
  <2>2. DOMAIN t = 1..Len(t) /\ t = [i \in 1..Len(t) |-> t[i]] OBVIOUS
  <2> QED BY <2>1, <2>2
<1> QED BY <1>7, <1>8 DEF Glyph

\* What is owed, at each of the steps of print: o, while line is l, the buffer is buffer, the index i.
Whole(o, buffer, i, l) ==
    /\ o \in Seq(Printed) /\ l.text \in Seq(Printed)
    /\ l.step \in {"idle", "test", "load"} => Owes(o, buffer, 0, i, l.text) /\ NoEnd(buffer, i)
    /\ l.step = "idle" => l.text = <<>>
    /\ l.step \in {"load", "cell first", "index first", "index last", "cell last"} => l.text # <<>>
    /\ l.step \in {"cell first", "index first", "index last", "cell last"} =>
          Owes(o, buffer, 0, l.at, l.text) /\ NoEnd(buffer, l.at)
    /\ l.step = "index last" => buffer[l.at + 1] = l.text[1]
    /\ l.step = "cell last" => i = l.at + 1
    /\ l.step = "stored" => /\ l.text # <<>> /\ i \in 1..StreamSize
                            /\ NoEnd(buffer, i - 1) /\ buffer[i] = l.text[1]
                            /\ Owes(o, buffer, 0, i, Tail(l.text))
    /\ l.step = "flush" => Owes(o, buffer, 0, i, l.text)
    /\ l.step = "put" => l.n \in Nat /\ l.at \in 0..l.n /\ Owes(o, buffer, l.at, l.n, l.text)
    /\ l.step \in {"flush", "put"} =>
          /\ l.then = "idle" => l.text = <<>>
          /\ l.then = "load" => l.text # <<>>

WholeInv == alone => Whole(owed, cells, pos, line)
OwedInv == ~alone => owed = <<>>
LogInv == BufferInv /\ WholeInv /\ OwedInv

LEMMA OwedKept ==
    ASSUME OwedInv, [LogNext]_logVars
    PROVE  OwedInv'
<1>1. ASSUME NEW pieces \in Templates, NEW args \in ArgLists, NEW ln \in BOOLEAN, PrintMessage(pieces, args, ln)
      PROVE  OwedInv'
  BY <1>1 DEF OwedInv, PrintMessage
<1>2. CASE Test BY <1>2 DEF OwedInv, Test
<1>3. CASE Load BY <1>3 DEF OwedInv, Load
<1>4. CASE StoreCell BY <1>4 DEF OwedInv, StoreCell
<1>5. CASE StoreIndex BY <1>5 DEF OwedInv, StoreIndex
<1>6. CASE Stored BY <1>6 DEF OwedInv, Stored
<1>7. CASE Flush BY <1>7 DEF OwedInv, Flush
<1>8. CASE Put BY <1>8 DEF OwedInv, Put
<1>9. CASE Reset BY <1>9 DEF OwedInv, Reset
<1>10. CASE Nmi BY <1>10 DEF OwedInv, Nmi
<1>11. CASE UNCHANGED logVars BY <1>11 DEF OwedInv, logVars
<1> QED BY <1>1, <1>2, <1>3, <1>4, <1>5, <1>6, <1>7, <1>8, <1>9, <1>10, <1>11 DEF LogNext

\* The message, with the end of the line.
LEMMA PrintIs ==
    ASSUME FormatsAsMeant, NEW pieces \in Templates, NEW args \in ArgLists, NEW ln \in BOOLEAN,
           NEW m, m = Message(pieces, args) \o (IF ln THEN <<EndOfLine>> ELSE <<>>)
    PROVE  /\ m \in Seq(Printed)
           /\ SeenAll(FormatTo(Template(pieces), args) \o (IF ln THEN <<EndOfLine>> ELSE <<>>), TRUE) = m
<1>1. PICK x : x = Message(pieces, args) OBVIOUS
<1>2. FormatTo(Template(pieces), args) = x /\ x \in Seq(Glyph) BY <1>1 DEF FormatsAsMeant
<1>3. Glyph \subseteq Printed BY DEF Printed
<1>4. x \in Seq(Printed) BY <1>2, <1>3
<1>5. PICK e : e = IF ln THEN <<EndOfLine>> ELSE <<>> OBVIOUS
<1>6. e \in Seq(Printed)
  <2>1. EndOfLine \in Printed BY DEF Printed
  <2>2. <<EndOfLine>> \in Seq(Printed) /\ <<>> \in Seq(Printed) BY <2>1
  <2> QED BY <1>5, <2>2
<1>7. m = x \o e BY <1>1, <1>5
<1>8. x \o e \in Seq(Printed) BY <1>4, <1>6
<1> QED BY <1>2, <1>5, <1>7, <1>8, PrintedIs

LEMMA PrintKeepsWhole ==
    ASSUME LogInv, FormatsAsMeant, NEW pieces \in Templates, NEW args \in ArgLists, NEW ln \in BOOLEAN,
           PrintMessage(pieces, args, ln)
    PROVE  WholeInv'
<1>1. alone' = alone /\ pos' = pos /\ cells' = cells BY DEF PrintMessage
<1> SUFFICES ASSUME alone' PROVE Whole(owed, cells, pos, line)' BY DEF WholeInv
<1>2. alone BY <1>1
<1>3. pos \in Nat
  <2>1. pos \in 0..StreamSize BY DEF LogInv, BufferInv
  <2>2. StreamSize \in Nat BY LogStreamAssumption
  <2> QED BY <2>1, <2>2
<1>4. Whole(owed, cells, pos, line) BY <1>2 DEF LogInv, WholeInv
<1>5. line.step = "idle" BY DEF PrintMessage
<1>6. owed \in Seq(Printed) /\ Owes(owed, cells, 0, pos, <<>>) /\ NoEnd(cells, pos) BY <1>4, <1>5 DEF Whole
<1>7. alone = TRUE BY <1>2 DEF LogInv, BufferInv
<1>8. PICK m : m = Message(pieces, args) \o (IF ln THEN <<EndOfLine>> ELSE <<>>) OBVIOUS
<1>9. /\ m \in Seq(Printed)
      /\ SeenAll(FormatTo(Template(pieces), args) \o (IF ln THEN <<EndOfLine>> ELSE <<>>), TRUE) = m
  BY <1>8, PrintIs
<1>10. line' = [Idle EXCEPT !.step = "test", !.ln = ln, !.text = m] BY <1>7, <1>9 DEF PrintMessage
<1>11. line'.step = "test" /\ line'.text = m BY <1>10 DEF Idle
<1>12. owed' = owed \o m
  <2>1. PICK x, e : x = Message(pieces, args) /\ e = IF ln THEN <<EndOfLine>> ELSE <<>> OBVIOUS
  <2>2. owed' = owed \o x \o e BY <1>2, <2>1 DEF PrintMessage
  <2>3. x \in Seq(Glyph) BY <2>1 DEF FormatsAsMeant
  <2>4. e = <<>> \/ e = <<EndOfLine>> BY <2>1
  <2>5. owed \o (x \o e) = owed \o x \o e BY <1>6, <2>3, <2>4
  <2> QED BY <1>8, <2>1, <2>2, <2>5
<1>13. Owes(owed', cells, 0, pos, m) /\ owed' \in Seq(Printed) BY <1>3, <1>6, <1>9, <1>12, OwesMore
<1> QED BY <1>1, <1>6, <1>9, <1>11, <1>13 DEF Whole

LEMMA TestKeepsWhole ==
    ASSUME LogInv, Test
    PROVE  WholeInv'
<1>1. alone' = alone /\ pos' = pos /\ cells' = cells /\ owed' = owed BY DEF Test
<1> SUFFICES ASSUME alone' PROVE Whole(owed, cells, pos, line)' BY DEF WholeInv
<1>2. alone BY <1>1
<1>4. Whole(owed, cells, pos, line) BY <1>2 DEF LogInv, WholeInv
<1>5. line.step = "test" BY DEF Test
<1>6. /\ owed \in Seq(Printed) /\ line.text \in Seq(Printed)
      /\ Owes(owed, cells, 0, pos, line.text) /\ NoEnd(cells, pos)
  BY <1>4, <1>5 DEF Whole
<1>7. DOMAIN line = {"step", "text", "ln", "at", "n", "then"} BY DEF LogInv, BufferInv
<1>8. CASE line.text = <<>> /\ line.ln
  <2>1. line' = [line EXCEPT !.step = "flush", !.then = "idle", !.ln = FALSE] BY <1>8 DEF Test
  <2>2. line'.step = "flush" /\ line'.then = "idle" /\ line'.text = line.text BY <1>7, <2>1
  <2> QED BY <1>1, <1>6, <1>8, <2>2 DEF Whole
<1>9. CASE line.text = <<>> /\ ~line.ln
  <2>1. line' = Idle BY <1>9 DEF Test
  <2>2. line'.step = "idle" /\ line'.text = line.text BY <1>9, <2>1 DEF Idle
  <2> QED BY <1>1, <1>6, <1>9, <2>2 DEF Whole
<1>10. CASE line.text # <<>> /\ StreamFull(pos)
  <2>1. line' = [line EXCEPT !.step = "flush", !.then = "load"] BY <1>10 DEF Test
  <2>2. line'.step = "flush" /\ line'.then = "load" /\ line'.text = line.text BY <1>7, <2>1
  <2> QED BY <1>1, <1>6, <1>10, <2>2 DEF Whole
<1>11. CASE line.text # <<>> /\ ~StreamFull(pos)
  <2>1. line' = [line EXCEPT !.step = "load"] BY <1>11 DEF Test
  <2>2. line'.step = "load" /\ line'.text = line.text BY <1>7, <2>1
  <2> QED BY <1>1, <1>6, <1>11, <2>2 DEF Whole
<1> QED BY <1>8, <1>9, <1>10, <1>11

LEMMA LoadKeepsWhole ==
    ASSUME LogInv, Load
    PROVE  WholeInv'
<1>1. alone' = alone /\ pos' = pos /\ cells' = cells /\ owed' = owed BY DEF Load
<1> SUFFICES ASSUME alone' PROVE Whole(owed, cells, pos, line)' BY DEF WholeInv
<1>2. alone BY <1>1
<1>4. Whole(owed, cells, pos, line) BY <1>2 DEF LogInv, WholeInv
<1>7. DOMAIN line = {"step", "text", "ln", "at", "n", "then"} BY DEF LogInv, BufferInv
<1>5. line.step = "load" BY DEF Load
<1>6. /\ owed \in Seq(Printed) /\ line.text \in Seq(Printed) /\ line.text # <<>>
      /\ Owes(owed, cells, 0, pos, line.text) /\ NoEnd(cells, pos)
  BY <1>4, <1>5 DEF Whole
<1>8. PICK step \in {"cell first", "index first"} : line' = [line EXCEPT !.step = step, !.at = pos] BY DEF Load
<1>9. line'.step = step /\ line'.at = pos /\ line'.text = line.text BY <1>7, <1>8
<1> QED BY <1>1, <1>6, <1>9 DEF Whole

LEMMA StoreCellKeepsWhole ==
    ASSUME LogInv, StoreCell
    PROVE  WholeInv'
<1>1. alone' = alone /\ pos' = pos /\ owed' = owed BY DEF StoreCell
<1> SUFFICES ASSUME alone' PROVE Whole(owed, cells, pos, line)' BY DEF WholeInv
<1>2. alone BY <1>1
<1>4. Whole(owed, cells, pos, line) BY <1>2 DEF LogInv, WholeInv
<1>7. DOMAIN line = {"step", "text", "ln", "at", "n", "then"} BY DEF LogInv, BufferInv
<1>0. StreamSize \in Nat \ {0} BY LogStreamAssumption
<1>5. line.step \in {"cell first", "cell last"} BY DEF StoreCell
<1>6. /\ owed \in Seq(Printed) /\ line.text \in Seq(Printed) /\ line.text # <<>>
      /\ Owes(owed, cells, 0, line.at, line.text) /\ NoEnd(cells, line.at)
      /\ line.step = "cell last" => pos = line.at + 1
  BY <1>4, <1>5 DEF Whole
<1>8. line.at \in 0..StreamSize - 1 BY <1>5 DEF LogInv, BufferInv
<1>9. PICK a, t : a = line.at /\ t = line.text OBVIOUS
<1>10. ~(a >= StreamSize) /\ a \in Nat /\ a + 1 \in 1..StreamSize BY <1>0, <1>8, <1>9
<1>11. cells' = [cells EXCEPT ![a + 1] = t[1]] BY <1>9, <1>10 DEF StoreCell
<1>12. StreamHolds(cells) BY DEF LogInv, BufferInv
<1>13. Owes(owed, cells, 0, a, t) /\ NoEnd(cells, a) BY <1>6, <1>9
<1>14. StreamSize \in Nat BY <1>0
<1>15. Owes(owed, cells', 0, a, t) /\ NoEnd(cells', a) /\ cells'[a + 1] = t[1]
  <2>1. PICK with, c : with = [cells EXCEPT ![a + 1] = c] /\ c = t[1] /\ with = cells' BY <1>11
  <2>2. a \in Nat /\ a + 1 \in 1..StreamSize BY <1>10
  <2>3. PutAt(with, cells, a + 1, c) BY <2>1 DEF PutAt
  <2>4. Owes(owed, with, 0, a, t) /\ NoEnd(with, a) /\ with[a + 1] = c
    BY <1>12, <1>13, <1>14, <2>2, <2>3, OwesCell
  <2> QED BY <2>1, <2>4
<1>16. CASE line.step = "cell first"
  <2>1. line' = [line EXCEPT !.step = "index last"] BY <1>16 DEF StoreCell
  <2>2. line'.step = "index last" /\ line'.at = a /\ line'.text = t BY <1>7, <1>9, <2>1
  <2> QED BY <1>1, <1>6, <1>9, <1>15, <2>2 DEF Whole
<1>17. CASE line.step = "cell last"
  <2>1. line' = [line EXCEPT !.step = "stored"] BY <1>17 DEF StoreCell
  <2>2. line'.step = "stored" /\ line'.text = t BY <1>7, <1>9, <2>1
  <2>3. t \in Seq(Printed) /\ t # <<>> /\ owed \in Seq(Printed) BY <1>6, <1>9
  <2>4. Owes(owed, cells', 0, a + 1, Tail(t)) BY <1>10, <1>15, <2>3, OwesStored
  <2>5. pos = a + 1 BY <1>6, <1>9, <1>17
  <2>6. (a + 1) - 1 = a BY <1>10
  <2>7. /\ pos \in 1..StreamSize /\ NoEnd(cells', pos - 1) /\ cells'[pos] = t[1]
        /\ Owes(owed, cells', 0, pos, Tail(t))
    BY <1>10, <1>15, <2>4, <2>5, <2>6
  <2> QED BY <1>1, <2>2, <2>3, <2>7 DEF Whole
<1> QED BY <1>5, <1>16, <1>17

LEMMA StoreIndexKeepsWhole ==
    ASSUME LogInv, StoreIndex
    PROVE  WholeInv'
<1>1. alone' = alone /\ cells' = cells /\ owed' = owed BY DEF StoreIndex
<1> SUFFICES ASSUME alone' PROVE Whole(owed, cells, pos, line)' BY DEF WholeInv
<1>2. alone BY <1>1
<1>4. Whole(owed, cells, pos, line) BY <1>2 DEF LogInv, WholeInv
<1>7. DOMAIN line = {"step", "text", "ln", "at", "n", "then"} BY DEF LogInv, BufferInv
<1>0. StreamSize \in Nat \ {0} BY LogStreamAssumption
<1>5. line.step \in {"index first", "index last"} BY DEF StoreIndex
<1>6. /\ owed \in Seq(Printed) /\ line.text \in Seq(Printed) /\ line.text # <<>>
      /\ Owes(owed, cells, 0, line.at, line.text) /\ NoEnd(cells, line.at)
      /\ line.step = "index last" => cells[line.at + 1] = line.text[1]
  BY <1>4, <1>5 DEF Whole
<1>8. line.at \in 0..StreamSize - 1 BY <1>5 DEF LogInv, BufferInv
<1>9. PICK a, t : a = line.at /\ t = line.text OBVIOUS
<1>10. a \in Nat /\ a + 1 \in 1..StreamSize /\ (a + 1) - 1 = a BY <1>0, <1>8, <1>9
<1>11. pos' = a + 1 BY <1>9 DEF StoreIndex
<1>12. Owes(owed, cells, 0, a, t) /\ NoEnd(cells, a) BY <1>6, <1>9
<1>13. t \in Seq(Printed) /\ t # <<>> /\ owed \in Seq(Printed) BY <1>6, <1>9
<1>16. CASE line.step = "index first"
  <2>1. line' = [line EXCEPT !.step = "cell last"] BY <1>16 DEF StoreIndex
  <2>2. line'.step = "cell last" /\ line'.at = a /\ line'.text = t BY <1>7, <1>9, <2>1
  <2> QED BY <1>1, <1>11, <1>12, <1>13, <2>2 DEF Whole
<1>17. CASE line.step = "index last"
  <2>1. line' = [line EXCEPT !.step = "stored"] BY <1>17 DEF StoreIndex
  <2>2. line'.step = "stored" /\ line'.text = t BY <1>7, <1>9, <2>1
  <2>3. cells[a + 1] = t[1] BY <1>6, <1>9, <1>17
  <2>4. Owes(owed, cells, 0, a + 1, Tail(t)) BY <1>10, <1>12, <1>13, <2>3, OwesStored
  <2>7. /\ pos' \in 1..StreamSize /\ NoEnd(cells, pos' - 1) /\ cells[pos'] = t[1]
        /\ Owes(owed, cells, 0, pos', Tail(t))
    BY <1>10, <1>11, <1>12, <2>3, <2>4
  <2> QED BY <1>1, <1>13, <2>2, <2>7 DEF Whole
<1> QED BY <1>5, <1>16, <1>17

LEMMA StoredKeepsWhole ==
    ASSUME LogInv, Stored
    PROVE  WholeInv'
<1>1. alone' = alone /\ cells' = cells /\ owed' = owed /\ pos' = pos BY DEF Stored
<1> SUFFICES ASSUME alone' PROVE Whole(owed, cells, pos, line)' BY DEF WholeInv
<1>2. alone BY <1>1
<1>4. Whole(owed, cells, pos, line) BY <1>2 DEF LogInv, WholeInv
<1>7. DOMAIN line = {"step", "text", "ln", "at", "n", "then"} BY DEF LogInv, BufferInv
<1>0. StreamSize \in Nat \ {0} BY LogStreamAssumption
<1>5. line.step = "stored" BY DEF Stored
<1>9. PICK t : t = line.text OBVIOUS
<1>6. /\ owed \in Seq(Printed) /\ t \in Seq(Printed) /\ t # <<>> /\ pos \in 1..StreamSize
      /\ NoEnd(cells, pos - 1) /\ cells[pos] = t[1]
      /\ Owes(owed, cells, 0, pos, Tail(t))
  BY <1>4, <1>5, <1>9 DEF Whole
<1>8. Tail(t) \in Seq(Printed) /\ Head(t) = t[1] BY <1>6
<1>16. CASE Head(t) = EndOfLine
  <2>1. line' = [line EXCEPT !.text = Tail(t), !.at = 0, !.then = "test", !.step = "flush"]
    BY <1>9, <1>16 DEF Stored
  <2>2. line'.step = "flush" /\ line'.then = "test" /\ line'.text = Tail(t) BY <1>7, <2>1
  <2> QED BY <1>1, <1>6, <1>8, <2>2 DEF Whole
<1>17. CASE Head(t) # EndOfLine
  <2>1. line' = [line EXCEPT !.text = Tail(t), !.at = 0, !.then = "test", !.step = "test"]
    BY <1>9, <1>17 DEF Stored
  <2>2. line'.step = "test" /\ line'.text = Tail(t) BY <1>7, <2>1
  <2>3. \A k \in 1..pos : k = pos \/ k \in 1..(pos - 1) BY <1>0, <1>6
  <2>4. NoEnd(cells, pos) BY <1>6, <1>8, <1>17, <2>3 DEF NoEnd
  <2> QED BY <1>1, <1>6, <1>8, <2>2, <2>4 DEF Whole
<1> QED BY <1>16, <1>17

LEMMA FlushKeepsWhole ==
    ASSUME LogInv, Flush
    PROVE  WholeInv'
<1>1. alone' = alone /\ cells' = cells /\ owed' = owed /\ pos' = pos BY DEF Flush
<1> SUFFICES ASSUME alone' PROVE Whole(owed, cells, pos, line)' BY DEF WholeInv
<1>2. alone BY <1>1
<1>4. Whole(owed, cells, pos, line) BY <1>2 DEF LogInv, WholeInv
<1>7. DOMAIN line = {"step", "text", "ln", "at", "n", "then"} BY DEF LogInv, BufferInv
<1>5. line.step = "flush" BY DEF Flush
<1>6. /\ owed \in Seq(Printed) /\ line.text \in Seq(Printed) /\ Owes(owed, cells, 0, pos, line.text)
      /\ line.then = "idle" => line.text = <<>>
      /\ line.then = "load" => line.text # <<>>
  BY <1>4, <1>5 DEF Whole
<1>8. line' = [line EXCEPT !.step = "put", !.n = pos, !.at = 0] BY DEF Flush
<1>9. line'.step = "put" /\ line'.n = pos /\ line'.at = 0 /\ line'.text = line.text /\ line'.then = line.then
  BY <1>7, <1>8
<1>10. pos \in Nat /\ 0 \in 0..pos
  <2>1. pos \in 0..StreamSize BY DEF LogInv, BufferInv
  <2>2. StreamSize \in Nat BY LogStreamAssumption
  <2> QED BY <2>1, <2>2
<1> QED BY <1>1, <1>6, <1>9, <1>10 DEF Whole

LEMMA PutKeepsWhole ==
    ASSUME LogInv, Put
    PROVE  WholeInv'
<1>1. alone' = alone /\ cells' = cells /\ pos' = pos BY DEF Put
<1> SUFFICES ASSUME alone' PROVE Whole(owed, cells, pos, line)' BY DEF WholeInv
<1>2. alone BY <1>1
<1>4. Whole(owed, cells, pos, line) BY <1>2 DEF LogInv, WholeInv
<1>7. DOMAIN line = {"step", "text", "ln", "at", "n", "then"} BY DEF LogInv, BufferInv
<1>5. line.step = "put" BY DEF Put
<1>9. PICK a, n, t : a = line.at /\ n = line.n /\ t = line.text OBVIOUS
<1>6. /\ owed \in Seq(Printed) /\ t \in Seq(Printed)
      /\ n \in Nat /\ a \in 0..n /\ Owes(owed, cells, a, n, t)
  BY <1>4, <1>5, <1>9 DEF Whole
<1>20. /\ line.then = "idle" => line.text = <<>>
       /\ line.then = "load" => line.text # <<>>
  BY <1>4, <1>5 DEF Whole
<1>8. a < n BY <1>9 DEF Put
<1>10. a \in Nat /\ a + 1 \in 0..n BY <1>6, <1>8
<1>11. /\ owed # <<>> /\ cells[a + 1] = Head(owed) /\ Owes(Tail(owed), cells, a + 1, n, t)
       /\ Tail(owed) \in Seq(Printed)
  BY <1>6, <1>8, <1>10, OwesPut
<1>12. owed' = Tail(owed) BY <1>2, <1>9, <1>11 DEF Put
<1>13. line' = [line EXCEPT !.at = a + 1] BY <1>9 DEF Put
<1>14. /\ line'.step = "put" /\ line'.n = n /\ line'.at = a + 1 /\ line'.text = line.text
       /\ line'.then = line.then
  BY <1>5, <1>7, <1>9, <1>13
<1> QED BY <1>1, <1>6, <1>9, <1>10, <1>11, <1>12, <1>14, <1>20 DEF Whole

LEMMA ResetKeepsWhole ==
    ASSUME LogInv, Reset
    PROVE  WholeInv'
<1>1. alone' = alone /\ owed' = owed /\ pos' = 0 BY DEF Reset
<1> SUFFICES ASSUME alone' PROVE Whole(owed, cells, pos, line)' BY DEF WholeInv
<1>2. alone BY <1>1
<1>4. Whole(owed, cells, pos, line) BY <1>2 DEF LogInv, WholeInv
<1>7. DOMAIN line = {"step", "text", "ln", "at", "n", "then"} BY DEF LogInv, BufferInv
<1>5. line.step = "put" BY DEF Reset
<1>9. PICK a, n, t : a = line.at /\ n = line.n /\ t = line.text OBVIOUS
<1>6. /\ owed \in Seq(Printed) /\ t \in Seq(Printed)
      /\ n \in Nat /\ a \in 0..n /\ Owes(owed, cells, a, n, t)
  BY <1>4, <1>5, <1>9 DEF Whole
<1>20. /\ line.then = "idle" => t = <<>>
       /\ line.then = "load" => t # <<>>
  BY <1>4, <1>5, <1>9 DEF Whole
<1>8. a >= n BY <1>9 DEF Reset
<1>10. a = n BY <1>6, <1>8
<1>11. Owes(owed, cells', 0, 0, t) /\ NoEnd(cells', 0) BY <1>6, <1>10, OwesReset
<1>12. CASE line.then = "idle"
  <2>1. line' = Idle BY <1>12 DEF Reset
  <2>2. line'.step = "idle" /\ line'.text = <<>> BY <2>1 DEF Idle
  <2> QED BY <1>1, <1>6, <1>11, <1>12, <1>20, <2>2 DEF Whole
<1>13. CASE line.then # "idle"
  <2>1. line' = [line EXCEPT !.step = line.then, !.at = 0, !.n = 0] BY <1>13 DEF Reset
  <2>2. line'.step = line.then /\ line'.text = t BY <1>7, <1>9, <2>1
  <2>3. line.then \in {"test", "load"} BY <1>13 DEF LogInv, BufferInv
  <2> QED BY <1>1, <1>6, <1>11, <1>20, <2>2, <2>3 DEF Whole
<1> QED BY <1>12, <1>13

LEMMA LogInvStarts ==
    ASSUME LogInit
    PROVE  LogInv
<1>0. StreamSize \in Nat \ {0} BY LogStreamAssumption
<1>1. /\ pos = 0 /\ cells = [k \in 1..StreamSize |-> Junk]
      /\ line = Idle /\ owed = <<>>
  BY DEF LogInit
<1>2. spilled = FALSE /\ alone \in BOOLEAN BY DEF LogInit
<1>3. StreamHolds(cells) BY <1>1 DEF StreamHolds
<1>4. pos \in 0..StreamSize BY <1>0, <1>1
<1>5. LineHolds(line, pos) BY <1>1 DEF LineHolds, Idle, Steps
<1>6. BufferInv BY <1>2, <1>3, <1>4, <1>5, BufferParts
<1>7. line.step = "idle" /\ line.text = <<>> BY <1>1 DEF Idle
<1>8. <<>> \in Seq(Printed) /\ Len(<<>>) = 0 OBVIOUS
<1>9. Owes(<<>>, cells, 0, 0, <<>>) /\ NoEnd(cells, 0)
  <2>1. 0 - 0 = 0 /\ 1..0 = {} OBVIOUS
  <2> QED BY <1>8, <2>1 DEF Owes, NoEnd
<1>10. Whole(owed, cells, pos, line) BY <1>1, <1>7, <1>8, <1>9 DEF Whole
<1>11. OwedInv BY DEF LogInit, OwedInv
<1> QED BY <1>6, <1>10, <1>11 DEF LogInv, WholeInv

LEMMA LogInvKept ==
    ASSUME FormatsAsMeant, LogInv, [LogNext]_logVars
    PROVE  LogInv'
<1>0. BufferInv' /\ OwedInv' BY BufferKept, OwedKept DEF LogInv
<1> SUFFICES WholeInv' BY <1>0 DEF LogInv
<1>1. ASSUME NEW pieces \in Templates, NEW args \in ArgLists, NEW ln \in BOOLEAN, PrintMessage(pieces, args, ln)
      PROVE  WholeInv'
  BY <1>1, PrintKeepsWhole
<1>2. CASE Test BY <1>2, TestKeepsWhole
<1>3. CASE Load BY <1>3, LoadKeepsWhole
<1>4. CASE StoreCell BY <1>4, StoreCellKeepsWhole
<1>5. CASE StoreIndex BY <1>5, StoreIndexKeepsWhole
<1>6. CASE Stored BY <1>6, StoredKeepsWhole
<1>7. CASE Flush BY <1>7, FlushKeepsWhole
<1>8. CASE Put BY <1>8, PutKeepsWhole
<1>9. CASE Reset BY <1>9, ResetKeepsWhole
<1>10. CASE Nmi
  <2>1. alone' = FALSE BY <1>10 DEF Nmi
  <2> QED BY <2>1 DEF WholeInv
<1>11. CASE UNCHANGED logVars BY <1>11 DEF logVars, LogInv, WholeInv
<1> QED BY <1>1, <1>2, <1>3, <1>4, <1>5, <1>6, <1>7, <1>8, <1>9, <1>10, <1>11 DEF LogNext

\* print, and the handler of an interrupt that comes between any two of its loads and stores,
\* write inside the buffer: the index a character is stored at was below the buffer's size
\* when it was loaded.  Whatever the messages are.
THEOREM BufferHolds == LogSpec => [](~spilled /\ LogTypeOK)
<1>1. LogInit => BufferInv BY LogInvStarts DEF LogInv
<1>2. BufferInv /\ [LogNext]_logVars => BufferInv' BY BufferKept
<1>3. BufferInv => ~spilled /\ LogTypeOK BY DEF BufferInv, LogTypeOK, StreamHolds
<1> QED BY <1>1, <1>2, <1>3, PTL DEF LogSpec

\* BufferStream loses, repeats and reorders no character until an interrupt comes, keeps the
\* characters of the line that has not ended, and never writes outside of its buffer, when
\* format_to writes the messages it is given as they are meant.
THEOREM StreamIsWhole ==
    ASSUME FormatsAsMeant
    PROVE  LogSpec => []LogIsWhole
<1>1. LogInit => LogInv BY LogInvStarts
<1>2. LogInv /\ [LogNext]_logVars => LogInv' BY LogInvKept
<1>3. LogInv => LogIsWhole
  <2> SUFFICES ASSUME LogInv PROVE LogIsWhole OBVIOUS
  <2>1. ~spilled BY DEF LogInv, BufferInv
  <2>2. ASSUME line.step = "idle", alone
        PROVE  owed = SubSeq(cells, 1, pos) /\ EndOfLine \notin ToSet(owed)
    <3>1. Whole(owed, cells, pos, line) BY <2>2 DEF LogInv, WholeInv
    <3>2. owed \in Seq(Printed) /\ Owes(owed, cells, 0, pos, <<>>) /\ NoEnd(cells, pos)
      BY <2>2, <3>1 DEF Whole
    <3>3. pos \in Nat
      <4>1. pos \in 0..StreamSize BY DEF LogInv, BufferInv
      <4>2. StreamSize \in Nat BY LogStreamAssumption
      <4> QED BY <4>1, <4>2
    <3> QED BY <3>2, <3>3, OwesAll
  <2>3. Junk \notin ToSet(owed)
    <3>1. CASE alone
      <4>1. owed \in Seq(Printed) BY <3>1 DEF LogInv, WholeInv, Whole
      <4>2. ToSet(owed) \subseteq Printed BY <4>1 DEF ToSet
      <4> QED BY <4>2, PrintedIs
    <3>2. CASE ~alone
      <4>1. owed = <<>> BY <3>2 DEF LogInv, OwedInv
      <4> QED BY <4>1 DEF ToSet
    <3> QED BY <3>1, <3>2
  <2> QED BY <2>1, <2>2, <2>3 DEF LogIsWhole
<1> QED BY <1>1, <1>2, <1>3, PTL DEF LogSpec

-----------------------------------------------------------------------------
(* The composition.                                                        *)

LEMMA PartsStart ==
    Init => /\ VectorInit /\ ValuesInit /\ HashMapInit /\ StringsInit
            /\ ListsInit /\ FwdListsInit /\ HeapSizesInit /\ LogInit
BY DEF Init

\* A step of one part leaves the others alone.
LEMMA OnePartSteps ==
    [Next]_vars => /\ [VectorNext]_vectorVars /\ [ValuesNext]_valuesVars /\ [HashMapNext]_hashMapVars
                   /\ [StringsNext]_stringsVars /\ [ListsNext]_listsVars /\ [FwdListsNext]_fwdListsVars
                   /\ [HeapSizesNext]_heapSizesVars /\ [LogNext]_logVars
<1> SUFFICES ASSUME [Next]_vars
             PROVE  /\ [VectorNext]_vectorVars /\ [ValuesNext]_valuesVars /\ [HashMapNext]_hashMapVars
                    /\ [StringsNext]_stringsVars /\ [ListsNext]_listsVars /\ [FwdListsNext]_fwdListsVars
                    /\ [HeapSizesNext]_heapSizesVars /\ [LogNext]_logVars
    OBVIOUS
<1>1. CASE UNCHANGED vars BY <1>1 DEF vars
<1>2. CASE Next BY <1>2 DEF Next
<1> QED BY <1>1, <1>2

\* Each part behaves as it does alone.
THEOREM PartsBehave ==
    Spec => /\ VectorSpec /\ ValuesSpec /\ HashMapSpec /\ StringsSpec
            /\ ListsSpec /\ FwdListsSpec /\ HeapSizesSpec /\ LogSpec
<1> QED BY PartsStart, OnePartSteps, PTL
        DEF Spec, VectorSpec, ValuesSpec, HashMapSpec, StringsSpec, ListsSpec, FwdListsSpec, HeapSizesSpec, LogSpec

\* The pointers of intrusive_list and of intrusive_fwd_list go through the nodes that were put
\* in, in order, also where both kinds of list are used.
THEOREM AllLinked == Spec => []AllListsAreLinked
<1>1. ListsAreLinked /\ ChainsAreLinked => AllListsAreLinked BY DEF AllListsAreLinked
<1> QED BY <1>1, PartsBehave, RingsLinked, ChainsLinked, PTL

=============================================================================
