------------------------------- MODULE Values -------------------------------
(***************************************************************************)
(* The tagged unions of libglox: option, option<T&>, result, result<T&, E>,*)
(* variant, and box, whose tag is its pointer.  A few objects of one of    *)
(* these types; their operations are translated down to which member of    *)
(* the union is constructed, assigned, destroyed and read, so that what    *)
(* the tag says and what lives in the storage can differ.                  *)
(*                                                                         *)
(* Payloads are members of Data.  A trivial payload is copied with the     *)
(* object; a class payload has its own copies and destructor, and is       *)
(* Moved when it was moved from.                                           *)
(***************************************************************************)
EXTENDS Integers, Sequences, FiniteSets

CONSTANTS
    Objects,     \* the objects
    Data,        \* payloads; the T made from true is One
    One,
    Changes,     \* what the functions passed to transform and and_then do to a payload
    Moved,       \* a payload that was moved from
    NoData       \* the content of storage without an object

ASSUME ValuesAssumption ==
    /\ One \in Data /\ Changes \subseteq [Data -> Data]
    /\ Moved \notin Data /\ NoData \notin Data /\ Moved # NoData

VARIABLES
    kind,      \* the type of the objects: <<template, trivial or class>>
    obj,       \* tag (sel), live member and content of every object
    asked,     \* the last question: what was asked, the answer, and the one that is right
    meant,     \* history: what every object stands for, <<tag, payload>>
    fault      \* history: <<operation, event>> pairs of the last operation

valuesVars == <<kind, obj, asked, meant, fault>>

Kinds == {"option", "option&", "result", "result&", "variant", "box"} \X {"trivial", "class"}
Tags == [option |-> {"val", "none"}, result |-> {"val", "err"},
         variant |-> {"alt0", "alt1", "alt2"}]
Live == {"val", "err", "alt0", "alt1", "alt2", "none"}

Gone == [sel |-> "gone", live |-> "none", data |-> NoData]
Trivial == kind[2] = "trivial"
Nothing == <<"gone", NoData>>
NoQuestion == <<"none", NoData, NoData>>
IsGone(v) == obj[v].sel = "gone"
Is(template) == kind[1] = template

\* The member of the storage that the tag says is alive.  References keep a pointer beside
\* the union, and an empty option nothing.
MemberOf(sel) ==
    IF sel \in {"none", "gone"} \/ kind[1] = "option&" \/ (kind[1] = "result&" /\ sel = "val")
    THEN "none" ELSE sel

-----------------------------------------------------------------------------
(* Storage.  u is a record of the objects and of what went wrong.          *)

Now == [obj |-> obj, event |-> {}]
Flag2(u, cond, what) == IF cond THEN [u EXCEPT !.event = @ \cup {what}] ELSE u

ConstructAt(u, v, member, d) ==
    [Flag2(u, ~Trivial /\ u.obj[v].live # "none", "overwritten") EXCEPT
        !.obj[v].live = member, !.obj[v].data = d]

DestroyAt(u, v, member) ==
    [Flag2(u, u.obj[v].live # member, "wrong member") EXCEPT
        !.obj[v].live = "none", !.obj[v].data = NoData]

AssignAt(u, v, member, d) ==
    [Flag2(u, u.obj[v].live # member, "wrong member") EXCEPT !.obj[v].data = d]

\* The pointer of a reference; the union is not touched.
PointAt(u, v, d) == [u EXCEPT !.obj[v].data = d]

SetTag(u, v, sel) == [u EXCEPT !.obj[v].sel = sel]

ReadAt(u, w, member) == Flag2(u, u.obj[w].live # member, "wrong member")

\* The content of w's member, and w after it was moved out.
MoveOut(u, w, member) ==
    LET r == ReadAt(u, w, member)
    IN  IF Trivial \/ member = "none" THEN r ELSE [r EXCEPT !.obj[w].data = Moved]

Content(w) == obj[w].data

\* A new object v: the tag, and the member it needs.
Make(u, v, sel, d) ==
    IF sel = "none" THEN SetTag(u, v, sel)
    ELSE IF MemberOf(sel) = "none" THEN SetTag(PointAt(u, v, d), v, sel)
    ELSE SetTag(ConstructAt(u, v, sel, d), v, sel)

MakeCopy(u, v, w) == Make(ReadAt(u, w, MemberOf(obj[w].sel)), v, obj[w].sel, Content(w))
MakeMoved(u, v, w) == Make(MoveOut(u, w, MemberOf(obj[w].sel)), v, obj[w].sel, Content(w))

Drop(u, v) ==
    LET m == MemberOf(u.obj[v].sel)
    IN  IF m = "none" THEN u ELSE DestroyAt(u, v, m)

-----------------------------------------------------------------------------
(* How an operation ends.                                                  *)

Does(op, u, means) ==
    /\ obj' = u.obj /\ meant' = means
    /\ fault' = {op} \X u.event
    /\ asked' = NoQuestion
    /\ UNCHANGED kind

Answers(op, u, got, right) ==
    /\ obj' = u.obj
    /\ fault' = {op} \X u.event
    /\ asked' = <<op, got, right>>
    /\ UNCHANGED <<kind, meant>>

Stands(v, sel, d) == [meant EXCEPT ![v] = <<sel, d>>]
StandsAs(v, w) == [meant EXCEPT ![v] = meant[w]]

\* The source keeps its tag; its payload is not to be used, unless it is trivial.
MovedAway(v, w) ==
    [meant EXCEPT ![v] = meant[w], ![w] = IF Trivial \/ MemberOf(@[1]) = "none" THEN @ ELSE <<@[1], Moved>>]

Usable(w) == ~IsGone(w) /\ meant[w][2] # Moved

\* What the tag and the content of w mean when they are read as the code reads them.
Reads(w) == <<obj[w].sel, Content(w)>>

-----------------------------------------------------------------------------
(* Constructors, destructors and assignments.                              *)

New(v, sel, d) ==
    /\ IsGone(v)
    /\ Does("new", Make(Now, v, sel, d), Stands(v, sel, IF sel = "none" THEN NoData ELSE d))

\* From a payload, from none or from an error; from_val.
NewOption(v, sel, d) == Is("option") /\ sel \in Tags.option /\ New(v, sel, d)
NewOptionReference(v, sel, d) == Is("option&") /\ sel \in Tags.option /\ New(v, sel, d)
NewResult(v, sel, d) == Is("result") /\ sel \in Tags.result /\ New(v, sel, d)
NewReference(v, sel, d) == Is("result&") /\ sel \in Tags.result /\ New(v, sel, d)
NewVariant(v, sel, d) == Is("variant") /\ sel \in Tags.variant /\ New(v, sel, d)

\* A box takes its memory from the heap, which may have none (d = NoData).
NewBox(v, d) ==
    /\ Is("box") /\ IsGone(v)
    /\ IF d = NoData THEN Does("new", Make(Now, v, "none", d), Stands(v, "none", NoData))
       ELSE Does("new", Make(Now, v, "val", d), Stands(v, "val", d))

Copied(v, w) ==
    /\ IsGone(v) /\ Usable(w)
    /\ Does("copy", MakeCopy(Now, v, w), StandsAs(v, w))

MovedInto(v, w) ==
    /\ IsGone(v) /\ Usable(w)
    /\ Does("move", MakeMoved(Now, v, w), MovedAway(v, w))

NewCopyOf(v, w) == kind[1] \in {"option", "option&", "result"} /\ Copied(v, w)
NewMoveOf(v, w) == kind[1] \in {"option", "option&", "result"} /\ MovedInto(v, w)
NewCopyOfReference(v, w) == Is("result&") /\ Copied(v, w)
NewMoveOfReference(v, w) == Is("result&") /\ MovedInto(v, w)
NewCopyOfVariant(v, w) == Is("variant") /\ Copied(v, w)
NewMoveOfVariant(v, w) == Is("variant") /\ MovedInto(v, w)

\* A box is null after it was moved from.
NewMoveOfBox(v, w) ==
    /\ Is("box") /\ IsGone(v) /\ Usable(w)
    /\ Does("move", [Now EXCEPT !.obj[v] = obj[w], !.obj[w] = [Gone EXCEPT !.sel = "none"]],
            [meant EXCEPT ![v] = meant[w], ![w] = <<"none", NoData>>])

Destroyed(v) ==
    /\ ~IsGone(v)
    /\ Does("delete", [Drop(Now, v) EXCEPT !.obj[v] = Gone], [meant EXCEPT ![v] = Nothing])

\* That of result<T&, E> for an E with a destructor does not compile: such an object can only
\* live in storage that is never destroyed.
Delete(v) ==
    /\ kind[1] \in {"option", "option&", "result"} \/ kind = <<"result&", "trivial">>
    /\ Destroyed(v)

DeleteVariant(v) == Is("variant") /\ Destroyed(v)
DeleteBox(v) == Is("box") /\ Destroyed(v)

\* The defaulted assignment copies the object as it is.
AssignTrivial(v, w) ==
    /\ (Trivial /\ ~Is("box")) \/ Is("option&")
    /\ ~IsGone(v) /\ ~IsGone(w)
    /\ Does("assign", [Now EXCEPT !.obj[v] = obj[w]], StandsAs(v, w))

\* result of class types, by which of the two has a value.
AssignMember(u, v, w) ==
    LET old == obj[v].sel
        new == obj[w].sel
    IN  IF old = new THEN AssignAt(u, v, new, Content(w))
        ELSE ConstructAt(DestroyAt(u, v, old), v, new, Content(w))

\* Bug: forgets the tag when the member changes.
MutAssignResult(u, v, w) == AssignMember(u, v, w)

AssignResult(u, v, w) == SetTag(AssignMember(u, v, w), v, obj[w].sel)

CopyAssignResult(v, w) ==
    /\ Is("result") /\ ~Trivial /\ ~IsGone(v) /\ Usable(w)
    /\ Does("assign", AssignResult(ReadAt(Now, w, obj[w].sel), v, w), StandsAs(v, w))

MoveAssignResult(v, w) ==
    /\ Is("result") /\ ~Trivial /\ v # w /\ ~IsGone(v) /\ Usable(w)
    /\ Does("assign", AssignResult(MoveOut(Now, w, obj[w].sel), v, w), MovedAway(v, w))

\* result<T&, E>: an error is made beside the pointer, and destroyed when a pointer comes.
AssignReference(u, v, w) ==
    LET old == obj[v].sel
        new == obj[w].sel
    IN  SetTag(CASE old = "val" /\ new = "val" -> PointAt(u, v, Content(w))
                 [] old = "val" /\ new = "err" -> ConstructAt(u, v, "err", Content(w))
                 [] old = "err" /\ new = "val" -> PointAt(DestroyAt(u, v, "err"), v, Content(w))
                 [] old = "err" /\ new = "err" -> AssignAt(u, v, "err", Content(w)),
               v, new)

CopyAssignReference(v, w) ==
    /\ Is("result&") /\ ~Trivial /\ ~IsGone(v) /\ Usable(w)
    /\ Does("assign", AssignReference(ReadAt(Now, w, MemberOf(obj[w].sel)), v, w), StandsAs(v, w))

\* Between two errors it copies.
MoveAssignReference(v, w) ==
    LET copies == obj[v].sel = "err" /\ obj[w].sel = "err"
        u == IF copies THEN ReadAt(Now, w, "err") ELSE MoveOut(Now, w, MemberOf(obj[w].sel))
    IN  /\ Is("result&") /\ ~Trivial /\ v # w /\ ~IsGone(v) /\ Usable(w)
        /\ Does("assign", AssignReference(u, v, w),
                IF copies THEN StandsAs(v, w) ELSE MovedAway(v, w))

\* variant destroys itself and is made again.
CopyAssignVariant(v, w) ==
    /\ Is("variant") /\ ~Trivial /\ ~IsGone(v) /\ Usable(w)
    /\ Does("assign", IF v = w THEN Now ELSE MakeCopy(Drop(Now, v), v, w), StandsAs(v, w))

MoveAssignVariant(v, w) ==
    /\ Is("variant") /\ ~Trivial /\ ~IsGone(v) /\ Usable(w)
    /\ Does("assign", IF v = w THEN Now ELSE MakeMoved(Drop(Now, v), v, w),
            IF v = w THEN meant ELSE MovedAway(v, w))

Emplace(v, i, d) ==
    /\ Is("variant") /\ ~IsGone(v) /\ i \in Tags.variant
    /\ Does("emplace", Make(Drop(Now, v), v, i, d), Stands(v, i, d))

\* The new alternative is made from the old one, which is destroyed by then.
EmplaceOwn(v, i) ==
    LET dropped == IF Trivial THEN Now ELSE Drop(Now, v)
    IN  /\ Is("variant") /\ Usable(v) /\ i \in Tags.variant
        /\ Does("emplace own", Make(ReadAt(dropped, v, obj[v].sel), v, i, Content(v)),
                Stands(v, i, meant[v][2]))

-----------------------------------------------------------------------------
(* Questions.                                                              *)

\* An assertion, then the member.
Get(v, sel) ==
    /\ Usable(v)
    /\ IF obj[v].sel # sel
       THEN Answers("get", Flag2(Now, TRUE, "panic"), "panic",
                    IF meant[v][1] # sel THEN "panic" ELSE meant[v][2])
       ELSE Answers("get", ReadAt(Now, v, MemberOf(sel)), Content(v), meant[v][2])

\* val, err, the operators * and ->.
GetOption(v) == Is("option") /\ Get(v, "val")
GetOptionReference(v) == Is("option&") /\ Get(v, "val")
GetResult(v, sel) == Is("result") /\ sel \in Tags.result /\ Get(v, sel)
GetReference(v, sel) == Is("result&") /\ sel \in Tags.result /\ Get(v, sel)
GetBox(v) == Is("box") /\ Get(v, "val")

\* The payload, or what the caller gives instead; out of an rvalue it is moved.
GetOr(v, sel, d, rvalue) ==
    LET m == MemberOf(sel)
        u == IF rvalue THEN MoveOut(Now, v, m) ELSE ReadAt(Now, v, m)
        moves == rvalue /\ ~Trivial /\ m # "none"
    IN  /\ Usable(v)
        /\ IF obj[v].sel # sel
           THEN Answers("get or", Now, d, IF meant[v][1] = sel THEN meant[v][2] ELSE d)
           ELSE /\ obj' = u.obj /\ fault' = {"get or"} \X u.event
                /\ asked' = <<"get or", Content(v), meant[v][2]>>
                /\ meant' = IF moves THEN [meant EXCEPT ![v][2] = Moved] ELSE meant
                /\ UNCHANGED kind

\* unwrap_or, val_or and err_or; or_else of option<T&>, which copies what it refers to.
ValOrOption(v, d, rvalue) == Is("option") /\ GetOr(v, "val", d, rvalue)
ValOrOptionReference(v, d) == Is("option&") /\ GetOr(v, "val", d, FALSE)
OrResult(v, sel, d, rvalue) == Is("result") /\ sel \in Tags.result /\ GetOr(v, sel, d, rvalue)
OrReference(v, sel, d, rvalue) == Is("result&") /\ sel \in Tags.result /\ GetOr(v, sel, d, rvalue)

\* operator==: both the same way, and of equal payloads.
Equal(v, w) ==
    LET both == obj[v].sel = obj[w].sel
        u == IF ~both \/ obj[v].sel = "none" THEN Now
             ELSE ReadAt(ReadAt(Now, v, obj[v].sel), w, obj[w].sel)
    IN  /\ Usable(v) /\ Usable(w)
        /\ Answers("==", u, both /\ (obj[v].sel = "none" \/ Content(v) = Content(w)),
                   meant[v] = meant[w])

EqualOption(v, w) == Is("option") /\ Equal(v, w)
EqualResult(v, w) == Is("result") /\ Equal(v, w)

\* That of result<T&, E> asks twice whether the left side is an error.
EqualReference(v, w) ==
    LET bothVal == obj[v].sel = "val" /\ obj[w].sel = "val"
        u == IF bothVal \/ obj[v].sel = "val" THEN Now
             ELSE ReadAt(ReadAt(Now, v, "err"), w, "err")
    IN  /\ Is("result&") /\ Usable(v) /\ Usable(w)
        /\ Answers("== of references", u, (bothVal \/ obj[v].sel = "err") /\ Content(v) = Content(w),
                   meant[v] = meant[w])

\* get_if: null, or the member.
GetIf(v, i) ==
    /\ Is("variant") /\ Usable(v) /\ i \in Tags.variant
    /\ IF obj[v].sel = i THEN Answers("get if", ReadAt(Now, v, i), Content(v),
                                      IF meant[v][1] = i THEN meant[v][2] ELSE "null")
       ELSE Answers("get if", Now, "null", IF meant[v][1] = i THEN meant[v][2] ELSE "null")

Visit(v) ==
    /\ Is("variant") /\ Usable(v)
    /\ Answers("visit", ReadAt(Now, v, obj[v].sel), Reads(v), meant[v])

-----------------------------------------------------------------------------
(* The functions that make an object from another: v from w.               *)

\* f is applied to the payload of the tag `on`, and what it gives gets the tag `to`; other
\* objects are copied.
Apply(op, v, w, on, to, f) ==
    /\ IsGone(v) /\ Usable(w)
    /\ IF obj[w].sel = on
       THEN Does(op, Make(ReadAt(Now, w, MemberOf(on)), v, to,
                          IF Content(w) \in Data THEN f[Content(w)] ELSE Content(w)),
                 Stands(v, to, IF meant[w][1] = on THEN f[meant[w][2]] ELSE meant[w][2]))
       ELSE Does(op, MakeCopy(Now, v, w), StandsAs(v, w))

\* and_then, whose function gives an object; transform, whose function gives a payload.
AndThenOption(v, w, f) == Is("option") /\ Apply("and then", v, w, "val", "val", f)
AndThenOptionReference(v, w, f) == Is("option&") /\ Apply("and then", v, w, "val", "val", f)
AndThen(v, w, to, f) == Is("result") /\ Apply("and then", v, w, "val", to, f)
AndThenReference(v, w, to, f) == Is("result&") /\ Apply("and then", v, w, "val", to, f)

OrElse(v, w, to, f) == Is("result") /\ Apply("or else", v, w, "err", to, f)
OrElseReference(v, w, to, f) == Is("result&") /\ Apply("or else", v, w, "err", to, f)

\* or_else of option: the function has no argument.
OrElseOption(v, w, d) ==
    /\ Is("option") /\ IsGone(v) /\ Usable(w)
    /\ IF obj[w].sel = "none" THEN Does("or else", Make(Now, v, "val", d), Stands(v, "val", d))
       ELSE Does("or else", MakeCopy(Now, v, w), StandsAs(v, w))

\* transform_err of a value makes the new value from the result itself, which converts to
\* bool, and not from its payload.
TransformErr(v, w, f) ==
    /\ Is("result") /\ IsGone(v) /\ Usable(w)
    /\ IF obj[w].sel = "err" THEN Apply("transform err", v, w, "err", "err", f)
       ELSE Does("transform err", Flag2(Make(Now, v, "val", One), Content(w) # One, "changed"),
                 Stands(v, "val", One))

\* That of result<T&, E> copies the result.
TransformErrReference(v, w, f) == Is("result&") /\ Apply("transform err", v, w, "err", "err", f)

\* TRY: the error of w, moved into a new result.
Propagate(v, w) ==
    /\ Is("result") /\ IsGone(v) /\ Usable(w) /\ obj[w].sel = "err"
    /\ Does("propagate", Make(MoveOut(Now, w, "err"), v, "err", Content(w)), MovedAway(v, w))

ValuesInit ==
    /\ kind \in Kinds
    /\ obj = [v \in Objects |-> Gone]
    /\ meant = [v \in Objects |-> Nothing]
    /\ asked = NoQuestion
    /\ fault = {}

ValuesNext ==
    /\ fault = {}
    /\ \E v \in Objects :
          \/ Delete(v) \/ DeleteVariant(v) \/ DeleteBox(v)
          \/ Visit(v) \/ GetOption(v) \/ GetOptionReference(v) \/ GetBox(v)
          \/ \E sel \in Live :
                \/ GetResult(v, sel) \/ GetReference(v, sel) \/ GetIf(v, sel) \/ EmplaceOwn(v, sel)
                \/ \E d \in Data :
                      \/ NewOption(v, sel, d) \/ NewOptionReference(v, sel, d)
                      \/ NewResult(v, sel, d) \/ NewReference(v, sel, d)
                      \/ NewVariant(v, sel, d) \/ Emplace(v, sel, d)
                      \/ ValOrOptionReference(v, d)
                      \/ \E rvalue \in BOOLEAN : \/ ValOrOption(v, d, rvalue)
                                                 \/ OrResult(v, sel, d, rvalue)
                                                 \/ OrReference(v, sel, d, rvalue)
          \/ \E d \in Data \cup {NoData} : NewBox(v, d)
          \/ \E w \in Objects :
                \/ NewCopyOf(v, w) \/ NewMoveOf(v, w)
                \/ NewCopyOfReference(v, w) \/ NewMoveOfReference(v, w)
                \/ NewCopyOfVariant(v, w) \/ NewMoveOfVariant(v, w) \/ NewMoveOfBox(v, w)
                \/ AssignTrivial(v, w)
                \/ CopyAssignResult(v, w) \/ MoveAssignResult(v, w)
                \/ CopyAssignReference(v, w) \/ MoveAssignReference(v, w)
                \/ CopyAssignVariant(v, w) \/ MoveAssignVariant(v, w)
                \/ EqualOption(v, w) \/ EqualResult(v, w) \/ EqualReference(v, w)
                \/ Propagate(v, w)
                \/ \E d \in Data : OrElseOption(v, w, d)
                \/ \E f \in Changes :
                      \/ AndThenOption(v, w, f) \/ AndThenOptionReference(v, w, f)
                      \/ TransformErr(v, w, f) \/ TransformErrReference(v, w, f)
                      \/ \E to \in Tags.result :
                            \/ AndThen(v, w, to, f) \/ AndThenReference(v, w, to, f)
                            \/ OrElse(v, w, to, f) \/ OrElseReference(v, w, to, f)

ValuesSpec == ValuesInit /\ [][ValuesNext]_valuesVars

-----------------------------------------------------------------------------
(* Properties.                                                             *)

Tag == {"val", "err", "none", "gone", "alt0", "alt1", "alt2"}

ValuesTypeOK ==
    /\ kind \in Kinds
    /\ obj \in [Objects -> [sel : Tag, live : Live, data : Data \cup {Moved, NoData}]]
    /\ meant \in [Objects -> Tag \X (Data \cup {Moved, NoData})]

\* A payload is read, assigned and destroyed only while it is alive, or the history is over.
\* While it goes on, the member that is alive is the one the tag names, no other one is left
\* behind, the payload is the one the operations mean, and every question is answered right.
TagTellsTruth ==
    /\ fault \subseteq ({"get"} \X {"panic"}) \cup {<<"== of references", "wrong member">>,
                       <<"emplace own", "wrong member">>, <<"transform err", "changed">>}
    /\ fault = {} =>
          /\ asked[2] = asked[3]
          /\ \A v \in Objects :
                /\ obj[v].live = MemberOf(obj[v].sel)
                /\ obj[v].sel = meant[v][1]
                /\ obj[v].data = meant[v][2]
=============================================================================
