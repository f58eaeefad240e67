------------------------------ MODULE Strings ------------------------------
(***************************************************************************)
(* glox::string (glox/string.hpp): short strings in the object itself,     *)
(* longer ones in a block of the heap whose capacity is kept in a bit      *)
(* field of 7 bits, divided by CAP_FACTOR.                                 *)
(*                                                                         *)
(* buf is the whole storage of a string, in the object or in the block,    *)
(* and only its first size characters count.  An operation that does what  *)
(* it should not is noted in strLog, and ends the history.  ok says        *)
(* whether memalloc finds memory.                                          *)
(***************************************************************************)
EXTENDS Integers, Sequences, SequencesExt, FiniteSets, FiniteSetsExt

CONSTANTS
    Strs,        \* the strings
    Letters,     \* characters
    Zero,        \* the character '\0'
    SmallCap,    \* MINIMAL_CAP, 23 in the code
    BigCap,      \* the capacity of the first block, 32 in the code, a multiple of CAP_FACTOR
    CapLimit,    \* what the bit field of the capacity holds are the numbers below it: 128
    MaxText      \* bound: characters of all strings

ASSUME StringsAssumption ==
    /\ Zero \in Letters
    /\ SmallCap \in Nat \ {0} /\ BigCap \in Nat /\ BigCap > SmallCap /\ BigCap % 2 = 0
    /\ CapLimit \in Nat /\ CapLimit > BigCap /\ MaxText \in Nat

VARIABLES
    capFactor,   \* CAP_FACTOR of the build
    strs,        \* every string: is_big, cap, size, buf
    strMeant,    \* history: the text every string stands for
    strLog       \* history: <<operation, event, whether a capacity was cut>>

stringsVars == <<capFactor, strs, strMeant, strLog>>

Zeroes(n) == [i \in 1..n |-> Zero]
EmptyStr == [big |-> FALSE, cap |-> 0, size |-> 0, buf |-> Zeroes(SmallCap)]
IsEmptyStr(x) == strs[x] = EmptyStr

Capacity(s) == IF s.big THEN s.cap * capFactor ELSE SmallCap

\* The capacity it reports is less than that of its block.
IsCut(s) == Capacity(s) < Len(s.buf)

\* A string under way: the record, the events, and whether its capacity was cut so far.
Begun(s) == [s |-> s, ev |-> {}, cut |-> IsCut(s)]
Also(w, cond, what) == IF cond THEN [w EXCEPT !.ev = @ \cup {what}] ELSE w

\* Bug: the capacity is not cut to the bit field.
MutStoredCap(count) == count \div capFactor

\* The bits of the capacity that are kept.
StoredCap(count) == (count \div capFactor) % CapLimit

\* The size given back with a block should be the one it was asked with.
FreeBlock(w, size) == Also(w, w.s.big /\ size # Len(w.s.buf), "wrong size")

\* ensure_can_fit: <<string under way, whether it reports room>>.  The new capacity does not
\* depend on new_size.
EnsureFits(w, newSize, ok) ==
    LET cap == Capacity(w.s)
        new == IF cap < BigCap THEN BigCap ELSE cap + cap \div 2
        kept == IF w.s.big THEN cap ELSE w.s.size
        freed == FreeBlock(w, cap)
        grown == [big |-> TRUE, cap |-> StoredCap(new), size |-> w.s.size,
                  buf |-> [i \in 1..new |-> IF i <= kept /\ i <= Len(w.s.buf)
                                            THEN w.s.buf[i] ELSE Zero]]
    IN  IF newSize <= cap THEN <<w, TRUE>>
        ELSE IF ~ok THEN <<w, FALSE>>
        ELSE <<[freed EXCEPT !.s = grown, !.cut = @ \/ IsCut(grown)], TRUE>>

\* data()[siz] = c; set_size(siz + 1).
PutChar(w, c) ==
    LET i == w.s.size + 1
        put == [w.s EXCEPT !.buf = [w.s.buf EXCEPT ![i] = c], !.size = i]
    IN  IF i > Len(w.s.buf) THEN Also(w, TRUE, "outside") ELSE [w EXCEPT !.s = put]

PushChar(w, c, ok) ==
    LET fit == EnsureFits(w, w.s.size + 1, ok)
    IN  IF fit[2] THEN PutChar(fit[1], c) ELSE w

PushAll(w, text, ok) ==
    LET after[k \in 0..Len(text)] == IF k = 0 THEN w ELSE PushChar(after[k - 1], text[k], ok)
    IN  after[Len(text)]

Text(s) == [i \in 1..s.size |-> s.buf[i]]

\* What op made of x.  Text that does not fit is left out without a word.
Ends(op, x, w, right) ==
    /\ strLog' = {op} \X w.ev \X {w.cut}
    /\ strs' = [strs EXCEPT ![x] = IF w.ev = {} THEN w.s ELSE EmptyStr]
    /\ strMeant' = [strMeant EXCEPT ![x] = IF w.ev = {} THEN right ELSE <<>>]
    /\ UNCHANGED capFactor

\* As much of the text as there is room for without memory.
Cut(text, room, ok) == IF ok \/ Len(text) <= room THEN text ELSE SubSeq(text, 1, room)

\* The characters x can have without memory: those it has, and those its capacity allows.
Room(x) == Max({Capacity(strs[x]), strs[x].size})

RoomFor(x, n) == n + Cardinality(UNION {{y} \X (1..strs[y].size) : y \in Strs \ {x}}) <= MaxText

-----------------------------------------------------------------------------

\* string(size_t): a big one gets its first block and the size 0.
NewOfSize(x, n, ok) ==
    LET w == Begun(EmptyStr)
        fit == EnsureFits(w, n, ok)[1]
    IN  /\ IsEmptyStr(x) /\ RoomFor(x, n)
        /\ IF n <= SmallCap THEN Ends("size", x, [w EXCEPT !.s.size = n], Zeroes(n))
           ELSE Ends("size", x, Also(fit, fit.s.size # n, "no size"), <<>>)

NewOfText(x, text, ok) ==
    /\ IsEmptyStr(x) /\ RoomFor(x, Len(text))
    /\ Ends("text", x, PushAll(EnsureFits(Begun(EmptyStr), Len(text), ok)[1], text, ok),
            Cut(text, SmallCap, ok))

\* The copy constructor asks the new string, whose storage holds anything, whether it is big.
NewCopyStr(x, y, readsBig) ==
    /\ x # y /\ IsEmptyStr(x) /\ RoomFor(x, strs[y].size)
    /\ Ends("copy", x, Also(Also(Begun(strs[y]), readsBig, "garbage"),
                            ~readsBig /\ strs[y].big, "shared"), strMeant[y])

CopyAssignStr(x, y, ok) ==
    LET fit == EnsureFits(Begun(strs[x]), strs[y].size, ok)[1]
        cleared == [fit EXCEPT !.s.size = 0]
    IN  /\ x # y /\ RoomFor(x, strs[y].size)
        /\ IF ~strs[x].big THEN Ends("assign", x, Also(Begun(strs[y]), strs[y].big, "shared"), strMeant[y])
           ELSE Ends("assign", x, PushAll(cleared, Text(strs[y]), ok),
                     Cut(strMeant[y], Capacity(strs[x]), ok))

\* Swaps, and has no return statement.
MoveAssignStr(x, y) == x # y /\ Ends("move assign", x, Also(Begun(strs[x]), TRUE, "no return"), <<>>)

NewMoveStr(x, y) ==
    /\ x # y /\ IsEmptyStr(x)
    /\ strs' = [strs EXCEPT ![x] = strs[y], ![y] = EmptyStr]
    /\ strMeant' = [strMeant EXCEPT ![x] = strMeant[y], ![y] = <<>>]
    /\ UNCHANGED <<capFactor, strLog>>

\* The destructor gives the block back with the stored capacity.
DeleteStr(x) ==
    Ends("delete", x, [FreeBlock(Begun(strs[x]), strs[x].cap) EXCEPT !.s = EmptyStr], <<>>)

PushStr(x, c, ok) ==
    /\ RoomFor(x, strs[x].size + 1)
    /\ Ends("push", x, PushChar(Begun(strs[x]), c, ok),
            Cut(Append(strMeant[x], c), Room(x), ok))

PopStr(x) ==
    IF strs[x].size = 0 THEN Ends("pop", x, Also(Begun(strs[x]), TRUE, "panic"), <<>>)
    ELSE Ends("pop", x, [Begun(strs[x]) EXCEPT !.s.size = @ - 1], Front(strMeant[x]))

\* Asks for more room than there is before it looks whether there is enough.
AppendStr(x, text, ok) ==
    /\ RoomFor(x, strs[x].size + Len(text))
    /\ Ends("append", x,
            PushAll(EnsureFits(Begun(strs[x]), Capacity(strs[x]) + Len(text), ok)[1], text, ok),
            Cut(strMeant[x] \o text, Room(x), ok))

\* Bug: the characters after the new one are not shifted.
MutShiftedIn(s, i, c) ==
    [s EXCEPT !.buf = [j \in DOMAIN @ |-> IF j = i THEN c ELSE @[j]]]

ShiftedIn(s, i, c) ==
    [s EXCEPT !.buf = [j \in DOMAIN @ |-> CASE j = i -> c
                                            [] j \in i + 1..s.size -> @[j - 1]
                                            [] OTHER -> @[j]]]

\* Before the character i.  At the end, the iterator it returns points to where the text was
\* before the call; elsewhere, what push_back returns is not looked at.
InsertStr(x, i, c, ok) ==
    LET atEnd == i = strs[x].size + 1
        pushed == PushChar(Begun(strs[x]), IF atEnd THEN c ELSE Zero, ok)
        grew == Len(pushed.s.buf) # Len(strs[x].buf)
        none == pushed.s.size = strs[x].size /\ pushed.ev = {}
    IN  /\ RoomFor(x, strs[x].size + 1) /\ i <= strs[x].size + 1
        /\ IF atEnd THEN Ends("insert", x, Also(pushed, grew, "stale"), IF none THEN strMeant[x]
                                                                       ELSE Append(strMeant[x], c))
           ELSE Ends("insert", x, Also([pushed EXCEPT !.s = ShiftedIn(@, i, c)], none, "dropped"),
                     InsertAt(strMeant[x], i, c))

EraseStr(x, i) ==
    /\ i <= strs[x].size
    /\ Ends("erase", x,
            [Begun(strs[x]) EXCEPT !.s.buf = [j \in DOMAIN @ |-> IF j \in i..strs[x].size - 1
                                                                 THEN @[j + 1] ELSE @[j]],
                                   !.s.size = @ - 1],
            RemoveAt(strMeant[x], i))

Texts2 == {<<c>> : c \in Letters} \cup {Zeroes(SmallCap + 1)}

StringsInit ==
    /\ capFactor \in {1, 2}
    /\ strs = [x \in Strs |-> EmptyStr]
    /\ strMeant = [x \in Strs |-> <<>>]
    /\ strLog = {}

StringsNext ==
    /\ strLog = {}
    /\ \E x \in Strs :
          \/ DeleteStr(x) \/ PopStr(x)
          \/ \E y \in Strs : \/ NewMoveStr(x, y) \/ MoveAssignStr(x, y)
                             \/ \E readsBig \in BOOLEAN : NewCopyStr(x, y, readsBig)
          \/ \E i \in 1..MaxText : EraseStr(x, i)
          \/ \E ok \in BOOLEAN :
                \/ \E n \in {SmallCap, BigCap} : NewOfSize(x, n, ok)
                \/ \E text \in Texts2 : NewOfText(x, text, ok) \/ AppendStr(x, text, ok)
                \/ \E y \in Strs : CopyAssignStr(x, y, ok)
                \/ \E c \in Letters : \/ PushStr(x, c, ok)
                                      \/ \E i \in 1..MaxText : InsertStr(x, i, c, ok)

StringsSpec == StringsInit /\ [][StringsNext]_stringsVars

-----------------------------------------------------------------------------
(* Properties.                                                             *)

StringsTypeOK ==
    /\ capFactor \in {1, 2}
    /\ \A x \in Strs : /\ strs[x].big \in BOOLEAN
                       /\ strs[x].cap \in 0..CapLimit - 1
                       /\ strs[x].size \in Nat
                       /\ strs[x].buf \in Seq(Letters)
                       /\ strMeant[x] \in Seq(Letters)

\* What goes wrong: copies share the block of a big string or read a garbage tag; a capacity
\* past the bit field is cut off, and the next growth makes the block smaller than the text;
\* where CAP_FACTOR is 2, the destructor gives back half of the block.
KnownFault(e) ==
    \/ e[1] = "copy" /\ e[2] \in {"garbage", "shared"}
    \/ e[1] = "assign" /\ e[2] \in {"shared"}
    \/ e[1] = "size" /\ e[2] = "no size"
    \/ e[1] = "move assign" \/ e[1] = "pop"
    \/ e[1] = "insert" /\ e[2] \in {"stale", "dropped"}
    \/ e[1] = "delete" /\ e[2] = "wrong size" /\ (capFactor = 2 \/ e[3])
    \/ e[1] \in {"push", "append", "insert", "assign"} /\ e[2] \in {"wrong size", "outside"} /\ e[3]

\* Each string holds the text its operations mean, in a storage with at least the capacity it
\* reports, until one of the above happens.
StringsHoldTheirText ==
    /\ \A e \in strLog : KnownFault(e)
    /\ \A x \in Strs : /\ Text(strs[x]) = strMeant[x]
                       /\ Capacity(strs[x]) <= Len(strs[x].buf)
=============================================================================
