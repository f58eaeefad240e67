----------------------------- MODULE LogStream ------------------------------
(***************************************************************************)
(* gx::print and gx::println (kernel/system/logging.cppm): format_to       *)
(* (glox/format.hpp) turns a template and its arguments into characters,   *)
(* and BufferStream keeps them until its buffer is full or a line ends.    *)
(*                                                                         *)
(* The steps of the kernel are the loads and stores of BufferStream; a     *)
(* non maskable interrupt comes between any two, and its handler           *)
(* (arch/x86/src/cpu.cpp), which logs through the same stream, runs to its *)
(* end.  What flush does with the characters is in Terminal.               *)
(***************************************************************************)
EXTENDS Integers, Sequences, SequencesExt, FiniteSets, FiniteSetsExt

CONSTANTS
    StreamSize,   \* sizeof(buffer), 512 in the code
    Bits,         \* the width of the integers, 64 in the code: a digit of formatter::buf each
    Letter,       \* a printable character
    Templates,    \* of the messages: sequences of Piece
    Args          \* their arguments

EndOfLine == "\n"
Digit == <<"0", "1", "2", "3", "4", "5", "6", "7", "8", "9", "A", "B", "C", "D", "E", "F">>

\* A piece of a template: a character, an escaped %, or a conversion.  A % that starts a piece
\* right after a "def" would make the two of them an escape.
Piece == {"char", "escape", "def", "dec", "hex", "bin"}
Arg == [type : {"unsigned", "signed", "pointer"}, value : (-(2^(Bits - 1)))..2^Bits - 1]
       \cup [type : {"text"}, value : {0}]

ASSUME LogStreamAssumption ==
    /\ StreamSize \in Nat \ {0} /\ Bits \in Nat \ {0}
    /\ Letter \notin ToSet(Digit) \cup {"%", "d", "x", "b", "s", "-", EndOfLine, "junk"}
    /\ Templates \subseteq Seq(Piece) /\ Args \subseteq Arg
    /\ \A t \in Templates : \A i \in 2..Len(t) : t[i - 1] = "def" => t[i] = "char"

VARIABLES
    pos,      \* BufferStream::i
    cells,    \* BufferStream::buffer
    line,     \* what print is doing: its step, the characters left, whether println; locals
    owed,     \* history: the characters printed that did not come out yet, until an interrupt
    alone,    \* history: no interrupt came
    spilled   \* history: a character was written outside the buffer

logVars == <<pos, cells, line, owed, alone, spilled>>

Junk == "junk"

\* Once an interrupt came, characters are not told apart, but for ends of lines.
Seen(c, whole) == IF whole \/ c = EndOfLine THEN c ELSE Junk
SeenAll(text, whole) == [i \in DOMAIN text |-> Seen(text[i], whole)]

Idle == [step |-> "idle", text |-> <<>>, ln |-> FALSE, at |-> 0, n |-> 0, then |-> "idle"]

-----------------------------------------------------------------------------
(* format_to.                                                              *)

\* do { buf[i++] = digit(value % base); value /= base; } while (value > 0): the lowest first.
Loop(v, base) ==
    LET digits[u \in Nat] == <<Digit[(u % base) + 1]>> \o
                             IF u \div base = 0 THEN <<>> ELSE digits[u \div base]
    IN  digits[v]

Unsigned(opts, v) ==
    CASE opts \in {"dec", "def"} -> Reverse(Loop(v, 10))
      [] opts = "hex" -> <<"0", "x">> \o Reverse(Loop(v, 16))
      [] opts = "bin" -> <<"0", "b">> \o Reverse(Loop(v, 2))

\* The conversion to uintmax_t, and its negation, are modulo 2^Bits.
Signed(opts, v) ==
    IF v < 0 THEN <<"-">> \o Unsigned(opts, (-(v % 2^Bits)) % 2^Bits) ELSE Unsigned(opts, v)

Formatter(opts, arg) ==
    CASE arg.type = "unsigned" -> Unsigned(opts, arg.value)
      [] arg.type = "signed" -> Signed(opts, arg.value)
      [] arg.type = "pointer" -> Unsigned(IF opts = "def" THEN "hex" ELSE opts, arg.value)
      [] arg.type = "text" -> <<Letter, Letter>>

\* What parse writes for arg, and the template it leaves.
Parse(template, arg) ==
    LET parse[t \in Seq(STRING)] ==
            LET Then(c, rest) == <<<<c>> \o parse[rest][1], parse[rest][2]>>
                peek == IF Len(t) > 1 THEN t[2] ELSE "nul"
                opts == CASE peek = "d" -> "dec" [] peek = "b" -> "bin" [] peek = "x" -> "hex"
                          [] OTHER -> "def"
            IN  IF t = <<>> THEN <<<<>>, <<>>>>
                ELSE IF t[1] # "%" THEN Then(t[1], Tail(t))
                ELSE IF peek = "%" THEN Then("%", Tail(Tail(t)))
                ELSE <<Formatter(opts, arg),
                       IF peek \in {"s", "d", "b", "x"} THEN Tail(Tail(t)) ELSE Tail(t)>>
    IN  parse[template]

\* One argument after the other; the rest of the template is written as it is.
FormatTo(template, args) ==
    LET done == FoldLeft(LAMBDA w, arg : LET p == Parse(w[2], arg) IN <<w[1] \o p[1], p[2]>>,
                         <<<<>>, template>>, args)
    IN  done[1] \o done[2]

-----------------------------------------------------------------------------
(* What a message should say.                                              *)

Chars(piece) ==
    CASE piece = "char" -> <<Letter>> [] piece = "escape" -> <<"%", "%">> [] piece = "def" -> <<"%">>
      [] piece = "dec" -> <<"%", "d">> [] piece = "hex" -> <<"%", "x">> [] piece = "bin" -> <<"%", "b">>

\* The numeral of v: as many digits as it takes, the highest first.
Numeral(v, base) ==
    LET n == Min({k \in 1..Bits : base^k > v})
    IN  [k \in 1..n |-> Digit[((v \div base^(n - k)) % base) + 1]]

Spelled(opts, arg) ==
    LET v == IF arg.value < 0 THEN -arg.value ELSE arg.value
        o == IF opts = "def" /\ arg.type = "pointer" THEN "hex" ELSE opts
    IN  IF arg.type = "text" THEN <<Letter, Letter>>
        ELSE (IF arg.value < 0 THEN <<"-">> ELSE <<>>) \o
             CASE o \in {"def", "dec"} -> Numeral(v, 10)
               [] o = "hex" -> <<"0", "x">> \o Numeral(v, 16)
               [] o = "bin" -> <<"0", "b">> \o Numeral(v, 2)

\* The conversions take the arguments in order.  An escaped % is one character while an
\* argument is still to come, and stays two after the last one.
Message(pieces, args) ==
    LET conversions(i) == Cardinality({j \in 1..i : pieces[j] \notin {"char", "escape"}})
        text(i) == IF pieces[i] = "char" THEN <<Letter>>
                   ELSE IF pieces[i] = "escape"
                   THEN IF conversions(i) < Len(args) THEN <<"%">> ELSE <<"%", "%">>
                   ELSE IF conversions(i) <= Len(args) THEN Spelled(pieces[i], args[conversions(i)])
                   ELSE Chars(pieces[i])
    IN  FlattenSeq([i \in DOMAIN pieces |-> text(i)])

-----------------------------------------------------------------------------
(* BufferStream.                                                           *)

StreamFull(i) == i = StreamSize

Flushed(s) == [s EXCEPT !.pos = 0, !.cells = [k \in 1..StreamSize |-> Junk]]

\* write in the handler, where nothing comes in between.
Write(s, c) ==
    LET room == IF StreamFull(s.pos) THEN Flushed(s) ELSE s
        done == IF room.pos >= StreamSize THEN [room EXCEPT !.spilled = TRUE]
                ELSE [room EXCEPT !.cells[room.pos + 1] = c, !.pos = @ + 1]
    IN  IF c = EndOfLine THEN Flushed(done) ELSE done

\* Bug: the message without its end of line.
MutNmiText == <<Letter>>

NmiText == <<Letter, EndOfLine>>

Nmi ==
    LET written[k \in 0..Len(NmiText)] ==
            IF k = 0 THEN [pos |-> pos, cells |-> cells, spilled |-> spilled]
            ELSE Write(written[k - 1], NmiText[k])
        s == written[Len(NmiText)]
    IN  /\ pos' = s.pos /\ cells' = SeenAll(s.cells, FALSE) /\ spilled' = s.spilled
        /\ alone' = FALSE /\ owed' = <<>>
        /\ line' = [line EXCEPT !.text = SeenAll(@, FALSE)]

Template(pieces) == FlattenSeq([i \in DOMAIN pieces |-> Chars(pieces[i])])

PrintMessage(pieces, args, ln) ==
    LET end == IF ln THEN <<EndOfLine>> ELSE <<>>
    IN  /\ line.step = "idle"
        /\ line' = [Idle EXCEPT !.step = "test", !.ln = ln,
                                !.text = SeenAll(FormatTo(Template(pieces), args) \o end, alone)]
        /\ owed' = IF alone THEN owed \o Message(pieces, args) \o end ELSE <<>>
        /\ UNCHANGED <<pos, cells, alone, spilled>>

\* if (i == sizeof(buffer)): the end of the text, too.
Test ==
    /\ line.step = "test"
    /\ line' = IF line.text = <<>>
               THEN IF line.ln THEN [line EXCEPT !.step = "flush", !.then = "idle", !.ln = FALSE]
                    ELSE Idle
               ELSE IF StreamFull(pos) THEN [line EXCEPT !.step = "flush", !.then = "load"]
               ELSE [line EXCEPT !.step = "load"]
    /\ UNCHANGED <<pos, cells, owed, alone, spilled>>

\* buffer[i++] = c: the stores come in any order.
Load ==
    /\ line.step = "load"
    /\ \E step \in {"cell first", "index first"} : line' = [line EXCEPT !.step = step, !.at = pos]
    /\ UNCHANGED <<pos, cells, owed, alone, spilled>>

StoreCell ==
    /\ line.step \in {"cell first", "cell last"}
    /\ IF line.at >= StreamSize THEN spilled' = TRUE /\ UNCHANGED cells
       ELSE cells' = [cells EXCEPT ![line.at + 1] = line.text[1]] /\ UNCHANGED spilled
    /\ line' = [line EXCEPT !.step = IF @ = "cell first" THEN "index last" ELSE "stored"]
    /\ UNCHANGED <<pos, owed, alone>>

StoreIndex ==
    /\ line.step \in {"index first", "index last"}
    /\ pos' = line.at + 1
    /\ line' = [line EXCEPT !.step = IF @ = "index first" THEN "cell last" ELSE "stored"]
    /\ UNCHANGED <<cells, owed, alone, spilled>>

\* if (c == '\n') flush().
Stored ==
    /\ line.step = "stored"
    /\ line' = [line EXCEPT !.text = Tail(@), !.at = 0, !.then = "test",
                            !.step = IF Head(line.text) = EndOfLine THEN "flush" ELSE "test"]
    /\ UNCHANGED <<pos, cells, owed, alone, spilled>>

\* flush: the call of write_str takes the buffer and i.
Flush ==
    /\ line.step = "flush"
    /\ line' = [line EXCEPT !.step = "put", !.n = pos, !.at = 0]
    /\ UNCHANGED <<pos, cells, owed, alone, spilled>>

\* write_str: a character at a time.  One that is not the next to come is noted as such.
Put ==
    /\ line.step = "put" /\ line.at < line.n
    /\ line' = [line EXCEPT !.at = @ + 1]
    /\ owed' = IF ~alone THEN <<>>
               ELSE IF owed # <<>> /\ cells[line.at + 1] = Head(owed) THEN Tail(owed)
               ELSE <<Junk>>
    /\ UNCHANGED <<pos, cells, alone, spilled>>

\* i = 0.  What is in the buffer is of no use any more, and not told apart.
Reset ==
    /\ line.step = "put" /\ line.at >= line.n
    /\ pos' = 0 /\ cells' = [k \in 1..StreamSize |-> Junk]
    /\ line' = IF line.then = "idle" THEN Idle ELSE [line EXCEPT !.step = line.then, !.at = 0, !.n = 0]
    /\ UNCHANGED <<owed, alone, spilled>>

ArgLists == {<<>>} \cup {<<a>> : a \in Args} \cup {<<a, b>> : a, b \in Args}

LogInit ==
    /\ pos = 0 /\ cells = [k \in 1..StreamSize |-> Junk]
    /\ line = Idle /\ owed = <<>> /\ alone = TRUE /\ spilled = FALSE

LogNext ==
    \/ \E pieces \in Templates, args \in ArgLists, ln \in BOOLEAN : PrintMessage(pieces, args, ln)
    \/ Test \/ Load \/ StoreCell \/ StoreIndex \/ Stored \/ Flush \/ Put \/ Reset
    \/ Nmi

LogSpec == LogInit /\ [][LogNext]_logVars

-----------------------------------------------------------------------------
(* Properties.                                                             *)

LogTypeOK ==
    /\ pos \in 0..StreamSize
    /\ DOMAIN cells = 1..StreamSize
    /\ alone \in BOOLEAN

\* format_to writes what the message should say, in printable characters.
Glyph == ToSet(Digit) \cup {"%", "d", "x", "b", "s", "-", Letter}
FormatsAsMeant ==
    \A pieces \in Templates, args \in ArgLists :
        /\ FormatTo(Template(pieces), args) = Message(pieces, args)
        /\ Message(pieces, args) \in Seq(Glyph)

\* BufferStream never writes outside its buffer, whenever interrupts come; and, until one comes,
\* the characters come out as the messages say, each once and in order, and a line is not kept.
LogIsWhole ==
    /\ FormatsAsMeant
    /\ ~spilled
    /\ line.step = "idle" /\ alone => /\ owed = SubSeq(cells, 1, pos)
                                      /\ EndOfLine \notin ToSet(owed)
    /\ Junk \notin ToSet(owed)
=============================================================================
