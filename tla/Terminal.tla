----------------------------- MODULE Terminal ------------------------------
(***************************************************************************)
(* The text terminal (kernel/system/terminal.cpp), the log that writes on  *)
(* it and on port 0xE9 (system/logging.cpp), IrqLock, and the keyboard     *)
(* interrupt (drivers/ps2keyboard.cpp), which writes on it too, without    *)
(* asking what the code it interrupts was doing.                           *)
(*                                                                         *)
(* The kernel's steps are the loads and stores of the cursor, in source    *)
(* order.  The handler is behind an interrupt gate: it runs to its end.    *)
(*                                                                         *)
(* Positions are counted in character cells: a row is fontHeight pixel     *)
(* lines, a column fontWidth pixels.                                       *)
(***************************************************************************)
EXTENDS Integers, Sequences, SequencesExt

CONSTANTS
    Rows, Cols,   \* the whole cells of the frame buffer: height / fontHeight, pitch / fontWidth
    Wrap,         \* the cursor's u32, in rows: row -1 is row Wrap - 1
    Chars,        \* printable characters
    Newline,
    Texts,        \* what the kernel prints: literals, and numbers it formats first
    KeyTexts,     \* what the keyboard handler prints: the same
    MaxTexts,     \* bound: how many texts the kernel prints
    MaxKeys       \* bound: how many keys are hit

Row == 0..Rows - 1
Col == 0..Cols - 1
Text == [kind : {"literal", "number"}, chars : Seq(Chars \cup {Newline})]

ASSUME TerminalAssumption ==
    /\ Rows \in Nat \ {0}
    /\ Cols \in Nat \ {0, 1}
    /\ Wrap \in Nat /\ Wrap > Rows + 2
    /\ Newline \notin Chars
    /\ Texts # {} /\ Texts \subseteq Text /\ KeyTexts \subseteq Text
    /\ \A t \in Texts : t.chars # <<>>
    /\ MaxTexts \in Nat /\ MaxKeys \in Nat

VARIABLES
    term,     \* x, y: the cursor; screen: the cells; spare: 1 when fontHeight does not divide
              \* the height, otherwise 0; fault: a pointer left the frame buffer
    buffer,   \* outStream.buffer, where numbers are formatted
    port,     \* the characters on port 0xE9 since the kernel's print_e9 has the lock
    cpu,      \* if: interrupts enabled; saved: the irqCtx of the IrqLocks held, innermost first
    kbd,      \* unmasked: at the PIC; pending: requests service; hits: keys so far
    kernel,   \* the kernel's program counter and locals
    told,     \* history: the last lines of what the kernel has printed
    quiet     \* history: no interrupt was served yet

vars == <<term, buffer, port, cpu, kbd, kernel, told, quiet>>

-----------------------------------------------------------------------------
(* Pieces of parse_char, from one terminal to the next.                    *)

Blank == "blank"

\* Bug: asks a row too late.
MutFull(t) == t.y > Rows

Full(t) == t.y + 1 > Rows

\* copy_overlapped to the first row, from the second up to the row after the cursor's.
\* It never meets its end when the cursor is outside.
CopyUp(t) ==
    IF t.y \notin Row THEN [t EXCEPT !.fault = TRUE]
    ELSE [t EXCEPT !.screen = [r \in Row |-> IF r < t.y THEN t.screen[r + 1] ELSE t.screen[r]]]

\* Bug: the cursor stays in its column.
MutClearRest(t) ==
    IF t.y > Rows THEN [t EXCEPT !.fault = TRUE]
    ELSE [t EXCEPT !.screen = [r \in Row |-> IF r < t.y THEN t.screen[r]
                                             ELSE [c \in Col |-> Blank]]]

\* at.x = 0, and set_range from the cursor's row to the end.
ClearRest(t) ==
    IF t.y > Rows THEN [t EXCEPT !.x = 0, !.fault = TRUE]
    ELSE [t EXCEPT !.x = 0,
                   !.screen = [r \in Row |-> IF r < t.y THEN t.screen[r]
                                             ELSE [c \in Col |-> Blank]]]

WriteChar(t, c, x, y) ==
    IF x \in Col /\ y \in Row THEN [t EXCEPT !.screen[y][x] = c]
    ELSE [t EXCEPT !.fault = TRUE]

\* Bug: a signed row.
MutUp(t) == [t EXCEPT !.y = @ - 1]

Up(t)    == [t EXCEPT !.y = (@ - 1) % Wrap]
Down(t)  == [t EXCEPT !.y = (@ + 1) % Wrap]
Right(t) == [t EXCEPT !.x = @ + 1]
Left(t)  == [t EXCEPT !.x = 0]
NextRow(t, row) == [t EXCEPT !.y = row, !.x = 0]

ExecNewline(t) == ClearRest(CopyUp(t))
IsLast(t, row) == row + 1 >= Rows + t.spare
AtEnd(t) == t.x + 1 >= Cols

\* The whole of parse_char, for the handler.
ParseChar(t, c) ==
    LET a == IF Full(t) THEN ExecNewline(Up(t)) ELSE t
        b == CASE c = Newline /\ IsLast(a, a.y) -> ExecNewline(a)
               [] c = Newline /\ ~IsLast(a, a.y) -> NextRow(a, a.y + 1)
               [] OTHER -> Right(WriteChar(a, c, a.x, a.y))
    IN  IF t.fault THEN t ELSE IF AtEnd(b) THEN Left(Down(b)) ELSE b

WriteStr(t, s) ==
    LET after[k \in 0..Len(s)] == IF k = 0 THEN t ELSE ParseChar(after[k - 1], s[k])
    IN  after[Len(s)]
ClearScreen(t) ==
    [t EXCEPT !.x = 0, !.y = 0, !.screen = [r \in Row |-> [c \in Col |-> Blank]]]

\* A reference definition: the lines a text makes, a full line ending by itself, of
\* which the last Rows + 1 are kept.
Tell(lines, c) ==
    LET last == Append(Last(lines), c)
        all == IF c = Newline THEN Append(lines, <<>>)
               ELSE IF Len(last) = Cols - 1 THEN Front(lines) \o <<last, <<>>>>
               ELSE Front(lines) \o <<last>>
    IN  SubSeq(all, IF Len(all) > Rows + 1 THEN 2 ELSE 1, Len(all))

-----------------------------------------------------------------------------
(* IrqLock, and the end of scoped_lock.                                    *)

\* Bug: interrupts stay on.
MutLock(c) == [if |-> c.if, saved |-> <<c.if>> \o c.saved]

\* Bug: the flags are saved when interrupts are off already.
MutLateSave(c) == [if |-> FALSE, saved |-> <<FALSE>> \o c.saved]

\* Bug: turns interrupts on whatever they were.
MutUnlock(c) == [if |-> TRUE, saved |-> Tail(c.saved)]

Lock(c)   == [if |-> FALSE, saved |-> <<c.if>> \o c.saved]
Unlock(c) == [if |-> Head(c.saved), saved |-> Tail(c.saved)]

-----------------------------------------------------------------------------
(* The kernel: boot, texts it prints, and memdealloc, which prints one with *)
(* its own lock held.                                                      *)

Format(old, chars) == chars \o SubSeq(old, Len(chars) + 1, Len(old))

Init ==
    /\ term \in [x : {0}, y : {0}, spare : {0, 1}, fault : {FALSE},
                screen : {[r \in Row |-> [c \in Col |-> "boot"]]}]
    /\ buffer = <<>>
    /\ port = <<>>
    /\ cpu = [if |-> FALSE, saved |-> <<>>]
    /\ kbd = [unmasked |-> FALSE, pending |-> FALSE, hits |-> 0]
    /\ kernel = [pc |-> "idle", stage |-> "boot", text |-> CHOOSE t \in Texts : TRUE,
                 pos |-> 1, x |-> 0, y |-> 0, then |-> "idle", printed |-> 0]
    /\ told = <<<<>>>>
    /\ quiet = TRUE

At(pc) == kernel.pc = pc /\ ~term.fault
GoTo(pc) == kernel' = [kernel EXCEPT !.pc = pc]

\* The next character: of the literal, or whatever the buffer holds by now.
NextChar == IF kernel.text.kind = "number" THEN buffer[kernel.pos]
            ELSE kernel.text.chars[kernel.pos]
Done == kernel.pos > Len(kernel.text.chars)

\* init_keyboard, then the start of interrupts after all drivers.
InitKeyboard ==
    /\ At("idle") /\ kernel.stage = "boot"
    /\ kbd' = [kbd EXCEPT !.unmasked = TRUE]
    /\ kernel' = [kernel EXCEPT !.stage = "drivers"]
    /\ UNCHANGED <<term, buffer, port, cpu, told, quiet>>

StartIrq ==
    /\ At("idle") /\ kernel.stage = "drivers"
    /\ cpu' = [cpu EXCEPT !.if = TRUE]
    /\ kernel' = [kernel EXCEPT !.stage = "running"]
    /\ UNCHANGED <<term, buffer, port, kbd, told, quiet>>

\* A log statement; a number is formatted into the stream's buffer first.
Say(text) ==
    /\ At("idle")
    /\ kernel.printed < MaxTexts
    /\ buffer' = IF text.kind = "number" THEN Format(buffer, text.chars) ELSE buffer
    /\ kernel' = [kernel EXCEPT !.pc = "next", !.text = text, !.pos = 1, !.printed = @ + 1]
    /\ UNCHANGED <<term, port, kbd, told, quiet>>

Log(text) == Say(text) /\ UNCHANGED cpu

\* memdealloc of an address the heap does not know logs it under the lock.
FreeFails(text) == Say(text) /\ cpu' = Lock(cpu)

HeapUnlock ==
    /\ At("unlock")
    /\ cpu' = Unlock(cpu)
    /\ GoTo("idle")
    /\ UNCHANGED <<term, buffer, port, kbd, told, quiet>>

\* write_str: the next character, or print_e9.
NextOrPort ==
    /\ At("next")
    /\ GoTo(IF Done THEN "lock" ELSE IF Full(term) THEN "up" ELSE "switch")
    /\ UNCHANGED <<term, buffer, port, cpu, kbd, told, quiet>>

\* A step on the terminal, after which the kernel is at pc.
Change(from, result, pc) ==
    /\ At(from)
    /\ term' = result
    /\ GoTo(pc)
    /\ UNCHANGED <<buffer, port, cpu, kbd, told, quiet>>

ScrollUp    == At("up")    /\ term' = Up(term)
               /\ kernel' = [kernel EXCEPT !.pc = "copy", !.then = "switch"]
               /\ UNCHANGED <<buffer, port, cpu, kbd, told, quiet>>
ScrollCopy  == Change("copy", CopyUp(term), "clear")
ScrollClear == Change("clear", ClearRest(term), kernel.then)

\* The switch of parse_char reads the cursor; what it read is used later.
Switch ==
    /\ At("switch")
    /\ kernel' = IF NextChar # Newline
                 THEN [kernel EXCEPT !.pc = "draw", !.x = term.x, !.y = term.y]
                 ELSE IF IsLast(term, term.y)
                 THEN [kernel EXCEPT !.pc = "copy", !.then = "wrap"]
                 ELSE [kernel EXCEPT !.pc = "newline", !.y = (term.y + 1) % Wrap]
    /\ UNCHANGED <<term, buffer, port, cpu, kbd, told, quiet>>

NewlineStore == Change("newline", NextRow(term, kernel.y), "wrap")
Draw         == Change("draw", WriteChar(term, NextChar, kernel.x, kernel.y), "right")
Advance      == Change("right", Right(term), "wrap")

\* Should the cursor jump to the next line?  Then the character is dealt with.
WrapTest ==
    /\ At("wrap")
    /\ kernel' = IF AtEnd(term) THEN [kernel EXCEPT !.pc = "down"]
                 ELSE [kernel EXCEPT !.pc = "next", !.pos = @ + 1]
    /\ told' = Tell(told, kernel.text.chars[kernel.pos])
    /\ UNCHANGED <<term, buffer, port, cpu, kbd, quiet>>

WrapDown == Change("down", Down(term), "left")

WrapLeft ==
    /\ At("left")
    /\ term' = Left(term)
    /\ kernel' = [kernel EXCEPT !.pc = "next", !.pos = @ + 1]
    /\ UNCHANGED <<buffer, port, cpu, kbd, told, quiet>>

\* print_e9: the whole string with interrupts off.
PortLock ==
    /\ At("lock")
    /\ cpu' = Lock(cpu)
    /\ port' = <<>>
    /\ kernel' = [kernel EXCEPT !.pc = "port", !.pos = 1]
    /\ UNCHANGED <<term, buffer, kbd, told, quiet>>

PortWrite ==
    /\ At("port") /\ ~Done
    /\ port' = Append(port, NextChar)
    /\ kernel' = [kernel EXCEPT !.pos = @ + 1]
    /\ UNCHANGED <<term, buffer, cpu, kbd, told, quiet>>

PortUnlock ==
    /\ At("port") /\ Done
    /\ cpu' = Unlock(cpu)
    /\ port' = <<>>
    /\ GoTo(IF Tail(cpu.saved) = <<>> THEN "idle" ELSE "unlock")
    /\ UNCHANGED <<term, buffer, kbd, told, quiet>>

-----------------------------------------------------------------------------
(* The keyboard.                                                           *)

KeyHit ==
    /\ kbd.hits < MaxKeys
    /\ ~kbd.pending
    /\ kbd' = [kbd EXCEPT !.pending = TRUE, !.hits = @ + 1]
    /\ UNCHANGED <<term, buffer, port, cpu, kernel, told, quiet>>

\* kbd_handler, by the key's scan code: clear the screen or print something.
Serve ==
    /\ kbd.pending /\ kbd.unmasked /\ cpu.if
    /\ ~term.fault
    /\ kbd' = [kbd EXCEPT !.pending = FALSE]
    /\ quiet' = FALSE
    /\ \/ /\ term' = ClearScreen(term)
          /\ UNCHANGED <<buffer, port>>
       \/ \E text \in KeyTexts :
             /\ term' = WriteStr(term, text.chars)
             /\ buffer' = IF text.kind = "number" THEN Format(buffer, text.chars) ELSE buffer
             /\ port' = port \o text.chars
    /\ UNCHANGED <<cpu, kernel, told>>

Step == NextOrPort \/ ScrollUp \/ ScrollCopy \/ ScrollClear \/ Switch \/ NewlineStore \/ Draw
           \/ Advance \/ WrapTest \/ WrapDown \/ WrapLeft \/ PortLock \/ PortWrite
           \/ PortUnlock \/ HeapUnlock

Next ==
    \/ Step
    \/ InitKeyboard \/ StartIrq
    \/ \E text \in Texts : Log(text) \/ FreeFails(text)
    \/ KeyHit \/ Serve

\* The processor goes on, and takes a pending interrupt as soon as it may.
Spec == Init /\ [][Next]_vars /\ WF_vars(Step) /\ SF_vars(Serve)

-----------------------------------------------------------------------------
TypeOK ==
    /\ term \in [x : Nat, y : 0..Wrap - 1, spare : {0, 1}, fault : BOOLEAN,
                 screen : [Row -> [Col -> Chars \cup {Newline, Blank, "boot"}]]]
    /\ buffer \in Seq(Chars \cup {Newline})
    /\ port \in Seq(Chars \cup {Newline})
    /\ cpu.if \in BOOLEAN /\ cpu.saved \in Seq(BOOLEAN) /\ Len(cpu.saved) <= 2
    /\ kbd \in [unmasked : BOOLEAN, pending : BOOLEAN, hits : 0..MaxKeys]
    /\ kernel.stage \in {"boot", "drivers", "running"}
    /\ kernel.text \in Texts
    /\ quiet \in BOOLEAN

\* No pointer parse_char computes leaves the frame buffer: it scrolls "incase
\* next write would overflow".  With interrupts this is false.
DrawsInside == ~term.fault

\* It is true of the kernel alone, whatever it prints, wherever lines end.
DrawsInsideAlone == quiet => ~term.fault

\* Until an interrupt writes too, the screen shows the last lines of what was
\* printed, one per row down to the cursor: no scroll is early, late or forgotten.
ShowsTail ==
    quiet /\ kernel.pc \in {"next", "idle", "lock", "port", "unlock"} =>
        LET top == Len(told) - term.y - 1 IN
        /\ top >= 0
        /\ Len(Last(told)) = term.x
        /\ \A r \in 0..term.y :
              LET line == told[top + r + 1]
              IN  \A c \in 1..Len(line) : term.screen[r][c - 1] = line[c]

\* What the kernel sends to port 0xE9 under the lock is not mixed with what a
\* handler sends, and a literal arrives as it is.
PortWhole ==
    kernel.pc = "port" =>
        /\ Len(port) = kernel.pos - 1
        /\ kernel.text.kind = "literal" \/ quiet => IsPrefix(port, kernel.text.chars)

\* Locks nest: between statements interrupts are on exactly when the kernel has started
\* them, so none comes during boot and none is left off after a nested lock.
InterruptsAsBefore ==
    /\ kernel.pc = "idle" => cpu.saved = <<>> /\ (cpu.if <=> kernel.stage = "running")
    /\ kernel.stage # "running" => quiet

\* A key that is hit once interrupts are started is served, unless the kernel crashes.
KeysAreServed == kbd.pending /\ kernel.stage = "running" ~> ~kbd.pending \/ term.fault
=============================================================================
