-------------------------- MODULE TerminalProofs ---------------------------
(***************************************************************************)
(* Terminal, for every screen and every set of texts: locks nest, and give *)
(* interrupts back as they were; alone it draws inside its frame buffer;   *)
(* what it sends to the port arrives whole; its variables have their types.*)
(***************************************************************************)
EXTENDS Terminal, SequenceTheorems, NaturalsInduction, WellFoundedInduction, TLAPS

Started == kernel.stage = "running"

\* The kernel's locals are a record with these fields, whatever they hold.
KernelFields == {"pc", "stage", "text", "pos", "x", "y", "then", "printed"}
KernelIsRecord == DOMAIN kernel = KernelFields

\* exec_newline goes back to where parse_char called it.
ReturnsInside == kernel.pc \in {"copy", "clear"} => kernel.then \in {"switch", "wrap"}

CpuType == cpu.if \in BOOLEAN /\ cpu.saved \in Seq(BOOLEAN)

\* The three ways locks are held, with what they have saved: none, one, and print_e9's on
\* top of memdealloc's.
NoLock   == cpu.saved = <<>> /\ (cpu.if <=> Started)
OneLock  == Len(cpu.saved) = 1 /\ ~cpu.if /\ (cpu.saved[1] <=> Started)
TwoLocks == Len(cpu.saved) = 2 /\ ~cpu.if /\ ~cpu.saved[1] /\ (cpu.saved[2] <=> Started)

\* Which of them, by where the kernel is.
HeldLocks ==
    /\ kernel.pc = "idle" => NoLock
    /\ kernel.pc = "unlock" => OneLock
    /\ kernel.pc = "port" => OneLock \/ TwoLocks
    /\ kernel.pc \notin {"idle", "unlock", "port"} => NoLock \/ OneLock

LocksInv == KernelIsRecord /\ CpuType /\ ReturnsInside /\ HeldLocks /\ (Started \/ quiet)

LEMMA NotEmpty == \A s : Len(s) = 1 => s # <<>>
  OBVIOUS

\* IrqLock::lock puts the interrupt flag on top of what is saved.
LEMMA LockLemma ==
    ASSUME NEW b \in BOOLEAN, NEW s \in Seq(BOOLEAN)
    PROVE  /\ <<b>> \o s \in Seq(BOOLEAN)
           /\ Len(<<b>> \o s) = Len(s) + 1
           /\ (<<b>> \o s)[1] <=> b
           /\ Len(s) = 1 => ((<<b>> \o s)[2] <=> s[1])
OBVIOUS

\* IrqLock::unlock takes it back from there.
LEMMA UnlockLemma ==
    ASSUME NEW c, c.saved \in Seq(BOOLEAN), c.saved # <<>>
    PROVE  LET d == Unlock(c) IN
           /\ d.if = c.saved[1]
           /\ d.if \in BOOLEAN
           /\ d.saved \in Seq(BOOLEAN)
           /\ Len(d.saved) = Len(c.saved) - 1
           /\ \A i \in 1..Len(d.saved) : d.saved[i] <=> c.saved[i + 1]
           /\ Len(c.saved) = 2 => (d.saved[1] <=> c.saved[2])
<1> DEFINE s == c.saved
<1>1. s \in Seq(BOOLEAN) /\ s # <<>>
  OBVIOUS
<1>2. Len(s) \in Nat /\ Len(s) >= 1
  <2> HIDE DEF s
  <2> QED
    BY <1>1, EmptySeq
<1>3. /\ Head(s) = s[1]
      /\ s[1] \in BOOLEAN
      /\ Tail(s) \in Seq(BOOLEAN)
      /\ Len(Tail(s)) = Len(s) - 1
      /\ \A i \in 1..Len(Tail(s)) : Tail(s)[i] = s[i + 1]
  <2> HIDE DEF s
  <2> QED
    BY <1>1, <1>2, HeadTailProperties
<1>4. Unlock(c).if = Head(s) /\ Unlock(c).saved = Tail(s)
  BY DEF Unlock
<1> QED
  BY <1>3, <1>4

\* Before anything runs no lock is held and interrupts are off.
LEMMA LocksInit == Init => LocksInv
BY DEF Init, LocksInv, KernelIsRecord, KernelFields, ReturnsInside, HeldLocks, CpuType, NoLock, Started

\* A step that moves the kernel between two places of parse_char, and leaves
\* the processor and the boot stage alone, keeps the locks as they are.
LEMMA PlainStep ==
    ASSUME LocksInv, UNCHANGED <<cpu, quiet>>,
           kernel.pc \notin {"idle", "unlock", "port"},
           NEW pc, pc \notin {"idle", "unlock", "port"},
           kernel'.pc = pc, kernel'.stage = kernel.stage,
           KernelIsRecord', ReturnsInside'
    PROVE  LocksInv'
BY DEF LocksInv, CpuType, HeldLocks, NoLock, OneLock, Started

\* The steps of parse_char and of the loop around it.
LEMMA PrintSteps ==
    ASSUME LocksInv,
           NextOrPort \/ ScrollUp \/ ScrollCopy \/ ScrollClear \/ Switch \/ NewlineStore
              \/ Draw \/ Advance \/ WrapTest \/ WrapDown \/ WrapLeft
    PROVE  LocksInv'
<1> USE DEF LocksInv, KernelIsRecord, KernelFields, ReturnsInside, At, GoTo, Change
<1>1. CASE NextOrPort
  BY <1>1, PlainStep DEF NextOrPort
<1>2. CASE ScrollUp
  BY <1>2, PlainStep DEF ScrollUp
<1>3. CASE ScrollCopy
  BY <1>3, PlainStep DEF ScrollCopy
<1>4. CASE ScrollClear
  BY <1>4, PlainStep DEF ScrollClear
<1>5. CASE Switch
  BY <1>5, PlainStep DEF Switch
<1>6. CASE NewlineStore
  BY <1>6, PlainStep DEF NewlineStore
<1>7. CASE Draw
  BY <1>7, PlainStep DEF Draw
<1>8. CASE Advance
  BY <1>8, PlainStep DEF Advance
<1>9. CASE WrapTest
  BY <1>9, PlainStep DEF WrapTest
<1>10. CASE WrapDown
  BY <1>10, PlainStep DEF WrapDown
<1>11. CASE WrapLeft
  BY <1>11, PlainStep DEF WrapLeft
<1> QED
  BY <1>1, <1>2, <1>3, <1>4, <1>5, <1>6, <1>7, <1>8, <1>9, <1>10, <1>11

\* Taking and releasing the two locks.
LEMMA LockSteps ==
    ASSUME LocksInv, PortLock \/ PortWrite \/ PortUnlock \/ HeapUnlock
    PROVE  LocksInv'
<1> USE DEF LocksInv, KernelIsRecord, KernelFields, CpuType, ReturnsInside, HeldLocks,
            NoLock, OneLock, TwoLocks, Started, At, GoTo
<1>1. CASE PortLock
  BY <1>1 DEF PortLock, Lock
<1>2. CASE PortWrite
  BY <1>2 DEF PortWrite
<1>3. CASE PortUnlock
  <2>1. /\ cpu' = Unlock(cpu)
        /\ kernel' = [kernel EXCEPT !.pc = IF Tail(cpu.saved) = <<>> THEN "idle" ELSE "unlock"]
        /\ quiet' = quiet
    BY <1>3 DEF PortUnlock
  <2>2. cpu.saved # <<>> /\ (OneLock \/ TwoLocks)
    BY <1>3 DEF PortUnlock
  <2>3. CpuType'
    BY <2>1, <2>2, UnlockLemma
  <2>4. CASE OneLock
    <3>1. Len(Unlock(cpu).saved) = 0 /\ Unlock(cpu).saved \in Seq(BOOLEAN)
      BY <2>2, <2>4, UnlockLemma
    <3>2. cpu'.saved = <<>> /\ Tail(cpu.saved) = <<>>
      BY <2>1, <3>1, EmptySeq DEF Unlock
    <3>3. cpu'.if <=> Started
      BY <2>1, <2>2, <2>4, UnlockLemma
    <3> QED
      BY <2>1, <2>3, <3>2, <3>3
  <2>5. CASE TwoLocks
    <3>0. Len(Unlock(cpu).saved) = 1
      <4>1. cpu.saved \in Seq(BOOLEAN) /\ cpu.saved # <<>> /\ Len(cpu.saved) = 2
        BY <2>2, <2>5
      <4> HIDE DEF LocksInv, CpuType, HeldLocks, NoLock, OneLock, TwoLocks, At, GoTo
      <4>2. Len(Unlock(cpu).saved) = Len(cpu.saved) - 1
        BY <4>1, UnlockLemma
      <4> QED
        BY <4>1, <4>2
    <3>1. Len(cpu'.saved) = 1
      BY <2>1, <3>0
    <3>2. cpu'.saved[1] <=> Started
      BY <2>1, <2>2, <2>5, <3>1, UnlockLemma
    <3>3. ~cpu'.if
      BY <2>1, <2>2, <2>5, UnlockLemma
    <3>4. cpu'.saved = Tail(cpu.saved)
      BY <2>1 DEF Unlock
    <3>5. Tail(cpu.saved) # <<>>
      BY <3>1, <3>4, NotEmpty
    <3> QED
      BY <2>1, <2>3, <2>5, <3>1, <3>2, <3>3, <3>5
  <2> QED
    BY <2>2, <2>4, <2>5
<1>4. CASE HeapUnlock
  <2>1. /\ cpu' = Unlock(cpu)
        /\ kernel' = [kernel EXCEPT !.pc = "idle"]
        /\ quiet' = quiet
        /\ OneLock /\ cpu.saved # <<>>
    BY <1>4 DEF HeapUnlock
  <2>2. CpuType' /\ Len(cpu'.saved) = 0 /\ (cpu'.if <=> Started)
    BY <2>1, UnlockLemma
  <2>3. cpu'.saved = <<>>
    BY <2>2, EmptySeq
  <2> QED
    BY <2>1, <2>2, <2>3
<1> QED
  BY <1>1, <1>2, <1>3, <1>4

\* What starts between statements, and what the keyboard does.
LEMMA OtherSteps ==
    ASSUME LocksInv,
           \/ InitKeyboard \/ StartIrq \/ KeyHit \/ Serve
           \/ \E text \in Texts : Log(text) \/ FreeFails(text)
    PROVE  LocksInv'
<1> USE DEF LocksInv, KernelIsRecord, KernelFields, CpuType, ReturnsInside, HeldLocks,
            NoLock, OneLock, TwoLocks, Started, At, GoTo
<1>1. CASE InitKeyboard
  BY <1>1 DEF InitKeyboard
<1>2. CASE StartIrq
  BY <1>2 DEF StartIrq
<1>3. CASE KeyHit
  BY <1>3 DEF KeyHit
<1>4. CASE Serve
  BY <1>4 DEF Serve
<1>5. ASSUME NEW text \in Texts, Log(text)
      PROVE  LocksInv'
  BY <1>5 DEF Log, Say
<1>6. ASSUME NEW text \in Texts, FreeFails(text)
      PROVE  LocksInv'
  <2>1. /\ NoLock
        /\ cpu' = Lock(cpu)
        /\ kernel' = [kernel EXCEPT !.pc = "next", !.text = text, !.pos = 1, !.printed = @ + 1]
        /\ quiet' = quiet
    BY <1>6 DEF FreeFails, Say
  <2>2. /\ cpu'.if = FALSE /\ cpu'.saved \in Seq(BOOLEAN)
        /\ Len(cpu'.saved) = 1 /\ (cpu'.saved[1] <=> cpu.if)
    <3>1. cpu.if \in BOOLEAN /\ cpu.saved \in Seq(BOOLEAN) /\ Len(cpu.saved) = 0
      BY <2>1, EmptySeq
    <3>2. cpu'.if = FALSE /\ cpu'.saved = <<cpu.if>> \o cpu.saved
      BY <2>1 DEF Lock
    <3> QED
      BY <3>1, <3>2, LockLemma
  <2> QED
    BY <2>1, <2>2
<1> QED
  BY <1>1, <1>2, <1>3, <1>4, <1>5, <1>6

\* Every step keeps the locks.
LEMMA LocksKept == LocksInv /\ [Next]_vars => LocksInv'
<1> SUFFICES ASSUME LocksInv, [Next]_vars PROVE LocksInv'
  OBVIOUS
<1>1. CASE Next
  BY <1>1, PrintSteps, LockSteps, OtherSteps DEF Next, Step
<1>2. CASE UNCHANGED vars
  BY <1>2 DEF vars, LocksInv, KernelIsRecord, CpuType, ReturnsInside, HeldLocks,
             NoLock, OneLock, TwoLocks, Started
<1> QED
  BY <1>1, <1>2

\* Interrupts are on exactly when the kernel has started them, in every state
\* between two statements, and none is served before: whatever the kernel
\* prints, however often it is interrupted (IrqLock, print_e9, memdealloc).
THEOREM LocksRestore == Spec => []InterruptsAsBefore
<1>1. LocksInv => InterruptsAsBefore
  BY DEF LocksInv, HeldLocks, NoLock, Started, InterruptsAsBefore
<1> QED
  BY LocksInit, LocksKept, <1>1, PTL DEF Spec

-----------------------------------------------------------------------------
(* The frame buffer and the port.                                        *)

TermFields == {"x", "y", "spare", "fault", "screen"}

\* The cursor is somewhere in the first rows, with this many columns to its right.
Cursor(rows, free) == term.y \in 0..rows /\ term.x \in 0..Cols - 1 - free

\* Between two characters the cursor may be one row past the screen, which the next
\* character scrolls away.
BetweenCharacters ==
    kernel.pc \in {"idle", "next", "lock", "port", "unlock"} => Cursor(Rows, 1)

\* Where parse_char scrolls, and after it has.
Scrolling ==
    /\ kernel.pc = "up" => term.y = Rows /\ Cursor(Rows, 1)
    /\ kernel.pc \in {"copy", "clear"} => Cursor(Rows - 1, 1) /\ kernel.then \in {"switch", "wrap"}
    /\ kernel.pc = "switch" => Cursor(Rows - 1, 1)

\* What its switch keeps of the cursor is still true when it is used.
Drawing ==
    /\ kernel.pc = "draw" => Cursor(Rows - 1, 1) /\ kernel.x = term.x /\ kernel.y = term.y
    /\ kernel.pc = "right" => Cursor(Rows - 1, 1)
    /\ kernel.pc = "newline" => Cursor(Rows - 1, 1) /\ kernel.y \in 0..Rows

\* A line is only ended by its last column in a row of the screen.
Wrapping ==
    /\ kernel.pc = "wrap" => Cursor(Rows, 0) /\ (term.x = Cols - 1 => term.y # Rows)
    /\ kernel.pc = "down" => Cursor(Rows - 1, 0)
    /\ kernel.pc = "left" => Cursor(Rows, 0)

Places == {"idle", "next", "lock", "port", "unlock", "up", "copy", "clear", "switch", "draw",
           "right", "newline", "wrap", "down", "left"}

Inside ==
    /\ DOMAIN term = TermFields /\ ~term.fault /\ term.spare \in {0, 1} /\ kernel.pc \in Places
    /\ BetweenCharacters /\ Scrolling /\ Drawing /\ Wrapping

AloneInv == KernelIsRecord /\ (quiet => Inside)

LEMMA SmallMod ==
    ASSUME NEW a \in Nat, NEW b \in Nat, a < b
    PROVE  a % b = a
OBVIOUS

\* The row of the cursor is far from where its u32 wraps around.
LEMMA RowsDoNotWrap ==
    /\ \A y \in 0..Rows : (y + 1) % Wrap = y + 1
    /\ \A y \in 1..Rows : (y - 1) % Wrap = y - 1
BY TerminalAssumption, SmallMod

LEMMA InsideInit == Init => AloneInv
<1> SUFFICES ASSUME Init PROVE AloneInv
  OBVIOUS
<1>1. KernelIsRecord /\ DOMAIN term = TermFields
  BY DEF Init, KernelIsRecord, TermFields, KernelFields
<1>2. /\ term.x = 0 /\ term.y = 0 /\ ~term.fault /\ term.spare \in {0, 1}
      /\ kernel.pc = "idle"
  BY DEF Init
<1> QED
  BY <1>1, <1>2, TerminalAssumption
     DEF AloneInv, Inside, Places, BetweenCharacters, Scrolling, Drawing, Wrapping, Cursor

\* The steps of parse_char and of the loop around it.
LEMMA PrintInside ==
    ASSUME AloneInv,
           NextOrPort \/ ScrollUp \/ ScrollCopy \/ ScrollClear \/ Switch \/ NewlineStore
              \/ Draw \/ Advance \/ WrapTest \/ WrapDown \/ WrapLeft
    PROVE  AloneInv'
<1> USE TerminalAssumption
    DEF AloneInv, KernelIsRecord, TermFields, KernelFields, Inside, Places, BetweenCharacters,
        Scrolling, Drawing, Wrapping, Cursor, At, GoTo, Change, Row, Col
<1>1. CASE NextOrPort
  BY <1>1 DEF NextOrPort, Full
<1>2. CASE ScrollUp
  <2>1. quiet => /\ term'.y = Rows - 1 /\ term'.x = term.x
                 /\ DOMAIN term' = TermFields /\ ~term'.fault /\ term'.spare \in {0, 1}
    BY <1>2, RowsDoNotWrap DEF ScrollUp, Up
  <2> QED
    BY <1>2, <2>1 DEF ScrollUp
<1>3. CASE ScrollCopy
  BY <1>3 DEF ScrollCopy, CopyUp
<1>4. CASE ScrollClear
  BY <1>4 DEF ScrollClear, ClearRest
<1>5. CASE Switch
  <2>1. quiet => (term.y + 1) % Wrap = term.y + 1
    BY <1>5, RowsDoNotWrap DEF Switch
  <2> QED
    BY <1>5, <2>1, SMTT(30) DEF Switch, IsLast
<1>6. CASE NewlineStore
  BY <1>6 DEF NewlineStore, NextRow
<1>7. CASE Draw
  BY <1>7 DEF Draw, WriteChar
<1>8. CASE Advance
  BY <1>8 DEF Advance, Right
<1>9. CASE WrapTest
  BY <1>9 DEF WrapTest, AtEnd
<1>10. CASE WrapDown
  <2>1. quiet => term'.y = term.y + 1 /\ term'.x = term.x
    BY <1>10, RowsDoNotWrap DEF WrapDown, Down
  <2> QED
    BY <1>10, <2>1, SMTT(30) DEF WrapDown, Down
<1>11. CASE WrapLeft
  BY <1>11 DEF WrapLeft, Left
<1> QED
  BY <1>1, <1>2, <1>3, <1>4, <1>5, <1>6, <1>7, <1>8, <1>9, <1>10, <1>11

\* The locks, what starts between statements, and the interrupt, after which nothing is said.
LEMMA OtherInside ==
    ASSUME AloneInv,
           \/ PortLock \/ PortWrite \/ PortUnlock \/ HeapUnlock
           \/ InitKeyboard \/ StartIrq \/ KeyHit \/ Serve
           \/ \E text \in Texts : Log(text) \/ FreeFails(text)
    PROVE  AloneInv'
<1> USE DEF AloneInv, KernelIsRecord, TermFields, KernelFields, Inside, Places, BetweenCharacters,
            Scrolling, Drawing, Wrapping, Cursor, At, GoTo
<1>1. CASE PortLock
  BY <1>1 DEF PortLock
<1>2. CASE PortWrite
  BY <1>2 DEF PortWrite
<1>3. CASE PortUnlock
  BY <1>3 DEF PortUnlock
<1>4. CASE HeapUnlock
  BY <1>4 DEF HeapUnlock
<1>5. CASE InitKeyboard \/ StartIrq \/ KeyHit
  BY <1>5 DEF InitKeyboard, StartIrq, KeyHit
<1>6. ASSUME NEW text \in Texts, Log(text) \/ FreeFails(text)
      PROVE  AloneInv'
  <2>1. /\ kernel.pc = "idle" /\ UNCHANGED <<term, quiet>>
        /\ kernel' = [kernel EXCEPT !.pc = "next", !.text = text, !.pos = 1, !.printed = @ + 1]
    BY <1>6 DEF Log, FreeFails, Say
  <2>2. kernel'.pc = "next" /\ KernelIsRecord'
    BY <2>1
  <2> QED
    BY <2>1, <2>2
<1>7. CASE Serve
  BY <1>7 DEF Serve
<1> QED
  BY <1>1, <1>2, <1>3, <1>4, <1>5, <1>6, <1>7

LEMMA AloneKept == AloneInv /\ [Next]_vars => AloneInv'
<1> SUFFICES ASSUME AloneInv, [Next]_vars PROVE AloneInv'
  OBVIOUS
<1>1. CASE Next
  BY <1>1, PrintInside, OtherInside DEF Next, Step
<1>2. CASE UNCHANGED vars
  BY <1>2 DEF vars, AloneInv, KernelIsRecord, Inside, BetweenCharacters, Scrolling, Drawing,
             Wrapping, Cursor
<1> QED
  BY <1>1, <1>2

\* Until an interrupt is served no address leaves the frame buffer, whatever the kernel
\* prints, on a screen of any size: write_str (terminal.cpp) scrolls in time.
THEOREM AloneItDrawsInside == Spec => []DrawsInsideAlone
<1>1. AloneInv => DrawsInsideAlone
  BY DEF AloneInv, Inside, DrawsInsideAlone
<1> QED
  BY InsideInit, AloneKept, <1>1, PTL DEF Spec
-----------------------------------------------------------------------------
(* Port 0xE9.                                                              *)

Character == Chars \cup {Newline}

\* outStream's buffer has all of the number that is being printed, until a handler formats
\* one of its own.
NumberIsThere ==
    kernel.pc \notin {"idle", "unlock"} /\ kernel.text.kind = "number" =>
        /\ Len(kernel.text.chars) <= Len(buffer)
        /\ quiet => \A i \in 1..Len(kernel.text.chars) : buffer[i] = kernel.text.chars[i]

PortSoFar ==
    kernel.pc = "port" =>
        /\ kernel.pos = Len(port) + 1 /\ Len(port) <= Len(kernel.text.chars)
        /\ kernel.text.kind = "literal" \/ quiet =>
              \A i \in 1..Len(port) : port[i] = kernel.text.chars[i]

PortInv ==
    /\ kernel.text \in Texts /\ buffer \in Seq(Character) /\ port \in Seq(Character)
    /\ NumberIsThere /\ PortSoFar

LEMMA FormatLemma ==
    ASSUME NEW old \in Seq(Character), NEW chars \in Seq(Character)
    PROVE  /\ Format(old, chars) \in Seq(Character)
           /\ Len(old) <= Len(Format(old, chars))
           /\ Len(chars) <= Len(Format(old, chars))
           /\ \A i \in 1..Len(chars) : Format(old, chars)[i] = chars[i]
BY DEF Format

LEMMA TextsAreTyped ==
    \A t \in Texts \cup KeyTexts : t.chars \in Seq(Character) /\ t.kind \in {"literal", "number"}
BY TerminalAssumption DEF Text, Character

LEMMA PortInit == Init => PortInv
<1> SUFFICES ASSUME Init PROVE PortInv
  OBVIOUS
<1>1. /\ kernel.pc = "idle" /\ buffer = <<>> /\ port = <<>>
      /\ kernel.text = CHOOSE t \in Texts : TRUE
  BY DEF Init
<1> QED
  BY <1>1, TerminalAssumption DEF PortInv, NumberIsThere, PortSoFar

\* The steps of parse_char keep what is printed, and the buffers.
LEMMA PrintKeepsPort ==
    ASSUME LocksInv, PortInv,
           NextOrPort \/ ScrollUp \/ ScrollCopy \/ ScrollClear \/ Switch \/ NewlineStore
              \/ Draw \/ Advance \/ WrapTest \/ WrapDown \/ WrapLeft
    PROVE  PortInv'
<1>1. /\ UNCHANGED <<buffer, port, quiet>> /\ kernel'.text = kernel.text
      /\ kernel.pc \notin {"idle", "unlock"} /\ kernel'.pc # "port"
  <2> USE DEF LocksInv, KernelIsRecord, KernelFields, ReturnsInside, At, GoTo, Change
  <2>1. CASE NextOrPort \/ ScrollUp \/ ScrollCopy \/ Switch \/ NewlineStore
    BY <2>1 DEF NextOrPort, ScrollUp, ScrollCopy, Switch, NewlineStore
  <2>2. CASE Draw \/ Advance \/ WrapTest \/ WrapDown \/ WrapLeft
    BY <2>2 DEF Draw, Advance, WrapTest, WrapDown, WrapLeft
  <2>3. CASE ScrollClear
    BY <2>3 DEF ScrollClear
  <2> QED
    BY <2>1, <2>2, <2>3
<1> QED
  BY <1>1 DEF PortInv, NumberIsThere, PortSoFar

\* print_e9: the characters follow one another, as no handler runs while the port is written.
LEMMA PortKeepsPort ==
    ASSUME LocksInv, PortInv, PortLock \/ PortWrite \/ PortUnlock \/ HeapUnlock
    PROVE  PortInv'
<1> USE DEF LocksInv, KernelIsRecord, KernelFields, At, GoTo
<1>1. CASE PortLock
  <2>1. /\ port' = <<>> /\ kernel'.pos = 1 /\ kernel'.pc = "port" /\ kernel'.text = kernel.text
        /\ UNCHANGED <<buffer, quiet>> /\ kernel.pc = "lock"
    BY <1>1 DEF PortLock
  <2>2. Len(kernel.text.chars) \in Nat
    BY TextsAreTyped DEF PortInv
  <2> QED
    BY <2>1, <2>2 DEF PortInv, NumberIsThere, PortSoFar
<1>2. CASE PortWrite
  <2> DEFINE chars == kernel.text.chars
             c == NextChar
  <2>1. /\ kernel.pc = "port" /\ ~Done /\ port' = Append(port, c)
        /\ kernel'.pos = kernel.pos + 1 /\ kernel'.pc = "port" /\ kernel'.text = kernel.text
        /\ UNCHANGED <<buffer, quiet>>
    BY <1>2 DEF PortWrite
  <2>2. /\ chars \in Seq(Character) /\ kernel.text.kind \in {"literal", "number"}
        /\ buffer \in Seq(Character) /\ port \in Seq(Character)
    BY TextsAreTyped DEF PortInv
  <2>3. kernel.pos = Len(port) + 1 /\ kernel.pos \in 1..Len(chars)
    BY <2>1, <2>2 DEF PortInv, PortSoFar, Done
  <2>4. /\ c \in Character
        /\ kernel.text.kind = "literal" \/ quiet => c = chars[kernel.pos]
    BY <2>1, <2>2, <2>3 DEF PortInv, NumberIsThere, NextChar
  <2>5. /\ port' \in Seq(Character) /\ Len(port') = Len(port) + 1 /\ port'[Len(port) + 1] = c
        /\ \A i \in 1..Len(port) : port'[i] = port[i]
    <3> HIDE DEF c
    <3> QED
      BY <2>1, <2>2, <2>4
  <2> HIDE DEF c
  <2> QED
    BY <2>1, <2>2, <2>3, <2>4, <2>5 DEF PortInv, NumberIsThere, PortSoFar
<1>3. CASE PortUnlock
  <2>1. /\ port' = <<>> /\ kernel'.pc \in {"idle", "unlock"} /\ kernel'.text = kernel.text
        /\ UNCHANGED <<buffer, quiet>>
    BY <1>3 DEF PortUnlock
  <2> QED
    BY <2>1 DEF PortInv, NumberIsThere, PortSoFar
<1>4. CASE HeapUnlock
  <2>1. /\ kernel'.pc = "idle" /\ kernel'.text = kernel.text
        /\ UNCHANGED <<buffer, port, quiet>>
    BY <1>4 DEF HeapUnlock
  <2> QED
    BY <2>1 DEF PortInv, NumberIsThere, PortSoFar
<1> QED
  BY <1>1, <1>2, <1>3, <1>4

\* What starts between statements, and the keyboard: its handler writes to the port, too,
\* but not while the kernel does, and formats into the buffer, which gets no shorter.
LEMMA OthersKeepPort ==
    ASSUME LocksInv, PortInv,
           \/ InitKeyboard \/ StartIrq \/ KeyHit \/ Serve
           \/ \E text \in Texts : Log(text) \/ FreeFails(text)
    PROVE  PortInv'
<1> USE DEF LocksInv, KernelIsRecord, KernelFields, At
<1>1. CASE InitKeyboard \/ StartIrq \/ KeyHit
  <2>1. /\ kernel'.text = kernel.text /\ kernel'.pc = kernel.pc /\ kernel'.pos = kernel.pos
        /\ UNCHANGED <<buffer, port, quiet>>
    BY <1>1 DEF InitKeyboard, StartIrq, KeyHit
  <2> QED
    BY <2>1 DEF PortInv, NumberIsThere, PortSoFar
<1>2. CASE Serve
  <2>1. /\ cpu.if /\ ~quiet' /\ kernel' = kernel
        /\ \/ UNCHANGED <<buffer, port>>
           \/ \E text \in KeyTexts :
                 /\ buffer' = IF text.kind = "number" THEN Format(buffer, text.chars) ELSE buffer
                 /\ port' = port \o text.chars
    BY <1>2 DEF Serve
  <2>2. kernel.pc # "port"
    BY <2>1 DEF HeldLocks, OneLock, TwoLocks
  <2>3. /\ buffer' \in Seq(Character) /\ port' \in Seq(Character)
        /\ Len(buffer) <= Len(buffer')
    <3>1. CASE UNCHANGED <<buffer, port>>
      BY <3>1 DEF PortInv
    <3>2. ASSUME NEW text \in KeyTexts,
                 buffer' = IF text.kind = "number" THEN Format(buffer, text.chars) ELSE buffer,
                 port' = port \o text.chars
          PROVE  <2>3!:
      BY <3>2, TextsAreTyped, FormatLemma DEF PortInv
    <3> QED
      BY <2>1, <3>1, <3>2
  <2>4. Len(kernel.text.chars) \in Nat /\ Len(buffer) \in Nat /\ Len(buffer') \in Nat
    BY <2>3, TextsAreTyped DEF PortInv
  <2> QED
    BY <2>1, <2>2, <2>3, <2>4 DEF PortInv, NumberIsThere, PortSoFar
<1>3. ASSUME NEW text \in Texts, Log(text) \/ FreeFails(text)
      PROVE  PortInv'
  <2>1. /\ UNCHANGED <<port, quiet>> /\ kernel'.pc = "next" /\ kernel'.text = text
        /\ buffer' = IF text.kind = "number" THEN Format(buffer, text.chars) ELSE buffer
    BY <1>3 DEF Log, FreeFails, Say
  <2> QED
    BY <2>1, TextsAreTyped, FormatLemma DEF PortInv, NumberIsThere, PortSoFar
<1> QED
  BY <1>1, <1>2, <1>3

\* What the kernel sends to port 0xE9 under its lock arrives in order and without what a
\* handler sends; a number may be another one only after an interrupt (print_e9, outStream).
THEOREM PortIsNotMixed == Spec => []PortWhole
<1>1. LocksInv /\ PortInv /\ [Next]_vars => PortInv'
  <2> SUFFICES ASSUME LocksInv, PortInv, [Next]_vars PROVE PortInv'
    OBVIOUS
  <2>1. CASE Next
    BY <2>1, PrintKeepsPort, PortKeepsPort, OthersKeepPort DEF Next, Step, LocksInv
  <2>2. CASE UNCHANGED vars
    BY <2>2 DEF vars, PortInv, NumberIsThere, PortSoFar
  <2> QED
    BY <2>1, <2>2
<1>2. PortInv => PortWhole
  <2> SUFFICES ASSUME PortInv, kernel.pc = "port" PROVE PortWhole
    BY DEF PortWhole
  <2>1. /\ kernel.text.chars \in Seq(Character) /\ port \in Seq(Character)
    BY TextsAreTyped DEF PortInv
  <2>2. /\ Len(port) = kernel.pos - 1 /\ Len(port) <= Len(kernel.text.chars)
        /\ kernel.text.kind = "literal" \/ quiet =>
              \A i \in 1..Len(port) : port[i] = kernel.text.chars[i]
    BY DEF PortInv, PortSoFar
  <2>3. (\A i \in 1..Len(port) : port[i] = kernel.text.chars[i])
            => IsPrefix(port, kernel.text.chars)
    BY <2>1, <2>2 DEF IsPrefix
  <2> QED
    BY <2>2, <2>3 DEF PortWhole
<1> QED
  BY PortInit, LocksInit, <1>1, <1>2, LocksKept, PTL DEF Spec

-----------------------------------------------------------------------------
(* Types.                                                                  *)

Cell == Chars \cup {Newline, Blank, "boot"}
Screens == [Row -> [Col -> Cell]]
TermType == [x : Nat, y : 0..Wrap - 1, spare : {0, 1}, fault : BOOLEAN, screen : Screens]

\* The places inside parse_char, where the character at pos is dealt with.
InCharacter == {"up", "copy", "clear", "switch", "draw", "right", "newline", "wrap", "down", "left"}

KernelTyped ==
    /\ kernel.stage \in {"boot", "drivers", "running"}
    /\ kernel.pos \in Nat /\ kernel.pos >= 1
    /\ kernel.x \in Nat /\ kernel.y \in 0..Wrap - 1
    /\ kernel.pc \in Places
    /\ kernel.pc \in InCharacter => kernel.pos <= Len(kernel.text.chars)

TypesInv ==
    /\ term \in TermType /\ KernelTyped
    /\ kbd \in [unmasked : BOOLEAN, pending : BOOLEAN, hits : 0..MaxKeys]
    /\ quiet \in BOOLEAN

LEMMA RowRange == \A a \in Int : a % Wrap \in 0..Wrap - 1
BY TerminalAssumption

\* A terminal with other cells, or another cursor, is one.
LEMMA TermFieldsTyped ==
    ASSUME NEW t \in TermType
    PROVE  /\ t.x \in Nat /\ t.y \in 0..Wrap - 1 /\ t.screen \in Screens
           /\ \A x \in Nat : [t EXCEPT !.x = x] \in TermType
           /\ \A y \in 0..Wrap - 1 : [t EXCEPT !.y = y] \in TermType
           /\ \A s \in Screens : [t EXCEPT !.screen = s] \in TermType
           /\ [t EXCEPT !.fault = TRUE] \in TermType
BY DEF TermType

LEMMA PieceTypes ==
    ASSUME NEW t \in TermType
    PROVE  /\ CopyUp(t) \in TermType /\ ClearRest(t) \in TermType
           /\ Up(t) \in TermType /\ Down(t) \in TermType
           /\ Right(t) \in TermType /\ Left(t) \in TermType
           /\ \A row \in 0..Wrap - 1 : NextRow(t, row) \in TermType
           /\ \A c \in Character, x \in Nat, y \in 0..Wrap - 1 : WriteChar(t, c, x, y) \in TermType
<1>1. CopyUp(t) \in TermType
  <2> DEFINE s == [r \in Row |-> IF r < t.y THEN t.screen[r + 1] ELSE t.screen[r]]
  <2>1. CASE t.y \notin Row BY <2>1, TermFieldsTyped DEF CopyUp
  <2>2. CASE t.y \in Row
    <3>1. \A r \in Row : r < t.y => r + 1 \in Row BY <2>2, TerminalAssumption DEF Row
    <3>2. s \in Screens BY <3>1, TermFieldsTyped DEF Screens
    <3>3. CopyUp(t) = [t EXCEPT !.screen = s] BY <2>2 DEF CopyUp
    <3> HIDE DEF s
    <3> QED BY <3>2, <3>3, TermFieldsTyped
  <2> QED BY <2>1, <2>2
<1>2. ClearRest(t) \in TermType
  <2> DEFINE s == [r \in Row |-> IF r < t.y THEN t.screen[r] ELSE [c \in Col |-> Blank]]
  <2>1. PICK u : u = [t EXCEPT !.x = 0] OBVIOUS
  <2>2. u \in TermType BY <2>1, TermFieldsTyped
  <2>3. s \in Screens BY TermFieldsTyped DEF Screens, Cell
  <2>4. ClearRest(t) \in {[u EXCEPT !.fault = TRUE], [u EXCEPT !.screen = s]} BY <2>1 DEF ClearRest
  <2> HIDE DEF s
  <2> QED BY <2>2, <2>3, <2>4, TermFieldsTyped
<1>3. Up(t) \in TermType /\ Down(t) \in TermType
  <2>0. t.y - 1 \in Int /\ t.y + 1 \in Int
    <3>1. t.y \in 0..Wrap - 1 BY TermFieldsTyped
    <3> QED BY <3>1, TerminalAssumption
  <2>1. PICK above, below \in 0..Wrap - 1 : above = (t.y - 1) % Wrap /\ below = (t.y + 1) % Wrap
    BY <2>0, RowRange
  <2>2. Up(t) = [t EXCEPT !.y = above] /\ Down(t) = [t EXCEPT !.y = below] BY <2>1 DEF Up, Down
  <2> QED BY <2>2, TermFieldsTyped
<1>4. Right(t) \in TermType /\ Left(t) \in TermType
  <2>0. t.x \in Nat BY TermFieldsTyped
  <2>1. PICK right \in Nat : right = t.x + 1 BY <2>0
  <2>2. Right(t) = [t EXCEPT !.x = right] BY <2>1 DEF Right
  <2> QED BY <2>2, TermFieldsTyped DEF Left
<1>5. ASSUME NEW row \in 0..Wrap - 1 PROVE NextRow(t, row) \in TermType
  <2>1. PICK u : u = [t EXCEPT !.y = row] OBVIOUS
  <2>2. u \in TermType BY <2>1, TermFieldsTyped
  <2>3. NextRow(t, row) = [u EXCEPT !.x = 0] BY <2>1 DEF NextRow
  <2> QED BY <2>2, <2>3, TermFieldsTyped
<1>6. ASSUME NEW c \in Character, NEW x \in Nat, NEW y \in 0..Wrap - 1
      PROVE  WriteChar(t, c, x, y) \in TermType
  <2>1. CASE x \in Col /\ y \in Row
    <3> DEFINE s == [t.screen EXCEPT ![y][x] = c]
    <3>1. t.screen[y] \in [Col -> Cell] BY <2>1, TermFieldsTyped DEF Screens
    <3>2. [t.screen[y] EXCEPT ![x] = c] \in [Col -> Cell] BY <3>1 DEF Cell, Character
    <3>3. s \in Screens BY <3>2, TermFieldsTyped DEF Screens
    <3>4. WriteChar(t, c, x, y) = [t EXCEPT !.screen = s] BY <2>1 DEF WriteChar
    <3> HIDE DEF s
    <3> QED BY <3>3, <3>4, TermFieldsTyped
  <2>2. CASE ~(x \in Col /\ y \in Row) BY <2>2, TermFieldsTyped DEF WriteChar
  <2> QED BY <2>1, <2>2
<1> QED BY <1>1, <1>2, <1>3, <1>4, <1>5, <1>6

\* The whole of parse_char, and of a string.
LEMMA ParseTyped ==
    ASSUME NEW t \in TermType, NEW c \in Character
    PROVE  ParseChar(t, c) \in TermType
<1>1. PICK a : a = IF Full(t) THEN ExecNewline(Up(t)) ELSE t OBVIOUS
<1>2. a \in TermType BY <1>1, PieceTypes DEF ExecNewline
<1>3. PICK b : b = CASE c = Newline /\ IsLast(a, a.y) -> ExecNewline(a)
                     [] c = Newline /\ ~IsLast(a, a.y) -> NextRow(a, a.y + 1)
                     [] OTHER -> Right(WriteChar(a, c, a.x, a.y))
  OBVIOUS
<1>4. a.x \in Nat /\ a.y \in 0..Wrap - 1 /\ a.spare \in {0, 1} BY <1>2 DEF TermType
<1>5. ~IsLast(a, a.y) => a.y + 1 \in 0..Wrap - 1 BY <1>4, TerminalAssumption DEF IsLast
<1>6. b \in TermType BY <1>2, <1>3, <1>4, <1>5, PieceTypes DEF ExecNewline
<1>7. ParseChar(t, c) \in {t, Left(Down(b)), b} BY <1>1, <1>3 DEF ParseChar
<1> QED BY <1>6, <1>7, PieceTypes

\* A set of naturals that is not empty has a least member.
LEMMA LeastNumber ==
    ASSUME NEW S \in SUBSET Nat, S # {}
    PROVE  \E m \in S : \A k \in S : m <= k
<1>1. PICK m \in S : \A k \in S : ~(<<k, m>> \in OpToRel(<, Nat))
    BY NatLessThanWellFounded, WFMin
<1>2. \A k \in S : ~(k < m) BY <1>1 DEF OpToRel
<1> QED BY <1>2

\* after has the terminals between the characters of s, up to the n-th.
Shown(t, s, n, after) ==
    after = [k \in 0..n |-> IF k = 0 THEN t ELSE ParseChar(after[k - 1], s[k])]

\* There is such a function: a counterexample of least n extends the one below it.
LEMMA ShownExists ==
    ASSUME NEW t, NEW s, NEW n \in Nat
    PROVE  \E after : Shown(t, s, n, after)
<1> DEFINE Bad == {m \in Nat : ~ \E after : Shown(t, s, m, after)}
<1> SUFFICES ASSUME Bad # {} PROVE FALSE OBVIOUS
<1>1. PICK m \in Bad : \A k \in Bad : m <= k BY LeastNumber
<1>2. m # 0
  <2>1. Shown(t, s, 0, [k \in 0..0 |-> t]) BY DEF Shown
  <2> QED BY <2>1
<1>3. PICK g : Shown(t, s, m - 1, g) BY <1>1, <1>2
<1> DEFINE h == [k \in 0..m |-> IF k = m THEN ParseChar(g[m - 1], s[m]) ELSE g[k]]
<1>4. \A k \in 0..m : h[k] = IF k = 0 THEN t ELSE ParseChar(h[k - 1], s[k])
  <2> SUFFICES ASSUME NEW k \in 0..m PROVE h[k] = IF k = 0 THEN t ELSE ParseChar(h[k - 1], s[k]) OBVIOUS
  <2>1. m \in Nat BY <1>1
  <2>2. CASE k = m
    <3>1. h[k - 1] = g[m - 1] BY <1>2, <2>1, <2>2
    <3> QED BY <1>2, <2>1, <2>2, <3>1
  <2>3. CASE k # m
    <3>1. k \in 0..(m - 1) BY <2>1, <2>3
    <3>2. g[k] = IF k = 0 THEN t ELSE ParseChar(g[k - 1], s[k]) BY <1>3, <3>1 DEF Shown
    <3>3. k # 0 => h[k - 1] = g[k - 1] BY <2>1, <2>3
    <3>4. h[k] = g[k] BY <2>3
    <3> QED BY <3>2, <3>3, <3>4
  <2> QED BY <2>2, <2>3
<1>5. Shown(t, s, m, h) BY <1>4 DEF Shown
<1> QED BY <1>1, <1>5

LEMMA WriteTyped ==
    ASSUME NEW t \in TermType, NEW s \in Seq(Character)
    PROVE  WriteStr(t, s) \in TermType
<1>1. Len(s) \in Nat OBVIOUS
<1>2. PICK g : Shown(t, s, Len(s), g) BY <1>1, ShownExists
<1> DEFINE a == CHOOSE f : Shown(t, s, Len(s), f)
<1>3. Shown(t, s, Len(s), a) BY <1>2
<1>4. WriteStr(t, s) = a[Len(s)] BY DEF WriteStr, Shown
<1> HIDE DEF a
<1>5. \A k \in 0..Len(s) : a[k] = IF k = 0 THEN t ELSE ParseChar(a[k - 1], s[k]) BY <1>3 DEF Shown
<1> DEFINE Bad == {k \in 0..Len(s) : a[k] \notin TermType}
<1> SUFFICES ASSUME Bad # {} PROVE FALSE BY <1>1, <1>4
<1>6. PICK k \in Bad : \A j \in Bad : k <= j BY LeastNumber, Bad \subseteq Nat
<1>7. k # 0 BY <1>5, <1>6
<1>8. a[k - 1] \in TermType /\ s[k] \in Character BY <1>1, <1>6, <1>7
<1>9. a[k] = ParseChar(a[k - 1], s[k]) BY <1>5, <1>6, <1>7
<1> QED BY <1>6, <1>8, <1>9, ParseTyped

LEMMA TypesInit == Init => TypesInv
<1> SUFFICES ASSUME Init PROVE TypesInv OBVIOUS
<1>1. term \in TermType
  <2>1. "boot" \in Cell BY DEF Cell
  <2>2. [r \in Row |-> [c \in Col |-> "boot"]] \in Screens BY <2>1 DEF Screens
  <2>3. 0 \in Nat /\ 0 \in 0..Wrap - 1 BY TerminalAssumption
  <2> DEFINE s == [r \in Row |-> [c \in Col |-> "boot"]]
  <2>4. term \in [x : {0}, y : {0}, spare : {0, 1}, fault : {FALSE}, screen : {s}] BY DEF Init
  <2>5. s \in Screens BY <2>2
  <2> HIDE DEF s
  <2>6. PICK spare \in {0, 1} : term = [x |-> 0, y |-> 0, spare |-> spare, fault |-> FALSE, screen |-> s]
    BY <2>4
  <2> QED BY <2>3, <2>5, <2>6 DEF TermType
<1>2. KernelTyped BY TerminalAssumption DEF Init, KernelTyped, Places, InCharacter
<1> QED BY <1>1, <1>2, TerminalAssumption DEF Init, TypesInv

\* What is drawn is a character, whoever formatted the buffer last.
LEMMA NextTyped ==
    ASSUME PortInv, KernelTyped, kernel.pc \in InCharacter
    PROVE  NextChar \in Character
<1>1. /\ kernel.text.chars \in Seq(Character) /\ buffer \in Seq(Character)
      /\ kernel.text.kind \in {"literal", "number"}
  BY TextsAreTyped DEF PortInv
<1>2. kernel.pos \in 1..Len(kernel.text.chars) BY <1>1 DEF KernelTyped
<1>3. kernel.text.kind = "number" => kernel.pos \in 1..Len(buffer)
  BY <1>1, <1>2 DEF PortInv, NumberIsThere, InCharacter
<1> QED BY <1>1, <1>2, <1>3 DEF NextChar

\* The steps of parse_char and of the loop around it.
LEMMA PrintTypes ==
    ASSUME LocksInv, PortInv, TypesInv,
           NextOrPort \/ ScrollUp \/ ScrollCopy \/ ScrollClear \/ Switch \/ NewlineStore
              \/ Draw \/ Advance \/ WrapTest \/ WrapDown \/ WrapLeft
    PROVE  TypesInv'
<1>0. /\ DOMAIN kernel = KernelFields /\ term \in TermType /\ KernelTyped
      /\ Len(kernel.text.chars) \in Nat
  BY TextsAreTyped DEF LocksInv, KernelIsRecord, TypesInv, PortInv
<1>1. UNCHANGED <<kbd, quiet>>
  BY DEF NextOrPort, ScrollUp, ScrollCopy, ScrollClear, Switch, NewlineStore, Draw, Advance, WrapTest,
         WrapDown, WrapLeft, Change
<1>2. term' \in TermType
  <2>1. CASE NextOrPort \/ Switch \/ WrapTest BY <1>0, <2>1 DEF NextOrPort, Switch, WrapTest
  <2>2. CASE ScrollUp \/ ScrollCopy \/ ScrollClear \/ Advance \/ WrapDown \/ WrapLeft
    BY <1>0, <2>2, PieceTypes DEF ScrollUp, ScrollCopy, ScrollClear, Advance, WrapDown, WrapLeft, Change
  <2>3. CASE NewlineStore BY <1>0, <2>3, PieceTypes DEF NewlineStore, Change, KernelTyped
  <2>4. CASE Draw
    <3>1. NextChar \in Character BY <1>0, <2>4, NextTyped DEF Draw, Change, At, InCharacter
    <3> QED BY <1>0, <2>4, <3>1, PieceTypes DEF Draw, Change, KernelTyped
  <2> QED BY <2>1, <2>2, <2>3, <2>4
<1>3. KernelTyped'
  <2> USE <1>0 DEF KernelTyped, KernelFields, Places, InCharacter, At, GoTo, Change
  <2>1. CASE NextOrPort BY <2>1 DEF NextOrPort, Done
  <2>2. CASE ScrollUp BY <2>2 DEF ScrollUp
  <2>3. CASE ScrollCopy BY <2>3 DEF ScrollCopy
  <2>4. CASE ScrollClear BY <2>4 DEF ScrollClear, LocksInv, ReturnsInside
  <2>5. CASE Switch
    <3>1. (term.y + 1) % Wrap \in 0..Wrap - 1 /\ term.x \in Nat /\ term.y \in 0..Wrap - 1
      <4>1. term.x \in Nat /\ term.y \in 0..Wrap - 1 BY DEF TermType
      <4>2. term.y + 1 \in Int BY <4>1, TerminalAssumption
      <4> QED BY <4>1, <4>2, RowRange
    <3> QED BY <2>5, <3>1 DEF Switch
  <2>6. CASE NewlineStore BY <2>6 DEF NewlineStore
  <2>7. CASE Draw BY <2>7 DEF Draw
  <2>8. CASE Advance BY <2>8 DEF Advance
  <2>9. CASE WrapTest BY <2>9 DEF WrapTest
  <2>10. CASE WrapDown BY <2>10 DEF WrapDown
  <2>11. CASE WrapLeft BY <2>11 DEF WrapLeft
  <2> QED BY <2>1, <2>2, <2>3, <2>4, <2>5, <2>6, <2>7, <2>8, <2>9, <2>10, <2>11
<1> QED BY <1>1, <1>2, <1>3 DEF TypesInv

\* The locks, what starts between statements, and the keyboard, whose handler writes a
\* whole text.
LEMMA OtherTypes ==
    ASSUME LocksInv, TypesInv,
           \/ PortLock \/ PortWrite \/ PortUnlock \/ HeapUnlock
           \/ InitKeyboard \/ StartIrq \/ KeyHit \/ Serve
           \/ \E text \in Texts : Log(text) \/ FreeFails(text)
    PROVE  TypesInv'
<1>0. /\ DOMAIN kernel = KernelFields /\ term \in TermType /\ KernelTyped
  BY DEF LocksInv, KernelIsRecord, TypesInv
<1>1. CASE PortLock \/ PortWrite \/ PortUnlock \/ HeapUnlock
  <2>1. UNCHANGED <<term, kbd, quiet>> BY <1>1 DEF PortLock, PortWrite, PortUnlock, HeapUnlock
  <2> USE <1>0 DEF KernelTyped, KernelFields, Places, InCharacter, At, GoTo
  <2>2. CASE PortLock BY <2>1, <2>2 DEF PortLock, TypesInv
  <2>3. CASE PortWrite BY <2>1, <2>3 DEF PortWrite, TypesInv
  <2>4. CASE PortUnlock BY <2>1, <2>4 DEF PortUnlock, TypesInv
  <2>5. CASE HeapUnlock BY <2>1, <2>5 DEF HeapUnlock, TypesInv
  <2> QED BY <1>1, <2>2, <2>3, <2>4, <2>5
<1>2. CASE InitKeyboard \/ StartIrq \/ KeyHit
  <2>1. UNCHANGED <<term, quiet>> BY <1>2 DEF InitKeyboard, StartIrq, KeyHit
  <2>2. kbd' \in [unmasked : BOOLEAN, pending : BOOLEAN, hits : 0..MaxKeys]
    <3>1. kbd \in [unmasked : BOOLEAN, pending : BOOLEAN, hits : 0..MaxKeys] BY DEF TypesInv
    <3>2. kbd.hits < MaxKeys => kbd.hits + 1 \in 0..MaxKeys
      <4>1. kbd.hits \in 0..MaxKeys BY <3>1
      <4> QED BY <4>1, TerminalAssumption
    <3>3. CASE InitKeyboard BY <3>1, <3>3 DEF InitKeyboard
    <3>4. CASE StartIrq BY <3>1, <3>4 DEF StartIrq
    <3>5. CASE KeyHit
      <4>1. PICK h \in 0..MaxKeys : h = kbd.hits + 1 BY <3>2, <3>5 DEF KeyHit
      <4>2. kbd' = [kbd EXCEPT !.pending = TRUE, !.hits = h] BY <3>5, <4>1 DEF KeyHit
      <4> QED BY <3>1, <4>2
    <3> QED BY <1>2, <3>3, <3>4, <3>5
  <2>3. KernelTyped' BY <1>0, <1>2 DEF InitKeyboard, StartIrq, KeyHit, KernelTyped, KernelFields, InCharacter, Places
  <2> QED BY <2>1, <2>2, <2>3, <1>0 DEF TypesInv
<1>3. CASE Serve
  <2>1. /\ kernel' = kernel /\ quiet' = FALSE /\ kbd' = [kbd EXCEPT !.pending = FALSE]
        /\ term' = ClearScreen(term) \/ \E text \in KeyTexts : term' = WriteStr(term, text.chars)
    BY <1>3 DEF Serve
  <2>2. ClearScreen(term) \in TermType
    <3> DEFINE s == [r \in Row |-> [c \in Col |-> Blank]]
    <3>1. s \in Screens BY DEF Screens, Cell
    <3>2. PICK u : u = [term EXCEPT !.x = 0] OBVIOUS
    <3>3. PICK w : w = [u EXCEPT !.y = 0] OBVIOUS
    <3>0. 0 \in Nat /\ 0 \in 0..Wrap - 1 BY TerminalAssumption
    <3>4. w \in TermType
      <4>1. u \in TermType BY <1>0, <3>0, <3>2, TermFieldsTyped
      <4> QED BY <3>0, <3>3, <4>1, TermFieldsTyped
    <3>5. ClearScreen(term) = [w EXCEPT !.screen = s] BY <3>2, <3>3 DEF ClearScreen
    <3> HIDE DEF s
    <3> QED BY <3>1, <3>4, <3>5, TermFieldsTyped
  <2>3. term' \in TermType BY <1>0, <2>1, <2>2, TextsAreTyped, WriteTyped
  <2> QED BY <1>0, <2>1, <2>3 DEF TypesInv, KernelTyped
<1>4. ASSUME NEW text \in Texts, Log(text) \/ FreeFails(text) PROVE TypesInv'
  <2>1. /\ UNCHANGED <<term, kbd, quiet>>
        /\ kernel' = [kernel EXCEPT !.pc = "next", !.text = text, !.pos = 1, !.printed = @ + 1]
    BY <1>4 DEF Log, FreeFails, Say
  <2> QED BY <1>0, <2>1 DEF TypesInv, KernelTyped, KernelFields, InCharacter, Places
<1> QED BY <1>1, <1>2, <1>3, <1>4

LEMMA PortAndTypes ==
    LocksInv /\ PortInv /\ TypesInv /\ [Next]_vars => PortInv' /\ TypesInv'
<1> SUFFICES ASSUME LocksInv, PortInv, TypesInv, [Next]_vars PROVE PortInv' /\ TypesInv'
  OBVIOUS
<1>1. CASE Next
  BY <1>1, PrintKeepsPort, PortKeepsPort, OthersKeepPort, PrintTypes, OtherTypes DEF Next, Step, LocksInv
<1>2. CASE UNCHANGED vars
  BY <1>2 DEF vars, PortInv, NumberIsThere, PortSoFar, TypesInv, KernelTyped
<1> QED
  BY <1>1, <1>2

\* Every variable has its type, with interrupts or without: also the cells of the screen
\* after a handler wrote on it, and no more than two locks are ever held.
THEOREM TypeCorrect == Spec => []TypeOK
<1>1. LocksInv /\ PortInv /\ TypesInv => TypeOK
  <2> SUFFICES ASSUME LocksInv, PortInv, TypesInv PROVE TypeOK OBVIOUS
  <2>1. cpu.if \in BOOLEAN /\ cpu.saved \in Seq(BOOLEAN) BY DEF LocksInv, CpuType
  <2>2. cpu.saved = <<>> \/ Len(cpu.saved) = 1 \/ Len(cpu.saved) = 2
    BY DEF LocksInv, HeldLocks, NoLock, OneLock, TwoLocks
  <2>3. Len(cpu.saved) <= 2
    <3>1. CASE cpu.saved = <<>>
      <4>1. Len(cpu.saved) = 0 BY <3>1
      <4> QED BY <4>1
    <3>2. CASE Len(cpu.saved) = 1 BY <3>2
    <3>3. CASE Len(cpu.saved) = 2 BY <3>3
    <3> QED BY <2>2, <3>1, <3>2, <3>3
  <2> QED BY <2>1, <2>3 DEF TypeOK, TypesInv, TermType, Screens, Cell, PortInv, Character, KernelTyped
<1> QED
  BY PortInit, LocksInit, TypesInit, PortAndTypes, LocksKept, <1>1, PTL DEF Spec

-----------------------------------------------------------------------------
(* What the screen shows.                                                  *)

\* Lines are counted from the last one, up; a row has a line when it begins with it.
Line(lines, k) == lines[Len(lines) - k]
RowHas(t, r, line) == \A c \in 1..Len(line) : t.screen[r][c - 1] = line[c]
RowsHave(t, n, lines, y) == y < Len(lines) /\ \A r \in 0..n : RowHas(t, r, Line(lines, y - r))

LastIs(lines, x) == Len(Line(lines, 0)) = x
Told == {lines \in Seq(Seq(Character)) : Len(lines) \in 1..Rows + 1}

\* Each line is in its row, and the cursor behind the last.
Settled(t, lines) ==
    /\ RowsHave(t, t.y, lines, t.y) /\ LastIs(lines, t.x)
    /\ t.y = Rows => t.x = 0

\* Where a character is that has not changed the screen yet, or does not move lines.
Unmoved ==
    \/ kernel.pc \in {"idle", "next", "lock", "port", "unlock"}
    \/ kernel.pc \in {"up", "switch", "draw", "right", "newline"}
    \/ kernel.pc = "copy" /\ kernel.then = "wrap"

\* exec_newline, to make room for the row after the last, in which an empty line is.
MakingRoom ==
    /\ kernel.pc = "copy" /\ kernel.then = "switch" =>
          RowsHave(term, term.y, told, term.y + 1) /\ LastIs(told, 0)
    /\ kernel.pc = "clear" /\ kernel.then = "switch" =>
          RowsHave(term, term.y - 1, told, term.y) /\ LastIs(told, 0)

ThisChar == kernel.text.chars[kernel.pos]

\* A newline: exec_newline in the last row, otherwise the cursor's next row.
EndingLine ==
    /\ kernel.pc = "copy" /\ kernel.then = "wrap" => ThisChar = Newline
    /\ kernel.pc = "clear" /\ kernel.then = "wrap" =>
          ThisChar = Newline /\ RowsHave(term, term.y - 1, told, term.y - 1)
    /\ kernel.pc = "newline" => ThisChar = Newline /\ kernel.y = term.y + 1

Writing ==
    /\ kernel.pc \in {"draw", "right"} => ThisChar # Newline
    /\ kernel.pc = "right" => term.screen[term.y][term.x] = ThisChar

\* Before the character counts as printed, and in the jump to the next line.
Jumping ==
    /\ kernel.pc = "wrap" =>
          IF AtEnd(term)
          THEN RowsHave(term, term.y, Tell(told, ThisChar), term.y + 1) /\ LastIs(Tell(told, ThisChar), 0)
          ELSE Settled(term, Tell(told, ThisChar))
    /\ kernel.pc = "down" => RowsHave(term, term.y, told, term.y + 1) /\ LastIs(told, 0)
    /\ kernel.pc = "left" => RowsHave(term, term.y, told, term.y) /\ LastIs(told, 0)

ScreenIsRight == (Unmoved => Settled(term, told)) /\ MakingRoom /\ EndingLine /\ Writing /\ Jumping

ShowsInv == told \in Told /\ (quiet => ScreenIsRight)

\* Tell forgets a line from the top, so lines counted from the last one stay where they are.
LEMMA CutLemma ==
    ASSUME NEW all \in Seq(Seq(Character)), Len(all) \in 1..Rows + 2
    PROVE  LET cut == SubSeq(all, IF Len(all) > Rows + 1 THEN 2 ELSE 1, Len(all)) IN
           /\ cut \in Told
           /\ Len(cut) = IF Len(all) > Rows + 1 THEN Rows + 1 ELSE Len(all)
           /\ \A k \in 0..Len(cut) - 1 : Line(cut, k) = Line(all, k)
<1>1. PICK m \in 1..2 : m = IF Len(all) > Rows + 1 THEN 2 ELSE 1 OBVIOUS
<1>2. PICK cut : cut = SubSeq(all, m, Len(all)) OBVIOUS
<1>3. Rows \in Nat /\ Rows > 0 /\ Len(all) \in Nat BY TerminalAssumption
<1>4. \A i \in m..Len(all) : all[i] \in Seq(Character) BY <1>1
<1>5. /\ cut \in Seq(Seq(Character)) /\ Len(cut) = Len(all) - m + 1
      /\ \A i \in 1..Len(all) - m + 1 : cut[i] = all[m + i - 1]
  <2>1. PICK n \in Int : n = Len(all) BY <1>3
  <2>2. m \in Int /\ m <= n BY <1>1, <1>3, <2>1
  <2>3. \A i \in m..n : all[i] \in Seq(Character) BY <1>4, <2>1
  <2>4. cut = SubSeq(all, m, n) BY <1>2, <2>1
  <2>5. /\ SubSeq(all, m, n) \in Seq(Seq(Character))
        /\ Len(SubSeq(all, m, n)) = IF m <= n THEN n - m + 1 ELSE 0
        /\ \A i \in 1..n - m + 1 : SubSeq(all, m, n)[i] = all[m + i - 1]
    BY <2>2, <2>3, SubSeqProperties
  <2> QED BY <2>1, <2>2, <2>4, <2>5
<1>6. Len(cut) = IF Len(all) > Rows + 1 THEN Rows + 1 ELSE Len(all) BY <1>1, <1>3, <1>5
<1>7. \A k \in 0..Len(cut) - 1 : Line(cut, k) = Line(all, k)
  <2> SUFFICES ASSUME NEW k \in 0..Len(cut) - 1 PROVE cut[Len(cut) - k] = all[Len(all) - k] BY DEF Line
  <2>1. PICK i : i = Len(cut) - k OBVIOUS
  <2>2. PICK j : j = Len(all) - k OBVIOUS
  <2>3. i \in 1..Len(all) - m + 1 /\ m + i - 1 = j BY <1>1, <1>3, <1>5, <2>1, <2>2
  <2>4. cut[i] = all[m + i - 1] BY <1>5, <2>3
  <2>5. cut[i] = all[j] BY <2>3, <2>4
  <2> QED BY <2>1, <2>2, <2>5, Zenon
<1>8. cut \in Told BY <1>3, <1>5, <1>6 DEF Told
<1> QED BY <1>1, <1>2, <1>6, <1>7, <1>8

\* A newline, or a character that fills its line: there is one more line, an empty one.
LEMMA TellNewline ==
    ASSUME NEW lines \in Told
    PROVE  LET t == Tell(lines, Newline) IN
           /\ t \in Told
           /\ Len(t) = IF Len(lines) > Rows THEN Rows + 1 ELSE Len(lines) + 1
           /\ LastIs(t, 0)
           /\ \A k \in 0..Len(t) - 2 : Line(t, k + 1) = Line(lines, k)
<1>1. lines \in Seq(Seq(Character)) /\ Len(lines) \in 1..Rows + 1 /\ Rows \in Nat
  BY TerminalAssumption DEF Told
<1>2. <<>> \in Seq(Character) OBVIOUS
<1>3. PICK all : all = Append(lines, <<>>) OBVIOUS
<1>4. /\ all \in Seq(Seq(Character)) /\ Len(all) = Len(lines) + 1 /\ all[Len(lines) + 1] = <<>>
      /\ \A i \in 1..Len(lines) : all[i] = lines[i]
  BY <1>1, <1>2, <1>3, AppendProperties
<1>5. Line(all, 0) = <<>> /\ \A k \in 0..Len(lines) - 1 : Line(all, k + 1) = Line(lines, k)
  <2>1. Len(lines) \in Nat /\ Len(all) - 0 = Len(lines) + 1 BY <1>1, <1>4
  <2>2. \A k \in 0..Len(lines) - 1 : Len(all) - (k + 1) = Len(lines) - k /\ Len(lines) - k \in 1..Len(lines)
    BY <1>4, <2>1
  <2> QED BY <1>4, <2>1, <2>2 DEF Line
<1>6. PICK t : t = Tell(lines, Newline) OBVIOUS
<1>7. t = SubSeq(all, IF Len(all) > Rows + 1 THEN 2 ELSE 1, Len(all)) BY <1>3, <1>6 DEF Tell
<1>8. /\ t \in Told /\ Len(t) = IF Len(all) > Rows + 1 THEN Rows + 1 ELSE Len(all)
      /\ \A k \in 0..Len(t) - 1 : Line(t, k) = Line(all, k)
  <2>1. Len(all) \in 1..Rows + 2 BY <1>1, <1>4
  <2> QED BY <1>4, <1>7, <2>1, CutLemma
<1>9. Len(t) = IF Len(lines) > Rows THEN Rows + 1 ELSE Len(lines) + 1 BY <1>1, <1>4, <1>8
<1>10. Line(t, 0) = <<>> BY <1>1, <1>5, <1>8, <1>9
<1>11. \A k \in 0..Len(t) - 2 : Line(t, k + 1) = Line(lines, k)
  <2> SUFFICES ASSUME NEW k \in 0..Len(t) - 2 PROVE Line(t, k + 1) = Line(lines, k) OBVIOUS
  <2>1. k + 1 \in 0..Len(t) - 1 /\ k \in 0..Len(lines) - 1 BY <1>1, <1>9
  <2> QED BY <1>5, <1>8, <2>1
<1> QED BY <1>6, <1>8, <1>9, <1>10, <1>11 DEF LastIs

\* all is a and b, of which a ends before position n.
Joins(all, a, b, n) ==
    /\ Len(all) = n - 1 + Len(b)
    /\ \A i \in 1..n - 1 : all[i] = a[i]
    /\ \A i \in 1..Len(b) : all[n - 1 + i] = b[i]

LEMMA Joined ==
    ASSUME NEW S, NEW a \in Seq(S), NEW b \in Seq(S), NEW n \in Nat, Len(a) = n - 1
    PROVE  a \o b \in Seq(S) /\ Joins(a \o b, a, b, n)
<1>1. a \o b \in Seq(S) /\ Len(a \o b) = n - 1 + Len(b) OBVIOUS
<1>2. \A i \in 1..n - 1 : (a \o b)[i] = a[i] OBVIOUS
<1>3. \A i \in 1..Len(b) : (a \o b)[n - 1 + i] = b[i] OBVIOUS
<1> QED BY <1>1, <1>2, <1>3 DEF Joins

\* Any other character: the last line is longer, and when it is full another one follows.
LEMMA TellChar ==
    ASSUME NEW lines \in Told, NEW c \in Character, c # Newline
    PROVE  LET t == Tell(lines, c) IN
           IF Len(Line(lines, 0)) + 1 = Cols - 1
           THEN /\ t \in Told
                /\ Len(t) = IF Len(lines) > Rows THEN Rows + 1 ELSE Len(lines) + 1
                /\ LastIs(t, 0) /\ Line(t, 1) = Append(Line(lines, 0), c)
                /\ \A k \in 1..Len(t) - 2 : Line(t, k + 1) = Line(lines, k)
           ELSE /\ t \in Told /\ Len(t) = Len(lines)
                /\ Line(t, 0) = Append(Line(lines, 0), c)
                /\ \A k \in 1..Len(t) - 1 : Line(t, k) = Line(lines, k)
<1>1. lines \in Seq(Seq(Character)) /\ Len(lines) \in 1..Rows + 1 /\ Rows \in Nat /\ Rows > 0
  BY TerminalAssumption DEF Told
<1>2. PICK n \in 1..Rows + 1 : n = Len(lines) BY <1>1
<1>3. PICK old : old = lines[n] OBVIOUS
<1>4. old \in Seq(Character) /\ Line(lines, 0) = old /\ Last(lines) = old BY <1>1, <1>2, <1>3 DEF Line, Last
<1>5. PICK last : last = Append(old, c) OBVIOUS
<1>6. last \in Seq(Character) /\ Len(last) = Len(old) + 1 BY <1>4, <1>5, AppendProperties
<1>7. PICK front : front = Front(lines) OBVIOUS
<1>8. /\ front \in Seq(Seq(Character)) /\ Len(front) = n - 1
      /\ \A i \in 1..n - 1 : front[i] = lines[i]
  <2>1. 1 \in Int /\ n - 1 \in Int /\ front = SubSeq(lines, 1, n - 1) BY <1>2, <1>7 DEF Front
  <2>2. \A i \in 1..n - 1 : lines[i] \in Seq(Character) BY <1>1, <1>2
  <2>3. /\ SubSeq(lines, 1, n - 1) \in Seq(Seq(Character))
        /\ Len(SubSeq(lines, 1, n - 1)) = IF 1 <= n - 1 THEN n - 1 - 1 + 1 ELSE 0
        /\ \A i \in 1..n - 1 - 1 + 1 : SubSeq(lines, 1, n - 1)[i] = lines[1 + i - 1]
    BY <2>1, <2>2, SubSeqProperties
  <2> QED BY <1>1, <2>1, <2>3
<1>9. PICK t : t = Tell(lines, c) OBVIOUS
<1>10. CASE Len(old) + 1 = Cols - 1
  <2>1. PICK pair : pair = <<last, <<>>>> OBVIOUS
  <2>2. pair \in Seq(Seq(Character)) /\ Len(pair) = 2 /\ pair[1] = last /\ pair[2] = <<>>
    BY <1>6, <2>1
  <2>3. PICK all : all = front \o pair OBVIOUS
  <2>4. /\ all \in Seq(Seq(Character)) /\ Len(all) = n + 1
        /\ \A i \in 1..n - 1 : all[i] = front[i]
        /\ \A i \in 1..2 : all[n - 1 + i] = pair[i]
    <3>1. n \in Nat /\ n - 1 + 2 = n + 1 /\ n - 1 + 1 = n BY <1>2
    <3>2. all \in Seq(Seq(Character)) /\ Joins(all, front, pair, n)
      <4>1. n \in Nat BY <3>1
      <4>2. front \in Seq(Seq(Character)) /\ pair \in Seq(Seq(Character)) BY <1>8, <2>2
      <4>3. Len(front) = n - 1 BY <1>8
      <4>4. front \o pair \in Seq(Seq(Character)) /\ Joins(front \o pair, front, pair, n)
        BY <4>1, <4>2, <4>3, Joined
      <4> QED BY <2>3, <4>4
    <3> QED BY <2>2, <3>1, <3>2 DEF Joins
  <2>5. all[n + 1] = <<>> /\ all[n] = last /\ \A i \in 1..n - 1 : all[i] = lines[i]
    <3>1. n - 1 + 1 = n /\ n - 1 + 2 = n + 1 BY <1>2
    <3>2. all[n - 1 + 1] = last /\ all[n - 1 + 2] = <<>> BY <2>2, <2>4
    <3> QED BY <1>8, <2>4, <3>1, <3>2
  <2>6. /\ Line(all, 0) = <<>> /\ Line(all, 1) = last
        /\ \A k \in 1..n - 1 : Line(all, k + 1) = Line(lines, k)
    <3>1. /\ Len(all) - 0 = n + 1 /\ Len(all) - 1 = n
          /\ \A k \in 1..n - 1 : Len(all) - (k + 1) = n - k /\ n - k \in 1..n - 1
      BY <2>4
    <3> QED BY <1>2, <2>5, <3>1 DEF Line
  <2>7. t = SubSeq(all, IF Len(all) > Rows + 1 THEN 2 ELSE 1, Len(all))
    <3>1. Len(last) = Cols - 1 BY <1>6, <1>10
    <3> QED BY <1>4, <1>5, <1>7, <1>9, <2>1, <2>3, <3>1 DEF Tell
  <2>8. /\ t \in Told /\ Len(t) = IF Len(all) > Rows + 1 THEN Rows + 1 ELSE Len(all)
        /\ \A k \in 0..Len(t) - 1 : Line(t, k) = Line(all, k)
    <3>1. Len(all) \in 1..Rows + 2 BY <1>1, <1>2, <2>4
    <3> QED BY <2>4, <2>7, <3>1, CutLemma
  <2>9. Len(t) = IF n > Rows THEN Rows + 1 ELSE n + 1 BY <1>1, <2>4, <2>8
  <2>10. Line(t, 0) = <<>> /\ Line(t, 1) = last BY <1>1, <2>6, <2>8, <2>9
  <2>11. ASSUME NEW k \in 1..Len(t) - 2 PROVE Line(t, k + 1) = Line(lines, k)
    <3>1. k + 1 \in 0..Len(t) - 1 /\ k \in 1..n - 1 BY <1>1, <2>9
    <3> QED BY <2>6, <2>8, <3>1
  <2>12. Len(Line(lines, 0)) + 1 = Cols - 1 BY <1>4, <1>10
  <2>13. LastIs(t, 0) BY <2>10 DEF LastIs
  <2> QED BY <1>2, <1>4, <1>5, <1>9, <2>8, <2>9, <2>10, <2>11, <2>12, <2>13
<1>11. CASE Len(old) + 1 # Cols - 1
  <2>1. PICK one : one = <<last>> OBVIOUS
  <2>2. one \in Seq(Seq(Character)) /\ Len(one) = 1 /\ one[1] = last BY <1>6, <2>1
  <2>3. PICK all : all = front \o one OBVIOUS
  <2>4. /\ all \in Seq(Seq(Character)) /\ Len(all) = n
        /\ \A i \in 1..n - 1 : all[i] = front[i]
        /\ \A i \in 1..1 : all[n - 1 + i] = one[i]
    <3>1. n \in Nat /\ n - 1 + 2 = n + 1 /\ n - 1 + 1 = n BY <1>2
    <3>2. all \in Seq(Seq(Character)) /\ Joins(all, front, one, n)
      <4>1. n \in Nat BY <3>1
      <4>2. front \in Seq(Seq(Character)) /\ one \in Seq(Seq(Character)) BY <1>8, <2>2
      <4>3. Len(front) = n - 1 BY <1>8
      <4>4. front \o one \in Seq(Seq(Character)) /\ Joins(front \o one, front, one, n)
        BY <4>1, <4>2, <4>3, Joined
      <4> QED BY <2>3, <4>4
    <3> QED BY <2>2, <3>1, <3>2 DEF Joins
  <2>5. all[n] = last /\ \A i \in 1..n - 1 : all[i] = lines[i]
    <3>1. n - 1 + 1 = n BY <1>2
    <3>2. all[n - 1 + 1] = last BY <2>2, <2>4
    <3> QED BY <1>8, <2>4, <3>1, <3>2
  <2>6. Line(all, 0) = last /\ \A k \in 1..n - 1 : Line(all, k) = Line(lines, k)
    <3>1. Len(all) - 0 = n /\ \A k \in 1..n - 1 : Len(all) - k = n - k /\ n - k \in 1..n - 1 BY <2>4
    <3> QED BY <1>2, <2>5, <3>1 DEF Line
  <2>7. t = SubSeq(all, IF Len(all) > Rows + 1 THEN 2 ELSE 1, Len(all))
    <3>1. Len(last) # Cols - 1 BY <1>6, <1>11
    <3> QED BY <1>4, <1>5, <1>7, <1>9, <2>1, <2>3, <3>1 DEF Tell
  <2>8. /\ t \in Told /\ Len(t) = IF Len(all) > Rows + 1 THEN Rows + 1 ELSE Len(all)
        /\ \A k \in 0..Len(t) - 1 : Line(t, k) = Line(all, k)
    <3>1. Len(all) \in 1..Rows + 2 BY <1>1, <2>4
    <3> QED BY <2>4, <2>7, <3>1, CutLemma
  <2>9. Len(t) = n BY <1>1, <2>4, <2>8
  <2>10. Line(t, 0) = last BY <1>1, <2>6, <2>8, <2>9
  <2>11. ASSUME NEW k \in 1..Len(t) - 1 PROVE Line(t, k) = Line(lines, k)
    <3>1. k \in 0..Len(t) - 1 /\ k \in 1..n - 1 BY <1>1, <2>9
    <3> QED BY <2>6, <2>8, <3>1
  <2>12. Len(Line(lines, 0)) + 1 # Cols - 1 BY <1>4, <1>11
  <2> QED BY <1>2, <1>4, <1>5, <1>9, <2>8, <2>9, <2>10, <2>11, <2>12
<1> QED BY <1>10, <1>11

\* A row is what its cells are; the row of an empty line is anything.
LEMMA RowsKept ==
    ASSUME NEW t, NEW u, u.screen = t.screen, NEW n \in Int, NEW lines, NEW y
    PROVE  RowsHave(u, n, lines, y) <=> RowsHave(t, n, lines, y)
BY DEF RowsHave, RowHas

LEMMA EmptyRow ==
    ASSUME NEW t, NEW lines, NEW n \in Nat, RowsHave(t, n - 1, lines, n), LastIs(lines, 0)
    PROVE  RowsHave(t, n, lines, n)
<1>1. RowHas(t, n, Line(lines, n - n))
  <2>1. n - n = 0 OBVIOUS
  <2>2. 1..Len(Line(lines, n - n)) = {} BY <2>1 DEF LastIs
  <2> QED BY <2>2 DEF RowHas
<1>2. \A r \in 0..n : r = n \/ r \in 0..n - 1 OBVIOUS
<1> QED BY <1>1, <1>2 DEF RowsHave

\* copy_overlapped: every line goes up a row, the first one out of the screen.
LEMMA CopyRows ==
    ASSUME NEW t \in TermType, t.y \in Row, NEW lines, NEW y \in Int, Len(lines) \in Nat,
           RowsHave(t, t.y, lines, y)
    PROVE  RowsHave(CopyUp(t), t.y - 1, lines, y - 1)
<1>1. t.y \in Nat /\ t.y \in 0..Rows - 1 /\ Rows \in Nat BY TerminalAssumption DEF Row
<1>2. \A r \in 0..t.y - 1 : CopyUp(t).screen[r] = t.screen[r + 1]
  <2> DEFINE s == [r \in Row |-> IF r < t.y THEN t.screen[r + 1] ELSE t.screen[r]]
  <2>1. CopyUp(t).screen = s BY DEF CopyUp, TermType
  <2>2. \A r \in 0..t.y - 1 : r \in Row /\ r < t.y BY <1>1 DEF Row
  <2> QED BY <2>1, <2>2
<1>3. ASSUME NEW r \in 0..t.y - 1 PROVE RowHas(CopyUp(t), r, Line(lines, y - 1 - r))
  <2>1. r + 1 \in 0..t.y /\ y - (r + 1) = y - 1 - r BY <1>1
  <2>2. RowHas(t, r + 1, Line(lines, y - 1 - r)) BY <2>1 DEF RowsHave
  <2> QED BY <1>2, <2>2 DEF RowHas
<1>4. y - 1 < Len(lines)
  <2>1. y < Len(lines) BY DEF RowsHave
  <2> QED BY <2>1
<1> QED BY <1>3, <1>4 DEF RowsHave

\* set_range: the rows above the cursor's stay.
LEMMA ClearRows ==
    ASSUME NEW t \in TermType, t.y \in Row, NEW lines, NEW y \in Int,
           RowsHave(t, t.y - 1, lines, y)
    PROVE  RowsHave(ClearRest(t), t.y - 1, lines, y) /\ ClearRest(t).x = 0 /\ ClearRest(t).y = t.y
<1>1. t.y \in Nat /\ t.y \in 0..Rows - 1 /\ Rows \in Nat BY TerminalAssumption DEF Row
<1> DEFINE s == [r \in Row |-> IF r < t.y THEN t.screen[r] ELSE [c \in Col |-> Blank]]
<1>2. ClearRest(t) = [t EXCEPT !.x = 0, !.screen = s]
  <2>1. ~(t.y > Rows) BY <1>1
  <2> QED BY <2>1 DEF ClearRest
<1>3. \A r \in 0..t.y - 1 : s[r] = t.screen[r]
  <2>1. \A r \in 0..t.y - 1 : r \in Row /\ r < t.y BY <1>1 DEF Row
  <2> QED BY <2>1
<1> HIDE DEF s
<1>4. ClearRest(t).screen = s /\ ClearRest(t).x = 0 /\ ClearRest(t).y = t.y BY <1>2 DEF TermType
<1> QED BY <1>3, <1>4 DEF RowsHave, RowHas

\* A newline is told: the lines are one further from the last.
LEMMA NewlineRows ==
    ASSUME NEW t, NEW lines \in Told, NEW y \in Int, y >= -1, y + 1 <= Rows, NEW n \in Int, n <= y,
           RowsHave(t, n, lines, y)
    PROVE  RowsHave(t, n, Tell(lines, Newline), y + 1) /\ LastIs(Tell(lines, Newline), 0)
<1>1. PICK new : new = Tell(lines, Newline) OBVIOUS
<1>2. /\ Len(new) = IF Len(lines) > Rows THEN Rows + 1 ELSE Len(lines) + 1
      /\ LastIs(new, 0) /\ \A k \in 0..Len(new) - 2 : Line(new, k + 1) = Line(lines, k)
  BY <1>1, TellNewline
<1>3. Len(lines) \in Nat /\ Rows \in Nat /\ y < Len(lines) BY TerminalAssumption DEF Told, RowsHave
<1>4. y + 1 < Len(new) /\ Len(new) \in Nat BY <1>2, <1>3
<1>5. ASSUME NEW r \in 0..n PROVE RowHas(t, r, Line(new, y + 1 - r))
  <2>1. y - r \in 0..Len(new) - 2 /\ y - r + 1 = y + 1 - r BY <1>4
  <2>2. Line(new, y + 1 - r) = Line(lines, y - r) BY <1>2, <2>1
  <2> QED BY <2>2 DEF RowsHave
<1> QED BY <1>1, <1>2, <1>4, <1>5 DEF RowsHave

\* A character is told that is drawn behind the last line.
LEMMA CharRows ==
    ASSUME NEW t \in TermType, NEW lines \in Told, NEW c \in Character, c # Newline,
           t.y \in Row, RowsHave(t, t.y, lines, t.y), LastIs(lines, t.x), t.screen[t.y][t.x] = c
    PROVE  IF t.x + 1 = Cols - 1
           THEN RowsHave(t, t.y, Tell(lines, c), t.y + 1) /\ LastIs(Tell(lines, c), 0)
           ELSE RowsHave(t, t.y, Tell(lines, c), t.y) /\ LastIs(Tell(lines, c), t.x + 1)
<1>1. /\ t.y \in Nat /\ t.y \in 0..Rows - 1 /\ Rows \in Nat /\ t.x \in Nat
      /\ lines \in Seq(Seq(Character)) /\ Len(lines) \in 1..Rows + 1
  BY TerminalAssumption DEF Row, Told, TermType
<1>2. PICK old : old = Line(lines, 0) OBVIOUS
<1>3. old \in Seq(Character) /\ Len(old) = t.x BY <1>1, <1>2 DEF Line, LastIs
<1>4. PICK last : last = Append(old, c) OBVIOUS
<1>5. /\ Len(last) = t.x + 1 /\ last[t.x + 1] = c
      /\ \A i \in 1..t.x : last[i] = old[i]
  BY <1>3, <1>4, AppendProperties
<1>6. RowHas(t, t.y, last)
  <2>1. RowHas(t, t.y, old)
    <3>1. t.y - t.y = 0 /\ t.y \in 0..t.y BY <1>1
    <3> QED BY <1>2, <3>1 DEF RowsHave
  <2>2. \A i \in 1..t.x : t.screen[t.y][i - 1] = last[i] BY <1>3, <1>5, <2>1 DEF RowHas
  <2>3. \A i \in 1..t.x + 1 : i \in 1..t.x \/ (i = t.x + 1 /\ i - 1 = t.x) BY <1>1
  <2> QED BY <1>5, <2>2, <2>3 DEF RowHas
<1>7. t.y < Len(lines) /\ \A r \in 0..t.y : RowHas(t, r, Line(lines, t.y - r)) BY DEF RowsHave
<1>8. PICK new : new = Tell(lines, c) OBVIOUS
<1>9. CASE t.x + 1 = Cols - 1
  <2>1. /\ Len(new) = IF Len(lines) > Rows THEN Rows + 1 ELSE Len(lines) + 1
        /\ LastIs(new, 0) /\ Line(new, 1) = last
        /\ \A k \in 1..Len(new) - 2 : Line(new, k + 1) = Line(lines, k)
    BY <1>2, <1>3, <1>4, <1>8, <1>9, TellChar
  <2>2. t.y + 1 < Len(new) /\ Len(new) \in Nat BY <1>1, <1>7, <2>1
  <2>3. ASSUME NEW r \in 0..t.y PROVE RowHas(t, r, Line(new, (t.y + 1) - r))
    <3>1. CASE r = t.y
      <4>1. (t.y + 1) - r = 1 BY <1>1, <3>1
      <4> QED BY <1>6, <2>1, <3>1, <4>1
    <3>2. CASE r # t.y
      <4>0. t.y \in Nat /\ r \in Nat /\ r < t.y BY <1>1, <3>2
      <4>1. t.y - r \in 1..Len(new) - 2 /\ t.y - r + 1 = (t.y + 1) - r BY <2>2, <4>0
      <4>2. Line(new, (t.y + 1) - r) = Line(lines, t.y - r) BY <2>1, <4>1
      <4> QED BY <1>7, <4>2
    <3> QED BY <3>1, <3>2
  <2>4. RowsHave(t, t.y, new, t.y + 1) BY <2>2, <2>3 DEF RowsHave
  <2> QED BY <1>8, <1>9, <2>1, <2>4
<1>10. CASE t.x + 1 # Cols - 1
  <2>1. /\ Len(new) = Len(lines) /\ Line(new, 0) = last
        /\ \A k \in 1..Len(new) - 1 : Line(new, k) = Line(lines, k)
    BY <1>2, <1>3, <1>4, <1>8, <1>10, TellChar
  <2>2. ASSUME NEW r \in 0..t.y PROVE RowHas(t, r, Line(new, t.y - r))
    <3>1. CASE r = t.y
      <4>1. t.y - r = 0 BY <1>1, <3>1
      <4> QED BY <1>6, <2>1, <3>1, <4>1
    <3>2. CASE r # t.y
      <4>1. t.y - r \in 1..Len(new) - 1 BY <1>1, <1>7, <2>1, <3>2
      <4>2. Line(new, t.y - r) = Line(lines, t.y - r) BY <2>1, <4>1
      <4> QED BY <1>7, <4>2
    <3> QED BY <3>1, <3>2
  <2>3. LastIs(new, t.x + 1) BY <1>5, <2>1 DEF LastIs
  <2>4. t.y < Len(new) BY <1>7, <2>1
  <2> QED BY <1>8, <1>10, <2>2, <2>3, <2>4 DEF RowsHave
<1> QED BY <1>9, <1>10

\* A character drawn behind the last line covers none of the lines.
LEMMA DrawRows ==
    ASSUME NEW t \in TermType, NEW lines \in Told, NEW c \in Character, t.x \in Col, t.y \in Row,
           RowsHave(t, t.y, lines, t.y), LastIs(lines, t.x)
    PROVE  LET u == WriteChar(t, c, t.x, t.y) IN
           /\ RowsHave(u, t.y, lines, t.y) /\ u.screen[t.y][t.x] = c
           /\ u.x = t.x /\ u.y = t.y
<1>1. t.x \in Nat /\ t.y \in Nat BY TerminalAssumption DEF Row, Col
<1>2. PICK u : u = WriteChar(t, c, t.x, t.y) OBVIOUS
<1>3. PICK s : s = [t.screen EXCEPT ![t.y][t.x] = c] OBVIOUS
<1>4. u = [t EXCEPT !.screen = s] BY <1>2, <1>3 DEF WriteChar
<1>5. u.screen = s /\ u.x = t.x /\ u.y = t.y BY <1>4 DEF TermType
<1>6. t.screen \in [Row -> [Col -> Cell]] /\ t.screen[t.y] \in [Col -> Cell] BY DEF TermType, Screens
<1>7. /\ s[t.y] = [t.screen[t.y] EXCEPT ![t.x] = c]
      /\ \A r \in Row : r # t.y => s[r] = t.screen[r]
  BY <1>3, <1>6
<1>8. s[t.y][t.x] = c /\ \A d \in Col : d # t.x => s[t.y][d] = t.screen[t.y][d] BY <1>6, <1>7
<1>9. ASSUME NEW r \in 0..t.y PROVE RowHas(u, r, Line(lines, t.y - r))
  <2>1. RowHas(t, r, Line(lines, t.y - r)) BY DEF RowsHave
  <2>2. CASE r # t.y
    <3>1. r \in Row BY <1>1, TerminalAssumption DEF Row
    <3> QED BY <1>5, <1>7, <2>1, <2>2, <3>1 DEF RowHas
  <2>3. CASE r = t.y
    <3>1. t.y - r = 0 BY <1>1, <2>3
    <3>2. \A d \in 1..t.x : d - 1 \in Col /\ d - 1 # t.x BY <1>1, TerminalAssumption DEF Col
    <3>3. \A d \in 1..t.x : s[t.y][d - 1] = t.screen[t.y][d - 1] BY <1>8, <3>2
    <3>4. Len(Line(lines, t.y - r)) = t.x BY <3>1 DEF LastIs
    <3> QED BY <1>5, <2>1, <2>3, <3>3, <3>4 DEF RowHas
  <2> QED BY <2>2, <2>3
<1>10. RowsHave(u, t.y, lines, t.y) BY <1>9 DEF RowsHave
<1> QED BY <1>2, <1>5, <1>8, <1>10

\* Until a handler formats into the buffer, what is drawn is the text's character.
LEMMA NextIsThis ==
    ASSUME PortInv, KernelTyped, kernel.pc \in InCharacter
    PROVE  ThisChar \in Character /\ (quiet => NextChar = ThisChar)
<1>1. /\ kernel.text.chars \in Seq(Character) /\ buffer \in Seq(Character)
      /\ kernel.text.kind \in {"literal", "number"}
  BY TextsAreTyped DEF PortInv
<1>2. kernel.pos \in 1..Len(kernel.text.chars) BY <1>1 DEF KernelTyped
<1>3. kernel.text.kind = "number" /\ quiet => buffer[kernel.pos] = kernel.text.chars[kernel.pos]
  BY <1>1, <1>2 DEF PortInv, NumberIsThere, InCharacter
<1> QED BY <1>1, <1>2, <1>3 DEF NextChar, ThisChar

LEMMA ToldTyped ==
    ASSUME NEW lines \in Told, NEW c \in Character
    PROVE  Tell(lines, c) \in Told
BY TellNewline, TellChar

\* The steps of parse_char and of the loop around it, while no interrupt was served.
LEMMA PrintShows ==
    ASSUME AloneInv, PortInv, TypesInv, ShowsInv, quiet,
           NextOrPort \/ ScrollUp \/ ScrollCopy \/ ScrollClear \/ Switch \/ NewlineStore
              \/ Draw \/ Advance \/ WrapTest \/ WrapDown \/ WrapLeft
    PROVE  ScreenIsRight'
<1>1. /\ DOMAIN kernel = KernelFields /\ term \in TermType /\ KernelTyped /\ Inside
      /\ told \in Told /\ ScreenIsRight
  BY DEF AloneInv, KernelIsRecord, TypesInv, ShowsInv
<1>2. /\ Rows \in Nat /\ Rows > 0 /\ Cols \in Nat /\ Cols > 1 /\ Len(told) \in Nat
      /\ term.x \in Nat /\ term.y \in Nat
  <2>1. term.x \in Nat /\ term.y \in 0..Wrap - 1 BY <1>1 DEF TermType
  <2> QED BY <1>1, <2>1, TerminalAssumption DEF Told
<1>3. kernel.pc \in InCharacter => ThisChar \in Character /\ NextChar = ThisChar
  BY <1>1, NextIsThis
<1> USE DEF At, GoTo, Change, KernelFields
<1>4. CASE NextOrPort
  <2>1. Settled(term, told) BY <1>1, <1>4 DEF NextOrPort, ScreenIsRight, Unmoved
  <2>2. UNCHANGED <<term, told>> /\ kernel'.pc \in {"lock", "up", "switch"}
    BY <1>1, <1>4 DEF NextOrPort
  <2> QED BY <2>1, <2>2 DEF ScreenIsRight, Unmoved, MakingRoom, EndingLine, Writing, Jumping
<1>5. CASE ScrollUp
  <2>1. Settled(term, told) /\ term.y = Rows
    BY <1>1, <1>5 DEF ScrollUp, ScreenIsRight, Unmoved, Inside, Scrolling
  <2>2. /\ told' = told /\ kernel'.pc = "copy" /\ kernel'.then = "switch"
        /\ term' = [term EXCEPT !.y = (term.y - 1) % Wrap]
    BY <1>1, <1>5 DEF ScrollUp, Up
  <2>3. (term.y - 1) % Wrap = Rows - 1 BY <1>2, <2>1, RowsDoNotWrap
  <2>4. term'.y = Rows - 1 /\ term'.screen = term.screen BY <1>1, <2>2, <2>3 DEF TermType
  <2>5. LastIs(told, 0) /\ RowsHave(term, Rows, told, Rows) BY <2>1 DEF Settled
  <2>6. RowsHave(term, Rows - 1, told, Rows) BY <1>2, <2>5 DEF RowsHave
  <2>7. RowsHave(term', Rows - 1, told, Rows) BY <1>2, <2>4, <2>6, RowsKept
  <2>8. term'.y + 1 = Rows BY <1>2, <2>4
  <2> QED BY <2>2, <2>4, <2>5, <2>7, <2>8
          DEF ScreenIsRight, Unmoved, MakingRoom, EndingLine, Writing, Jumping
<1>6. CASE ScrollCopy
  <2>1. /\ kernel.pc = "copy" /\ told' = told /\ kernel'.pc = "clear" /\ term' = CopyUp(term)
        /\ kernel'.then = kernel.then /\ ThisChar' = ThisChar
    BY <1>1, <1>6 DEF ScrollCopy, ThisChar
  <2>2. term.y \in Row /\ kernel.then \in {"switch", "wrap"}
    BY <1>1, <2>1 DEF Inside, Scrolling, Cursor, Row
  <2>3. term'.y = term.y BY <1>1, <2>1, <2>2 DEF CopyUp, TermType
  <2>4. CASE kernel.then = "switch"
    <3>1. RowsHave(term, term.y, told, term.y + 1) /\ LastIs(told, 0)
      BY <1>1, <2>1, <2>4 DEF ScreenIsRight, MakingRoom
    <3>2. term.y + 1 \in Int /\ term.y + 1 - 1 = term.y BY <1>2
    <3>3. RowsHave(term', term.y - 1, told, term.y) BY <1>1, <1>2, <2>1, <2>2, <3>1, <3>2, CopyRows
    <3> QED BY <2>1, <2>3, <2>4, <3>1, <3>3
            DEF ScreenIsRight, Unmoved, MakingRoom, EndingLine, Writing, Jumping
  <2>5. CASE kernel.then = "wrap"
    <3>1. RowsHave(term, term.y, told, term.y) /\ ThisChar = Newline
      BY <1>1, <2>1, <2>5 DEF ScreenIsRight, Unmoved, Settled, EndingLine
    <3>2. RowsHave(term', term.y - 1, told, term.y - 1) BY <1>1, <1>2, <2>1, <2>2, <3>1, CopyRows
    <3> QED BY <2>1, <2>3, <2>5, <3>1, <3>2
            DEF ScreenIsRight, Unmoved, MakingRoom, EndingLine, Writing, Jumping
  <2> QED BY <2>2, <2>4, <2>5
<1>7. CASE ScrollClear
  <2>1. /\ kernel.pc = "clear" /\ told' = told /\ kernel'.pc = kernel.then
        /\ term' = ClearRest(term) /\ ThisChar' = ThisChar
    BY <1>1, <1>7 DEF ScrollClear, ThisChar
  <2>2. term.y \in Row /\ kernel.then \in {"switch", "wrap"} /\ term.y \in 0..Rows - 1
    BY <1>1, <2>1 DEF Inside, Scrolling, Cursor, Row
  <2>3. CASE kernel.then = "switch"
    <3>1. RowsHave(term, term.y - 1, told, term.y) /\ LastIs(told, 0)
      BY <1>1, <2>1, <2>3 DEF ScreenIsRight, MakingRoom
    <3>2. RowsHave(term', term.y - 1, told, term.y) /\ term'.x = 0 /\ term'.y = term.y
      <4>1. term.y \in Int BY <1>2
      <4>2. /\ RowsHave(ClearRest(term), term.y - 1, told, term.y)
            /\ ClearRest(term).x = 0 /\ ClearRest(term).y = term.y
        BY <1>1, <2>2, <3>1, <4>1, ClearRows
      <4> QED BY <2>1, <4>2
    <3>3. RowsHave(term', term.y, told, term.y) BY <1>2, <3>1, <3>2, EmptyRow
    <3>4. Settled(term', told') BY <2>1, <3>1, <3>2, <3>3 DEF Settled
    <3> QED BY <2>1, <2>3, <3>4 DEF ScreenIsRight, Unmoved, MakingRoom, EndingLine, Writing, Jumping
  <2>4. CASE kernel.then = "wrap"
    <3>1. RowsHave(term, term.y - 1, told, term.y - 1) /\ ThisChar = Newline
      BY <1>1, <2>1, <2>4 DEF ScreenIsRight, EndingLine
    <3>2. RowsHave(term', term.y - 1, told, term.y - 1) /\ term'.x = 0 /\ term'.y = term.y
      <4>1. term.y - 1 \in Int BY <1>2
      <4>2. /\ RowsHave(ClearRest(term), term.y - 1, told, term.y - 1)
            /\ ClearRest(term).x = 0 /\ ClearRest(term).y = term.y
        BY <1>1, <2>2, <3>1, <4>1, ClearRows
      <4> QED BY <2>1, <4>2
    <3>3. PICK above \in Int : above = term.y - 1 BY <1>2
    <3>4. above >= -1 /\ above + 1 = term.y /\ above + 1 <= Rows BY <1>2, <2>2, <3>3
    <3>5. RowsHave(term', above, Tell(told, Newline), above + 1) /\ LastIs(Tell(told, Newline), 0)
      BY <1>1, <3>2, <3>3, <3>4, NewlineRows
    <3>6. RowsHave(term', term.y, Tell(told, Newline), term.y)
      BY <1>2, <3>3, <3>4, <3>5, EmptyRow
    <3>7. Settled(term', Tell(told', ThisChar')) BY <2>1, <3>1, <3>2, <3>5, <3>6 DEF Settled
    <3>8. ~AtEnd(term') BY <1>2, <3>2 DEF AtEnd
    <3> QED BY <2>1, <2>4, <3>7, <3>8 DEF ScreenIsRight, Unmoved, MakingRoom, EndingLine, Writing, Jumping
  <2> QED BY <2>2, <2>3, <2>4
<1>8. CASE Switch
  <2>1. /\ kernel.pc = "switch" /\ UNCHANGED <<term, told>> /\ NextChar = ThisChar /\ ThisChar' = ThisChar
    BY <1>1, <1>3, <1>8 DEF Switch, ThisChar, InCharacter
  <2>2. Settled(term, told) BY <1>1, <2>1 DEF ScreenIsRight, Unmoved
  <2>3. (term.y + 1) % Wrap = term.y + 1
    <3>1. term.y \in 0..Rows BY <1>1, <1>2, <2>1 DEF Inside, Scrolling, Cursor
    <3> QED BY <3>1, RowsDoNotWrap
  <2>4. \/ kernel'.pc = "draw" /\ ThisChar # Newline
        \/ kernel'.pc = "copy" /\ kernel'.then = "wrap" /\ ThisChar = Newline
        \/ kernel'.pc = "newline" /\ ThisChar = Newline /\ kernel'.y = term.y + 1
    BY <1>1, <1>8, <2>1, <2>3 DEF Switch
  <2> QED BY <2>1, <2>2, <2>4 DEF ScreenIsRight, Unmoved, MakingRoom, EndingLine, Writing, Jumping
<1>9. CASE NewlineStore
  <2>1. /\ kernel.pc = "newline" /\ told' = told /\ kernel'.pc = "wrap" /\ ThisChar' = ThisChar
        /\ term' = [term EXCEPT !.y = kernel.y, !.x = 0]
    BY <1>1, <1>9 DEF NewlineStore, ThisChar, NextRow
  <2>2. /\ RowsHave(term, term.y, told, term.y) /\ ThisChar = Newline /\ kernel.y = term.y + 1
    BY <1>1, <2>1 DEF ScreenIsRight, Unmoved, Settled, EndingLine
  <2>3. term'.y = term.y + 1 /\ term'.x = 0 /\ term'.screen = term.screen BY <1>1, <2>1, <2>2 DEF TermType
  <2>4. term.y + 1 <= Rows /\ term.y \in Int /\ term.y >= -1 /\ term.y + 1 - 1 = term.y
        /\ term.y + 1 \in Nat
    BY <1>1, <1>2, <2>1 DEF Inside, Drawing, Cursor
  <2>5. RowsHave(term, term.y, Tell(told, Newline), term.y + 1) /\ LastIs(Tell(told, Newline), 0)
    <3>1. PICK y \in Int : y = term.y BY <2>4
    <3>2. y >= -1 /\ y + 1 <= Rows /\ y <= y BY <2>4, <3>1
    <3>3. RowsHave(term, y, told, y) BY <2>2, <3>1
    <3>4. RowsHave(term, y, Tell(told, Newline), y + 1) /\ LastIs(Tell(told, Newline), 0)
      BY <1>1, <3>2, <3>3, NewlineRows
    <3> QED BY <3>1, <3>4
  <2>6. RowsHave(term, term.y + 1, Tell(told, Newline), term.y + 1) BY <2>4, <2>5, EmptyRow
  <2>7. RowsHave(term', term.y + 1, Tell(told, Newline), term.y + 1) BY <2>3, <2>4, <2>6, RowsKept
  <2>8. Settled(term', Tell(told', ThisChar')) BY <2>1, <2>2, <2>3, <2>5, <2>7 DEF Settled
  <2>9. ~AtEnd(term') BY <1>2, <2>3 DEF AtEnd
  <2> QED BY <2>1, <2>8, <2>9 DEF ScreenIsRight, Unmoved, MakingRoom, EndingLine, Writing, Jumping
<1>10. CASE Draw
  <2>1. /\ kernel.pc = "draw" /\ told' = told /\ kernel'.pc = "right" /\ ThisChar' = ThisChar
        /\ ThisChar \in Character /\ term' = WriteChar(term, ThisChar, kernel.x, kernel.y)
    BY <1>1, <1>3, <1>10 DEF Draw, ThisChar, InCharacter
  <2>2. /\ Settled(term, told) /\ ThisChar # Newline
    BY <1>1, <2>1 DEF ScreenIsRight, Unmoved, Writing
  <2>3. /\ kernel.x = term.x /\ kernel.y = term.y /\ term.x \in Col /\ term.y \in Row
    BY <1>1, <1>2, <2>1 DEF Inside, Drawing, Cursor, Row, Col
  <2>4. /\ RowsHave(term', term.y, told, term.y) /\ term'.screen[term.y][term.x] = ThisChar
        /\ term'.x = term.x /\ term'.y = term.y
    BY <1>1, <2>1, <2>2, <2>3, DrawRows DEF Settled
  <2>5. Settled(term', told') BY <2>1, <2>2, <2>4 DEF Settled
  <2> QED BY <2>1, <2>2, <2>4, <2>5 DEF ScreenIsRight, Unmoved, MakingRoom, EndingLine, Writing, Jumping
<1>11. CASE Advance
  <2>1. /\ kernel.pc = "right" /\ told' = told /\ kernel'.pc = "wrap" /\ ThisChar' = ThisChar
        /\ ThisChar \in Character /\ term' = [term EXCEPT !.x = term.x + 1]
    BY <1>1, <1>3, <1>11 DEF Advance, Right, ThisChar, InCharacter
  <2>2. /\ RowsHave(term, term.y, told, term.y) /\ LastIs(told, term.x) /\ ThisChar # Newline
        /\ term.screen[term.y][term.x] = ThisChar
    BY <1>1, <2>1 DEF ScreenIsRight, Unmoved, Writing, Settled
  <2>3. term.y \in Row /\ term.y # Rows /\ term.x <= Cols - 2
    BY <1>1, <1>2, <2>1 DEF Inside, Drawing, Cursor, Row
  <2>4. term'.x = term.x + 1 /\ term'.y = term.y /\ term'.screen = term.screen BY <1>1, <2>1 DEF TermType
  <2>5. AtEnd(term') <=> term.x + 1 = Cols - 1 BY <1>2, <2>3, <2>4 DEF AtEnd
  <2>6. PICK new : new = Tell(told, ThisChar) OBVIOUS
  <2>7. CASE term.x + 1 = Cols - 1
    <3>1. RowsHave(term, term.y, new, term.y + 1) /\ LastIs(new, 0)
      BY <1>1, <2>1, <2>2, <2>3, <2>6, <2>7, CharRows
    <3>2. RowsHave(term', term'.y, new, term'.y + 1) BY <1>2, <2>4, <3>1, RowsKept
    <3> QED BY <2>1, <2>5, <2>6, <2>7, <3>1, <3>2
            DEF ScreenIsRight, Unmoved, MakingRoom, EndingLine, Writing, Jumping
  <2>8. CASE term.x + 1 # Cols - 1
    <3>1. RowsHave(term, term.y, new, term.y) /\ LastIs(new, term.x + 1)
      BY <1>1, <2>1, <2>2, <2>3, <2>6, <2>8, CharRows
    <3>2. RowsHave(term', term'.y, new, term'.y) BY <1>2, <2>4, <3>1, RowsKept
    <3>3. Settled(term', new) BY <2>3, <2>4, <3>1, <3>2 DEF Settled
    <3> QED BY <2>1, <2>5, <2>6, <2>8, <3>3
            DEF ScreenIsRight, Unmoved, MakingRoom, EndingLine, Writing, Jumping
  <2> QED BY <2>7, <2>8
<1>12. CASE WrapTest
  <2>1. /\ kernel.pc = "wrap" /\ term' = term /\ told' = Tell(told, ThisChar)
        /\ kernel'.pc = IF AtEnd(term) THEN "down" ELSE "next"
    BY <1>1, <1>12 DEF WrapTest, ThisChar
  <2> QED BY <1>1, <2>1 DEF ScreenIsRight, Unmoved, MakingRoom, EndingLine, Writing, Jumping
<1>13. CASE WrapDown
  <2>1. /\ kernel.pc = "down" /\ told' = told /\ kernel'.pc = "left"
        /\ term' = [term EXCEPT !.y = (term.y + 1) % Wrap]
    BY <1>1, <1>13 DEF WrapDown, Down
  <2>2. RowsHave(term, term.y, told, term.y + 1) /\ LastIs(told, 0)
    BY <1>1, <2>1 DEF ScreenIsRight, Jumping
  <2>3. (term.y + 1) % Wrap = term.y + 1
    <3>1. term.y \in 0..Rows BY <1>1, <1>2, <2>1 DEF Inside, Wrapping, Cursor
    <3> QED BY <3>1, RowsDoNotWrap
  <2>4. term'.y = term.y + 1 /\ term'.screen = term.screen BY <1>1, <2>1, <2>3 DEF TermType
  <2>5. term.y + 1 \in Nat /\ term.y + 1 - 1 = term.y BY <1>2
  <2>6. RowsHave(term, term.y + 1, told, term.y + 1)
    <3>1. PICK n \in Nat : n = term.y + 1 BY <2>5
    <3>2. n - 1 = term.y BY <1>2, <3>1
    <3> QED BY <2>2, <3>1, <3>2, EmptyRow
  <2>7. RowsHave(term', term'.y, told, term'.y) BY <2>4, <2>5, <2>6, RowsKept
  <2> QED BY <2>1, <2>2, <2>7 DEF ScreenIsRight, Unmoved, MakingRoom, EndingLine, Writing, Jumping
<1>14. CASE WrapLeft
  <2>1. /\ kernel.pc = "left" /\ told' = told /\ kernel'.pc = "next" /\ term' = [term EXCEPT !.x = 0]
    BY <1>1, <1>14 DEF WrapLeft, Left
  <2>2. RowsHave(term, term.y, told, term.y) /\ LastIs(told, 0)
    BY <1>1, <2>1 DEF ScreenIsRight, Jumping
  <2>3. term'.y = term.y /\ term'.x = 0 /\ term'.screen = term.screen BY <1>1, <2>1 DEF TermType
  <2>4. RowsHave(term', term'.y, told, term'.y) BY <1>2, <2>2, <2>3, RowsKept
  <2>5. Settled(term', told') BY <2>1, <2>2, <2>3, <2>4 DEF Settled
  <2> QED BY <2>1, <2>5 DEF ScreenIsRight, Unmoved, MakingRoom, EndingLine, Writing, Jumping
<1> QED
  BY <1>4, <1>5, <1>6, <1>7, <1>8, <1>9, <1>10, <1>11, <1>12, <1>13, <1>14

\* The locks, and what starts between statements; after an interrupt nothing is said.
LEMMA OtherShows ==
    ASSUME LocksInv, ShowsInv,
           \/ PortLock \/ PortWrite \/ PortUnlock \/ HeapUnlock
           \/ InitKeyboard \/ StartIrq \/ KeyHit \/ Serve
           \/ \E text \in Texts : Log(text) \/ FreeFails(text)
    PROVE  ShowsInv'
<1>1. DOMAIN kernel = KernelFields /\ told \in Told BY DEF LocksInv, KernelIsRecord, ShowsInv
<1>2. CASE Serve BY <1>1, <1>2 DEF Serve, ShowsInv
<1>3. CASE KeyHit
  BY <1>3 DEF KeyHit, ShowsInv, ScreenIsRight, Unmoved, MakingRoom, EndingLine, Writing, Jumping, ThisChar
<1>4. CASE PortLock \/ PortWrite \/ PortUnlock \/ HeapUnlock \/ InitKeyboard \/ StartIrq
             \/ \E text \in Texts : Log(text) \/ FreeFails(text)
  <2>1. /\ UNCHANGED <<term, told, quiet>>
        /\ kernel.pc \in {"idle", "lock", "port", "unlock"}
        /\ kernel'.pc \in {"idle", "next", "port", "unlock"}
    <3> USE <1>1 DEF At, GoTo, KernelFields
    <3>1. CASE PortLock BY <3>1 DEF PortLock
    <3>2. CASE PortWrite BY <3>2 DEF PortWrite
    <3>3. CASE PortUnlock BY <3>3 DEF PortUnlock
    <3>4. CASE HeapUnlock BY <3>4 DEF HeapUnlock
    <3>5. CASE InitKeyboard \/ StartIrq BY <3>5 DEF InitKeyboard, StartIrq
    <3>6. ASSUME NEW text \in Texts, Log(text) \/ FreeFails(text)
          PROVE  /\ UNCHANGED <<term, told, quiet>> /\ kernel.pc = "idle" /\ kernel'.pc = "next"
      BY <3>6 DEF Log, FreeFails, Say
    <3> QED BY <1>4, <3>1, <3>2, <3>3, <3>4, <3>5, <3>6
  <2> QED BY <1>1, <2>1 DEF ShowsInv, ScreenIsRight, Unmoved, MakingRoom, EndingLine, Writing, Jumping
<1> QED BY <1>2, <1>3, <1>4

LEMMA ShowsInit == Init => ShowsInv
<1> SUFFICES ASSUME Init PROVE ShowsInv OBVIOUS
<1>1. /\ told = <<<<>>>> /\ kernel.pc = "idle" /\ term.x = 0 /\ term.y = 0 BY DEF Init
<1>2. told \in Told
  <2>1. told \in Seq(Seq(Character)) /\ Len(told) = 1 BY <1>1
  <2>2. 1 \in 1..Rows + 1 BY TerminalAssumption
  <2> QED BY <2>1, <2>2 DEF Told
<1>3. Len(Line(told, 0)) = 0
  <2>1. Len(told) = 1 /\ 1 - 0 = 1 /\ told[1] = <<>> BY <1>1
  <2>2. Line(told, 0) = <<>> BY <2>1 DEF Line
  <2> QED BY <2>2
<1>4. RowHas(term, 0, Line(told, 0))
  <2>1. 1..Len(Line(told, 0)) = {} BY <1>3
  <2> QED BY <2>1 DEF RowHas
<1>5. RowsHave(term, 0, told, 0)
  <2>1. 0 < Len(told) BY <1>1
  <2>2. \A r \in 0..0 : r = 0 OBVIOUS
  <2>3. 0 - 0 = 0 OBVIOUS
  <2> QED BY <1>4, <2>1, <2>2, <2>3 DEF RowsHave
<1>6. Settled(term, told) BY <1>1, <1>3, <1>5 DEF Settled, LastIs
<1> QED BY <1>1, <1>2, <1>6
        DEF ShowsInv, ScreenIsRight, Unmoved, MakingRoom, EndingLine, Writing, Jumping

LEMMA ShowsStep ==
    AloneInv /\ LocksInv /\ PortInv /\ TypesInv /\ ShowsInv /\ [Next]_vars => ShowsInv'
<1> SUFFICES ASSUME AloneInv, LocksInv, PortInv, TypesInv, ShowsInv, [Next]_vars PROVE ShowsInv'
  OBVIOUS
<1>1. CASE NextOrPort \/ ScrollUp \/ ScrollCopy \/ ScrollClear \/ Switch \/ NewlineStore
             \/ Draw \/ Advance \/ WrapTest \/ WrapDown \/ WrapLeft
  <2>1. UNCHANGED quiet /\ kernel.pc \in InCharacter \cup {"next"}
        /\ (told' = told \/ (kernel.pc = "wrap" /\ told' = Tell(told, ThisChar)))
    <3> USE DEF Change, At, InCharacter, ThisChar
    <3>1. CASE NextOrPort \/ ScrollUp \/ ScrollCopy \/ ScrollClear BY <3>1 DEF NextOrPort, ScrollUp, ScrollCopy, ScrollClear
    <3>2. CASE Switch BY <3>2 DEF Switch
    <3>3. CASE NewlineStore \/ Draw \/ Advance \/ WrapDown \/ WrapLeft
      BY <3>3 DEF NewlineStore, Draw, Advance, WrapDown, WrapLeft
    <3>4. CASE WrapTest BY <3>4 DEF WrapTest
    <3> QED BY <1>1, <3>1, <3>2, <3>3, <3>4
  <2>2. told' \in Told
    <3>1. told \in Told /\ KernelTyped BY DEF ShowsInv, TypesInv
    <3>2. kernel.pc = "wrap" => ThisChar \in Character BY <3>1, NextIsThis DEF InCharacter
    <3> QED BY <2>1, <3>1, <3>2, ToldTyped
  <2> QED BY <1>1, <2>1, <2>2, PrintShows DEF ShowsInv
<1>2. CASE \/ PortLock \/ PortWrite \/ PortUnlock \/ HeapUnlock
           \/ InitKeyboard \/ StartIrq \/ KeyHit \/ Serve
           \/ \E text \in Texts : Log(text) \/ FreeFails(text)
  BY <1>2, OtherShows
<1>3. CASE UNCHANGED vars
  BY <1>3 DEF vars, ShowsInv, ScreenIsRight, Unmoved, MakingRoom, EndingLine, Writing, Jumping, ThisChar
<1> QED BY <1>1, <1>2, <1>3 DEF Next, Step

\* Until an interrupt is served the screen shows the last lines of what the kernel printed,
\* one per row down to the cursor, whatever it prints and on a screen of any size:
\* parse_char and exec_newline (terminal.cpp) neither lose a line nor scroll early or late.
THEOREM ScreenShowsTheLog == Spec => []ShowsTail
<1>1. TypesInv /\ ShowsInv => ShowsTail
  <2> SUFFICES ASSUME TypesInv, ShowsInv, quiet,
                      kernel.pc \in {"next", "idle", "lock", "port", "unlock"}
               PROVE  LET top == Len(told) - term.y - 1 IN
                      /\ top >= 0 /\ Len(Last(told)) = term.x
                      /\ \A r \in 0..term.y :
                            LET line == told[top + r + 1]
                            IN  \A c \in 1..Len(line) : term.screen[r][c - 1] = line[c]
    BY DEF ShowsTail
  <2>1. /\ RowsHave(term, term.y, told, term.y) /\ LastIs(told, term.x)
    BY DEF ShowsInv, ScreenIsRight, Unmoved, Settled
  <2>2. Len(told) \in Nat /\ term.y \in Nat
    <3>1. term.y \in 0..Wrap - 1 BY DEF TypesInv, TermType
    <3> QED BY <3>1, TerminalAssumption DEF ShowsInv, Told
  <2>3. PICK top : top = Len(told) - term.y - 1 OBVIOUS
  <2>4. top \in Int /\ top >= 0 BY <2>1, <2>2, <2>3 DEF RowsHave
  <2>5. Len(Last(told)) = term.x
    <3>1. Len(told) - 0 = Len(told) BY <2>2
    <3> QED BY <2>1, <3>1 DEF Last, LastIs, Line
  <2>6. ASSUME NEW r \in 0..term.y PROVE RowHas(term, r, told[top + r + 1])
    <3>1. Len(told) - (term.y - r) = top + r + 1 BY <2>2, <2>3
    <3> QED BY <2>1, <3>1 DEF RowsHave, Line
  <2> QED BY <2>3, <2>4, <2>5, <2>6 DEF RowHas
<1> QED
  BY InsideInit, LocksInit, PortInit, TypesInit, ShowsInit, LocksKept, AloneKept, PortAndTypes,
     ShowsStep, <1>1, PTL
     DEF Spec

=============================================================================
