---------------------------- MODULE PagingProofs ----------------------------
(***************************************************************************)
(* The page tables stay a tree, and a page is translated as its last map   *)
(* call said: proof for tables of any size and any memory, first for any   *)
(* calls of Paging and then for those of the boot and the drivers.         *)
(*                                                                         *)
(* Every table has a level: 4 for the root, 0 for a page that is none.     *)
(* F is what entries point to, s a value of vm.                            *)
(***************************************************************************)
EXTENDS Boot, TLAPS

EntryTo(F) == [present : BOOLEAN, writable : BOOLEAN, noexec : BOOLEAN,
               huge : BOOLEAN, frame : F]
States(F) == [mem  : [Table -> [Index -> EntryTo(F)]],
              free : SUBSET Pool,
              stop : {"no", "panic", "stray", "null"}]

Leads(s, t, i) == IsTable(s.mem[t][i])

\* Entries lead one level down.
LevelsFall(s, lev) ==
    \A t \in Table, i \in Index :
        lev[t] >= 2 /\ Leads(s, t, i) => lev[s.mem[t][i].frame] = lev[t] - 1

\* To a table there is one way.
OneWay(s, lev) ==
    \A t, u \in Table, i, j \in Index :
        /\ lev[t] >= 2 /\ lev[u] >= 2 /\ Leads(s, t, i) /\ Leads(s, u, j)
        /\ s.mem[t][i].frame = s.mem[u][j].frame
        => t = u /\ i = j

\* A page that may be given out is no table, and leads nowhere.
FreeIsBare(s, lev) ==
    \A f \in s.free : lev[f] = 0 /\ \A i \in Index : ~Leads(s, f, i)

Levelled(s, lev) ==
    /\ lev \in [Table -> 0..4] /\ lev[Root] = 4
    /\ LevelsFall(s, lev) /\ OneWay(s, lev) /\ FreeIsBare(s, lev)

-----------------------------------------------------------------------------
(* One level down.                                                         *)

LEMMA PoolFacts == Root \in Table /\ Root \notin Pool /\ Pool \subseteq Table /\ NoFrame \notin Pool /\ Wild \notin Pool
BY PagingAssumption DEF Table

LEMMA MaskEntryLemma ==
    ASSUME NEW F, NEW f \in F, NEW mask \in Flags, NEW huge \in BOOLEAN
    PROVE  LET e == MaskEntry(f, mask, huge)
           IN  e \in EntryTo(F) /\ e.frame = f /\ e.huge = huge /\ (e.present <=> mask.present)
BY DEF MaskEntry, Flags, EntryTo

\* A free page becomes the table below an entry.
LEMMA NewTable ==
    ASSUME NEW F, Pool \subseteq F, NEW s \in States(F), NEW lev, Levelled(s, lev),
           NEW t \in Table, NEW i \in Index, lev[t] \in 2..4,
           NEW f \in s.free, NEW e \in EntryTo(F), e.frame = f, ~e.huge,
           NEW r \in States(F), r.mem = [s.mem EXCEPT ![t][i] = e], r.free = s.free \ {f}
    PROVE  Levelled(r, [lev EXCEPT ![f] = lev[t] - 1])
<1> DEFINE lev2 == [lev EXCEPT ![f] = lev[t] - 1]
<1>1. f \in Pool /\ f \in Table /\ f # Root /\ lev[f] = 0 /\ f # t
  BY PoolFacts DEF States, Levelled, FreeIsBare
<1>2. /\ lev2 \in [Table -> 0..4] /\ lev2[Root] = 4 /\ lev2[f] = lev[t] - 1
      /\ \A x \in Table \ {f} : lev2[x] = lev[x]
  BY <1>1, PoolFacts DEF Levelled
<1>3. /\ r.mem[t][i] = e
      /\ \A x \in Table, j \in Index : x # t \/ j # i => r.mem[x][j] = s.mem[x][j]
  BY DEF States
<1>4. \A j \in Index : ~Leads(r, f, j)
  BY <1>1, <1>3 DEF Levelled, FreeIsBare, Leads
<1>5. Leads(r, t, i) /\ r.mem[t][i].frame = f
  BY <1>1, <1>3 DEF Leads, IsTable
<1>6. \A x \in Table, j \in Index :
         lev[x] >= 2 /\ (x # t \/ j # i) /\ Leads(r, x, j) => r.mem[x][j].frame # f
  <2> SUFFICES ASSUME NEW x \in Table, NEW j \in Index, lev[x] >= 2, x # t \/ j # i, Leads(r, x, j)
               PROVE  r.mem[x][j].frame # f
    OBVIOUS
  <2>1. Leads(s, x, j) /\ r.mem[x][j] = s.mem[x][j]
    BY <1>3 DEF Leads
  <2>2. lev[s.mem[x][j].frame] = lev[x] - 1 /\ lev[x] \in 0..4
    BY <2>1 DEF Levelled, LevelsFall
  <2> QED
    BY <1>1, <2>1, <2>2
<1>7. LevelsFall(r, lev2)
  <2> SUFFICES ASSUME NEW x \in Table, NEW j \in Index, lev2[x] >= 2, Leads(r, x, j)
               PROVE  lev2[r.mem[x][j].frame] = lev2[x] - 1
    BY DEF LevelsFall
  <2>1. x # f /\ lev2[x] = lev[x]
    BY <1>2, <1>4
  <2>2. CASE x = t /\ j = i
    BY <1>1, <1>2, <1>5, <2>2
  <2>3. CASE x # t \/ j # i
    <3>1. Leads(s, x, j) /\ r.mem[x][j] = s.mem[x][j]
      BY <1>3, <2>3 DEF Leads
    <3>2. lev[s.mem[x][j].frame] = lev[x] - 1
      BY <2>1, <3>1 DEF Levelled, LevelsFall
    <3>3. s.mem[x][j].frame \in Table \ {f}
      BY <1>6, <2>1, <2>3, <3>1, PoolFacts DEF Leads, IsTable
    <3> QED
      BY <1>2, <2>1, <3>1, <3>2, <3>3
  <2> QED
    BY <2>2, <2>3
<1>8. OneWay(r, lev2)
  <2> SUFFICES ASSUME NEW x \in Table, NEW u \in Table, NEW j \in Index, NEW k \in Index,
                      lev2[x] >= 2, lev2[u] >= 2, Leads(r, x, j), Leads(r, u, k),
                      r.mem[x][j].frame = r.mem[u][k].frame
               PROVE  x = u /\ j = k
    BY DEF OneWay
  <2>1. x # f /\ u # f /\ lev[x] >= 2 /\ lev[u] >= 2
    BY <1>2, <1>4
  <2>2. CASE x = t /\ j = i
    BY <1>5, <1>6, <2>1, <2>2
  <2>3. CASE u = t /\ k = i
    BY <1>5, <1>6, <2>1, <2>3
  <2>4. CASE (x # t \/ j # i) /\ (u # t \/ k # i)
    BY <1>3, <2>1, <2>4 DEF Levelled, OneWay, Leads
  <2> QED
    BY <2>2, <2>3, <2>4
<1>9. FreeIsBare(r, lev2)
  <2> SUFFICES ASSUME NEW g \in s.free, g # f
               PROVE  lev2[g] = 0 /\ \A j \in Index : ~Leads(r, g, j)
    BY DEF FreeIsBare
  <2>1. g \in Table /\ lev[g] = 0 /\ g # t
    BY PoolFacts DEF States, Levelled, FreeIsBare
  <2>2. \A j \in Index : r.mem[g][j] = s.mem[g][j]
    BY <1>3, <2>1
  <2> QED
    BY <1>2, <2>1, <2>2 DEF Levelled, FreeIsBare, Leads
<1> QED
  BY <1>2, <1>7, <1>8, <1>9 DEF Levelled
\* Present entries stay, and no table but t is written.
Keeps(s, r) == \A x \in Table, j \in Index : s.mem[x][j].present => r.mem[x][j] = s.mem[x][j]
OnlyAt(s, r, t) == \A x \in Table \ {t} : r.mem[x] = s.mem[x]
SameLevels(lev, lev2) == \A x \in Table : lev[x] # 0 => lev2[x] = lev[x]

LEMMA AllocLemma ==
    ASSUME NEW F, Pool \subseteq F, NEW s \in States(F), NEW lev, Levelled(s, lev),
           NEW t \in Table, NEW v \in Vpage, NEW l \in 2..4, NEW mask \in Flags,
           s.stop = "no" => lev[t] = l
    PROVE  LET r == AllocPageIfNeeded(s, t, v, l, mask)
           IN  /\ r \in States(F) /\ Keeps(s, r) /\ OnlyAt(s, r, t)
               /\ \E lev2 : Levelled(r, lev2) /\ SameLevels(lev, lev2)
               /\ r.stop = "no" => s.stop = "no" /\ (mask.present => r.mem[t][v[l]].present)
<1> DEFINE r == AllocPageIfNeeded(s, t, v, l, mask)
           f == CHOOSE f \in s.free : TRUE
           e == MaskEntry(f, mask, FALSE)
<1>1. v[l] \in Index
  BY DEF Vpage, Level
<1>2. CASE s.stop # "no" \/ ~NeedsPage(EntryOf(s, t, v, l))
  <2>1. r = s
    BY <1>2 DEF AllocPageIfNeeded
  <2>2. r.stop = "no" => r.mem[t][v[l]].present
    BY <1>2, <2>1 DEF NeedsPage, EntryOf
  <2> QED
    BY <2>1, <2>2 DEF Keeps, OnlyAt, SameLevels
<1>3. CASE s.stop = "no" /\ NeedsPage(EntryOf(s, t, v, l)) /\ s.free = {}
  <2>1. r = [s EXCEPT !.stop = "panic"]
    BY <1>3 DEF AllocPageIfNeeded
  <2>2. r \in States(F) /\ r.mem = s.mem /\ r.free = s.free /\ r.stop = "panic"
    BY <2>1 DEF States
  <2>3. Levelled(r, lev)
    BY <2>2 DEF Levelled, LevelsFall, OneWay, FreeIsBare, Leads
  <2> QED
    BY <2>2, <2>3 DEF Keeps, OnlyAt, SameLevels
<1>4. CASE s.stop = "no" /\ NeedsPage(EntryOf(s, t, v, l)) /\ s.free # {}
  <2>1. r = [s EXCEPT !.mem[t][v[l]] = e, !.free = s.free \ {f}]
    BY <1>4 DEF AllocPageIfNeeded, Taken
  <2>2. f \in s.free /\ f \in F
    BY <1>4 DEF States
  <2>3. e \in EntryTo(F) /\ e.frame = f /\ ~e.huge /\ (e.present <=> mask.present)
    BY <2>2, MaskEntryLemma
  <2> HIDE DEF e, f, r
  <2>4. /\ r \in States(F) /\ r.mem = [s.mem EXCEPT ![t][v[l]] = e]
        /\ r.free = s.free \ {f} /\ r.stop = s.stop
    BY <1>1, <2>1, <2>3 DEF States
  <2>5. Levelled(r, [lev EXCEPT ![f] = lev[t] - 1])
    <3>1. lev[t] \in 2..4 /\ v[l] \in Index
      BY <1>1, <1>4
    <3>2. PICK i \in Index : i = v[l]
      BY <3>1
    <3>3. r.mem = [s.mem EXCEPT ![t][i] = e]
      BY <2>4, <3>2
    <3> QED
      BY <2>2, <2>3, <2>4, <3>1, <3>3, NewTable
  <2>6. SameLevels(lev, [lev EXCEPT ![f] = lev[t] - 1])
    BY <2>2 DEF SameLevels, Levelled, FreeIsBare
  <2>7. r.mem[t][v[l]] = e /\ ~s.mem[t][v[l]].present
    BY <1>1, <1>4, <2>4 DEF NeedsPage, EntryOf, States
  <2>8. Keeps(s, r) /\ OnlyAt(s, r, t)
    BY <1>1, <2>4, <2>7 DEF Keeps, OnlyAt, States
  <2> QED
    BY <1>4, <2>3, <2>4, <2>5, <2>6, <2>7, <2>8 DEF r
<1> QED
  BY <1>2, <1>3, <1>4

\* One level of the descent to v.
LEMMA DescendLemma ==
    ASSUME NEW F, Pool \subseteq F, NEW s \in States(F), NEW lev, Levelled(s, lev),
           NEW t \in Table, NEW v \in Vpage, NEW l \in 2..4, NEW mask \in Flags,
           s.stop = "no" => lev[t] = l
    PROVE  LET r == Descend(s, t, v, l, mask)[1]
               u == Descend(s, t, v, l, mask)[2]
           IN  /\ r \in States(F) /\ u \in Table /\ Keeps(s, r) /\ OnlyAt(s, r, t)
               /\ \E lev2 : /\ Levelled(r, lev2) /\ SameLevels(lev, lev2)
                            /\ r.stop = "no" => lev2[u] = l - 1
               /\ r.stop = "no" => /\ s.stop = "no"
                                   /\ Leads(r, t, v[l]) /\ r.mem[t][v[l]].frame = u
                                   /\ mask.present => r.mem[t][v[l]].present
<1> DEFINE fit == AllocPageIfNeeded(s, t, v, l, mask)
           r == Stray(fit, t, v, l)
           u == IF r.stop = "no" THEN EntryOf(fit, t, v, l).frame ELSE t
<1>1. Descend(s, t, v, l, mask) = <<r, u>>
  BY DEF Descend
<1>2. /\ fit \in States(F) /\ Keeps(s, fit) /\ OnlyAt(s, fit, t)
      /\ fit.stop = "no" => s.stop = "no" /\ (mask.present => fit.mem[t][v[l]].present)
  BY AllocLemma
<1>3. PICK lev2 : Levelled(fit, lev2) /\ SameLevels(lev, lev2)
  BY AllocLemma
<1>4. v[l] \in Index
  BY DEF Vpage, Level
<1> HIDE DEF fit
<1>5. /\ r \in States(F) /\ r.mem = fit.mem /\ r.free = fit.free
      /\ r.stop = "no" => fit.stop = "no" /\ IsTable(EntryOf(fit, t, v, l))
  BY <1>2 DEF Stray, States
<1> HIDE DEF r
<1>6. Levelled(r, lev2)
  BY <1>3, <1>5 DEF Levelled, LevelsFall, OneWay, FreeIsBare, Leads
<1>7. r.stop = "no" => /\ Leads(r, t, v[l]) /\ r.mem[t][v[l]].frame = u /\ u \in Table
                       /\ mask.present => r.mem[t][v[l]].present
  BY <1>2, <1>5, PoolFacts DEF Leads, IsTable, EntryOf
<1>8. r.stop = "no" => lev2[u] = l - 1
  <2> SUFFICES ASSUME r.stop = "no" PROVE lev2[u] = l - 1
    OBVIOUS
  <2>1. lev[t] = l /\ lev2[t] = l
    BY <1>2, <1>3, <1>5 DEF SameLevels
  <2> QED
    BY <1>4, <1>6, <1>7, <2>1 DEF Levelled, LevelsFall
<1>9. u \in Table /\ Keeps(s, r) /\ OnlyAt(s, r, t)
  BY <1>2, <1>5, <1>7 DEF Keeps, OnlyAt
<1> HIDE DEF u
<1> QED
  BY <1>1, <1>2, <1>3, <1>5, <1>6, <1>7, <1>8, <1>9

-----------------------------------------------------------------------------
(* map and map_huge_page.                                                  *)

\* The walk of v goes through the tables a, b and c; the entry at which it ends.
Walk(s, v, a, b, c) ==
    /\ Leads(s, Root, v[4]) /\ s.mem[Root][v[4]].frame = a
    /\ Leads(s, a, v[3]) /\ s.mem[a][v[3]].frame = b
    /\ Leads(s, b, v[2]) /\ s.mem[b][v[2]].frame = c
Present(s, v, a, b, c) ==
    s.mem[Root][v[4]].present /\ s.mem[a][v[3]].present /\ s.mem[b][v[2]].present

\* A page that is mapped to a frame, through present entries only.
MappedTo(s, v, frame) ==
    \E a, b, c \in Table : /\ Walk(s, v, a, b, c) /\ Present(s, v, a, b, c)
                           /\ s.mem[c][v[1]].present /\ s.mem[c][v[1]].frame = frame

LEMMA WalkLevels ==
    ASSUME NEW s, NEW lev, Levelled(s, lev), NEW v \in Vpage,
           NEW a \in Table, NEW b \in Table, NEW c \in Table, Walk(s, v, a, b, c)
    PROVE  lev[a] = 3 /\ lev[b] = 2 /\ lev[c] = 1
<1>1. \A l \in 1..4 : v[l] \in Index
  BY DEF Vpage, Level
<1>2. lev[a] = 3
  BY <1>1, PoolFacts DEF Levelled, LevelsFall, Walk
<1>3. lev[b] = 2
  BY <1>1, <1>2 DEF Levelled, LevelsFall, Walk
<1> QED
  BY <1>1, <1>2, <1>3 DEF Levelled, LevelsFall, Walk

\* Pages that share a table share the way to it.
LEMMA WalksMeet ==
    ASSUME NEW s, NEW lev, Levelled(s, lev), NEW v \in Vpage, NEW w \in Vpage,
           NEW a \in Table, NEW b \in Table, NEW c \in Table, Walk(s, v, a, b, c),
           NEW x \in Table, NEW y \in Table, NEW z \in Table, Walk(s, w, x, y, z)
    PROVE  /\ b = y => v[4] = w[4] /\ v[3] = w[3]
           /\ c = z => v[4] = w[4] /\ v[3] = w[3] /\ v[2] = w[2]
<1>1. \A l \in 1..4 : v[l] \in Index /\ w[l] \in Index
  BY DEF Vpage, Level
<1>2. /\ lev[a] = 3 /\ lev[b] = 2 /\ lev[x] = 3 /\ lev[y] = 2 /\ lev[Root] = 4
  BY WalkLevels DEF Levelled
<1>3. a = x => v[4] = w[4]
  BY <1>1, <1>2, PoolFacts DEF Levelled, OneWay, Walk
<1>4. b = y => a = x /\ v[3] = w[3]
  BY <1>1, <1>2 DEF Levelled, OneWay, Walk
<1>5. c = z => b = y /\ v[2] = w[2]
  BY <1>1, <1>2 DEF Levelled, OneWay, Walk
<1> QED
  BY <1>3, <1>4, <1>5
LEMMA KeepsWalk ==
    ASSUME NEW F, NEW s \in States(F), NEW r, Keeps(s, r), NEW v \in Vpage, NEW frame,
           MappedTo(s, v, frame)
    PROVE  MappedTo(r, v, frame)
<1>1. \A l \in 1..4 : v[l] \in Index
  BY DEF Vpage, Level
<1> QED
  BY <1>1, PoolFacts DEF Keeps, MappedTo, Walk, Present, Leads

Down3(s, v, mask) == Descend(s, Root, v, 4, mask)
Down2(s, v, mask) == Descend(Down3(s, v, mask)[1], Down3(s, v, mask)[2], v, 3, mask)
Down1(s, v, mask) == Descend(Down2(s, v, mask)[1], Down2(s, v, mask)[2], v, 2, mask)

\* The descent of map and of map_huge_page to level 2.
LEMMA TwoDown ==
    ASSUME NEW F, Pool \subseteq F, NEW s \in States(F), NEW lev, Levelled(s, lev),
           NEW v \in Vpage, NEW mask \in Flags
    PROVE  LET r == Down2(s, v, mask)[1]
               a == Down3(s, v, mask)[2]
               b == Down2(s, v, mask)[2]
           IN  /\ r \in States(F) /\ a \in Table /\ b \in Table /\ Keeps(s, r)
               /\ \E lev2 : /\ Levelled(r, lev2)
                            /\ r.stop = "no" => lev2[a] = 3 /\ lev2[b] = 2
               /\ r.stop = "no" =>
                     /\ s.stop = "no"
                     /\ Leads(r, Root, v[4]) /\ r.mem[Root][v[4]].frame = a
                     /\ Leads(r, a, v[3]) /\ r.mem[a][v[3]].frame = b
                     /\ mask.present => r.mem[Root][v[4]].present /\ r.mem[a][v[3]].present
<1> DEFINE q == Down3(s, v, mask)[1]
           a == Down3(s, v, mask)[2]
           r == Descend(q, a, v, 3, mask)[1]
           b == Descend(q, a, v, 3, mask)[2]
<1>1. \A l \in 1..4 : v[l] \in Index
  BY DEF Vpage, Level
<1>2. /\ q \in States(F) /\ a \in Table /\ Keeps(s, q)
      /\ \E lev1 : Levelled(q, lev1) /\ (q.stop = "no" => lev1[a] = 3)
      /\ q.stop = "no" => /\ s.stop = "no"
                          /\ Leads(q, Root, v[4]) /\ q.mem[Root][v[4]].frame = a
                          /\ mask.present => q.mem[Root][v[4]].present
  <2>1. lev[Root] = 4 /\ 4 \in 2..4
    BY DEF Levelled
  <2>2. s.stop = "no" => lev[Root] = 4
    BY <2>1
  <2> HIDE DEF q, a
  <2> QED
    BY <2>1, <2>2, DescendLemma, PoolFacts DEF q, a, Down3
<1>3. PICK lev1 : Levelled(q, lev1) /\ (q.stop = "no" => lev1[a] = 3)
  BY <1>2
<1> HIDE DEF q, a
<1>4. /\ r \in States(F) /\ b \in Table /\ Keeps(q, r) /\ OnlyAt(q, r, a)
      /\ \E lev2 : /\ Levelled(r, lev2) /\ SameLevels(lev1, lev2)
                   /\ r.stop = "no" => lev2[b] = 2
      /\ r.stop = "no" => /\ q.stop = "no"
                          /\ Leads(r, a, v[3]) /\ r.mem[a][v[3]].frame = b
                          /\ mask.present => r.mem[a][v[3]].present
  BY <1>2, <1>3, DescendLemma
<1>5. PICK lev2 : /\ Levelled(r, lev2) /\ SameLevels(lev1, lev2)
                  /\ r.stop = "no" => lev2[b] = 2
  BY <1>4
<1> HIDE DEF r, b
<1>6. r.stop = "no" => lev2[a] = 3
  BY <1>2, <1>3, <1>4, <1>5 DEF SameLevels
<1>7. r.stop = "no" => r.mem[Root] = q.mem[Root]
  <2>1. r.stop = "no" => a # Root
    BY <1>5, <1>6 DEF Levelled
  <2> QED
    BY <1>4, <2>1, PoolFacts DEF OnlyAt
<1>8. Keeps(s, r)
  <2> SUFFICES ASSUME NEW x \in Table, NEW j \in Index, s.mem[x][j].present
               PROVE  r.mem[x][j] = s.mem[x][j]
    BY DEF Keeps
  <2> QED
    BY <1>2, <1>4 DEF Keeps
<1>9. r.stop = "no" =>
          /\ s.stop = "no"
          /\ Leads(r, Root, v[4]) /\ r.mem[Root][v[4]].frame = a
          /\ Leads(r, a, v[3]) /\ r.mem[a][v[3]].frame = b
          /\ mask.present => r.mem[Root][v[4]].present /\ r.mem[a][v[3]].present
  BY <1>2, <1>4, <1>7 DEF Leads
<1> QED
  BY <1>2, <1>4, <1>5, <1>6, <1>8, <1>9 DEF q, a, r, b, Down2

\* map, before it writes the entry: the way to v is there.
LEMMA ThreeDown ==
    ASSUME NEW F, Pool \subseteq F, NEW s \in States(F), NEW lev, Levelled(s, lev),
           NEW v \in Vpage, NEW mask \in Flags
    PROVE  LET r == Down1(s, v, mask)[1]
               a == Down3(s, v, mask)[2]
               b == Down2(s, v, mask)[2]
               c == Down1(s, v, mask)[2]
           IN  /\ r \in States(F) /\ a \in Table /\ b \in Table /\ c \in Table /\ Keeps(s, r)
               /\ \E lev2 : Levelled(r, lev2)
               /\ r.stop = "no" => /\ s.stop = "no" /\ Walk(r, v, a, b, c)
                                   /\ mask.present => Present(r, v, a, b, c)
<1> DEFINE q == Down2(s, v, mask)[1]
           a == Down3(s, v, mask)[2]
           b == Down2(s, v, mask)[2]
           r == Descend(q, b, v, 2, mask)[1]
           c == Descend(q, b, v, 2, mask)[2]
<1>1. /\ q \in States(F) /\ a \in Table /\ b \in Table /\ Keeps(s, q)
      /\ \E lev1 : /\ Levelled(q, lev1)
                   /\ q.stop = "no" => lev1[a] = 3 /\ lev1[b] = 2
      /\ q.stop = "no" =>
            /\ s.stop = "no"
            /\ Leads(q, Root, v[4]) /\ q.mem[Root][v[4]].frame = a
            /\ Leads(q, a, v[3]) /\ q.mem[a][v[3]].frame = b
            /\ mask.present => q.mem[Root][v[4]].present /\ q.mem[a][v[3]].present
  BY TwoDown
<1>2. PICK lev1 : Levelled(q, lev1) /\ (q.stop = "no" => lev1[a] = 3 /\ lev1[b] = 2)
  BY <1>1
<1> HIDE DEF q, a, b
<1>3. /\ r \in States(F) /\ c \in Table /\ Keeps(q, r) /\ OnlyAt(q, r, b)
      /\ \E lev2 : Levelled(r, lev2)
      /\ r.stop = "no" => /\ q.stop = "no"
                          /\ Leads(r, b, v[2]) /\ r.mem[b][v[2]].frame = c
                          /\ mask.present => r.mem[b][v[2]].present
  BY <1>1, <1>2, DescendLemma
<1> HIDE DEF r, c
<1>4. r.stop = "no" => r.mem[Root] = q.mem[Root] /\ r.mem[a] = q.mem[a]
  <2>1. r.stop = "no" => b # Root /\ b # a
    BY <1>2, <1>3 DEF Levelled
  <2> QED
    BY <1>1, <1>3, <2>1, PoolFacts DEF OnlyAt
<1>5. Keeps(s, r)
  <2> SUFFICES ASSUME NEW x \in Table, NEW j \in Index, s.mem[x][j].present
               PROVE  r.mem[x][j] = s.mem[x][j]
    BY DEF Keeps
  <2> QED
    BY <1>1, <1>3 DEF Keeps
<1>6. r.stop = "no" => /\ s.stop = "no" /\ Walk(r, v, a, b, c)
                       /\ mask.present => Present(r, v, a, b, c)
  BY <1>1, <1>3, <1>4 DEF Walk, Present, Leads
<1> QED
  BY <1>1, <1>3, <1>5, <1>6 DEF a, b, q, r, c, Down1
\* A page's entry, or a huge one, leads to no table.
LEMMA WriteLemma ==
    ASSUME NEW F, NEW s \in States(F), NEW lev, Levelled(s, lev),
           NEW t \in Table, NEW i \in Index, NEW e \in EntryTo(F),
           lev[t] = 1 \/ (lev[t] = 2 /\ ~IsTable(e)),
           NEW r, r.mem = [s.mem EXCEPT ![t][i] = e], r.free = s.free
    PROVE  Levelled(r, lev)
<1>1. \A x \in Table, j \in Index : x # t \/ j # i => r.mem[x][j] = s.mem[x][j]
  BY DEF States
<1>2. r.mem[t][i] = e
  BY DEF States
<1>3. \A x \in Table, j \in Index :
         lev[x] >= 2 /\ Leads(r, x, j) => Leads(s, x, j) /\ r.mem[x][j] = s.mem[x][j]
  BY <1>1, <1>2 DEF Leads
<1>4. LevelsFall(r, lev)
  BY <1>3 DEF LevelsFall, Levelled
<1>5. OneWay(r, lev)
  <2> SUFFICES ASSUME NEW x \in Table, NEW u \in Table, NEW j \in Index, NEW k \in Index,
                      lev[x] >= 2, lev[u] >= 2, Leads(r, x, j), Leads(r, u, k),
                      r.mem[x][j].frame = r.mem[u][k].frame
               PROVE  x = u /\ j = k
    BY DEF OneWay
  <2> QED
    BY <1>3 DEF OneWay, Levelled
<1>6. FreeIsBare(r, lev)
  <2> SUFFICES ASSUME NEW f \in s.free
               PROVE  lev[f] = 0 /\ \A j \in Index : ~Leads(r, f, j)
    BY DEF FreeIsBare
  <2>1. f \in Table /\ lev[f] = 0
    BY PoolFacts DEF States, Levelled, FreeIsBare
  <2> QED
    BY <1>1, <2>1 DEF Levelled, FreeIsBare, Leads
<1> QED
  BY <1>4, <1>5, <1>6 DEF Levelled

LEMMA WriteIsTyped ==
    ASSUME NEW F, NEW s \in States(F), NEW t \in Table, NEW v \in Vpage, NEW l \in 1..4,
           NEW e \in EntryTo(F), s.stop = "no"
    PROVE  LET r == Write(s, t, v, l, e)
           IN  /\ r \in States(F) /\ r.stop = "no" /\ r.free = s.free
               /\ r.mem = [s.mem EXCEPT ![t][v[l]] = e]
               /\ r.mem[t][v[l]] = e
               /\ \A x \in Table, j \in Index : x # t \/ j # v[l] => r.mem[x][j] = s.mem[x][j]
<1>1. v[l] \in Index
  BY DEF Vpage, Level
<1>2. Write(s, t, v, l, e) = [s EXCEPT !.mem[t][v[l]] = e]
  BY DEF Write
<1> DEFINE r == Write(s, t, v, l, e)
<1>3. r.mem = [s.mem EXCEPT ![t][v[l]] = e] /\ r.free = s.free /\ r.stop = "no"
  BY <1>2 DEF States
<1>4. r.mem \in [Table -> [Index -> EntryTo(F)]]
  BY <1>1, <1>3 DEF States
<1>5. r \in States(F)
  BY <1>2, <1>3, <1>4 DEF States
<1> HIDE DEF r
<1>6. /\ r.mem[t][v[l]] = e
      /\ \A x \in Table, j \in Index : x # t \/ j # v[l] => r.mem[x][j] = s.mem[x][j]
  BY <1>1, <1>3 DEF States
<1> QED
  BY <1>3, <1>5, <1>6 DEF r

\* map: v is mapped as asked, and no other page's mapping changes.
LEMMA MapPageLemma ==
    ASSUME NEW F, Pool \subseteq F, NEW s \in States(F), NEW lev, Levelled(s, lev),
           NEW v \in Vpage, NEW mask \in Flags, NEW to \in F
    PROVE  LET r == MapPage(s, v, to, mask)
           IN  /\ r \in States(F) /\ \E lev2 : Levelled(r, lev2)
               /\ r.stop = "no" =>
                     /\ s.stop = "no" /\ Leads(r, Root, v[4])
                     /\ mask.present => MappedTo(r, v, to)
                     /\ \A w \in Vpage \ {v}, x \in F : MappedTo(s, w, x) => MappedTo(r, w, x)
<1> DEFINE q == Down1(s, v, mask)[1]
           a == Down3(s, v, mask)[2]
           b == Down2(s, v, mask)[2]
           c == Down1(s, v, mask)[2]
           e == MaskEntry(to, mask, FALSE)
           r == Write(q, c, v, 1, e)
<1>1. MapPage(s, v, to, mask) = r
  BY DEF MapPage, Down1, Down2, Down3
<1>2. /\ q \in States(F) /\ a \in Table /\ b \in Table /\ c \in Table /\ Keeps(s, q)
      /\ \E lev2 : Levelled(q, lev2)
      /\ q.stop = "no" => /\ s.stop = "no" /\ Walk(q, v, a, b, c)
                          /\ mask.present => Present(q, v, a, b, c)
  BY ThreeDown
<1>3. PICK lev2 : Levelled(q, lev2)
  BY <1>2
<1>4. e \in EntryTo(F) /\ e.frame = to /\ (e.present <=> mask.present)
  BY MaskEntryLemma
<1> HIDE DEF q, a, b, c, e
<1>5. CASE q.stop # "no"
  <2>1. r = q
    BY <1>5 DEF Write
  <2> QED
    BY <1>1, <1>2, <1>5, <2>1
<1>6. CASE q.stop = "no"
  <2>1. /\ r \in States(F) /\ r.stop = "no" /\ r.free = q.free
        /\ r.mem = [q.mem EXCEPT ![c][v[1]] = e]
        /\ r.mem[c][v[1]] = e
        /\ \A x \in Table, j \in Index : x # c \/ j # v[1] => r.mem[x][j] = q.mem[x][j]
    BY <1>2, <1>4, <1>6, WriteIsTyped
  <2> HIDE DEF r
  <2>2. lev2[a] = 3 /\ lev2[b] = 2 /\ lev2[c] = 1 /\ lev2[Root] = 4
    BY <1>2, <1>3, <1>6, WalkLevels DEF Levelled
  <2>3. Levelled(r, lev2)
    <3>1. PICK i \in Index : i = v[1]
      BY DEF Vpage, Level
    <3>2. r.mem = [q.mem EXCEPT ![c][i] = e]
      BY <2>1, <3>1
    <3> QED
      BY <1>2, <1>3, <1>4, <2>1, <2>2, <3>2, WriteLemma
  <2>4. \A l \in 1..4 : v[l] \in Index
    BY DEF Vpage, Level
  <2>5. /\ r.mem[Root][v[4]] = q.mem[Root][v[4]]
        /\ r.mem[a][v[3]] = q.mem[a][v[3]]
        /\ r.mem[b][v[2]] = q.mem[b][v[2]]
    BY <1>2, <2>1, <2>2, <2>4, PoolFacts
  <2>6. Walk(r, v, a, b, c) /\ (mask.present => Present(r, v, a, b, c))
    BY <1>2, <1>6, <2>5 DEF Walk, Present, Leads
  <2>7. mask.present => MappedTo(r, v, to)
    BY <1>2, <1>4, <2>1, <2>6 DEF MappedTo
  <2>8. ASSUME NEW w \in Vpage \ {v}, NEW y \in F, MappedTo(s, w, y)
        PROVE  MappedTo(r, w, y)
    <3>1. MappedTo(q, w, y)
      BY <1>2, <2>8, KeepsWalk
    <3>2. PICK f, g, h \in Table :
             /\ Walk(q, w, f, g, h) /\ Present(q, w, f, g, h)
             /\ q.mem[h][w[1]].present /\ q.mem[h][w[1]].frame = y
      BY <3>1 DEF MappedTo
    <3>3. lev2[f] = 3 /\ lev2[g] = 2 /\ lev2[h] = 1
      BY <1>2, <1>3, <3>2, WalkLevels
    <3>4. \A l \in 1..4 : w[l] \in Index
      BY DEF Vpage, Level
    <3>5. /\ r.mem[Root][w[4]] = q.mem[Root][w[4]]
          /\ r.mem[f][w[3]] = q.mem[f][w[3]]
          /\ r.mem[g][w[2]] = q.mem[g][w[2]]
      BY <2>1, <2>2, <3>2, <3>3, <3>4, PoolFacts
    <3>6. ~(h = c /\ w[1] = v[1])
      <4> SUFFICES ASSUME h = c, w[1] = v[1] PROVE FALSE
        OBVIOUS
      <4>1. v[4] = w[4] /\ v[3] = w[3] /\ v[2] = w[2]
        BY <1>2, <1>3, <1>6, <3>2, WalksMeet
      <4>2. \A l \in 1..4 : v[l] = w[l]
        BY <4>1
      <4> QED
        BY <4>2 DEF Vpage, Level
    <3>7. r.mem[h][w[1]] = q.mem[h][w[1]]
      BY <2>1, <3>2, <3>4, <3>6
    <3> QED
      BY <3>2, <3>5, <3>7 DEF MappedTo, Walk, Present, Leads
  <2> QED
    BY <1>1, <1>2, <1>6, <2>1, <2>3, <2>6, <2>7, <2>8 DEF Walk
<1> QED
  BY <1>5, <1>6

\* map_huge_page: the pages outside the 2 MiB keep their mappings.
LEMMA MapHugeLemma ==
    ASSUME NEW F, Pool \subseteq F, NEW s \in States(F), NEW lev, Levelled(s, lev),
           NEW v \in Vpage, NEW mask \in Flags, NEW to, HugeBase(to) \in F
    PROVE  LET r == MapHuge(s, v, to, mask)
           IN  /\ r \in States(F) /\ \E lev2 : Levelled(r, lev2)
               /\ r.stop = "no" =>
                     /\ s.stop = "no" /\ Leads(r, Root, v[4])
                     /\ \A w \in Vpage, x \in F :
                           ~SameHuge(v, w) /\ MappedTo(s, w, x) => MappedTo(r, w, x)
<1> DEFINE q == Down2(s, v, mask)[1]
           a == Down3(s, v, mask)[2]
           b == Down2(s, v, mask)[2]
           e == MaskEntry(HugeBase(to), mask, TRUE)
           r == Write(q, b, v, 2, e)
<1>1. MapHuge(s, v, to, mask) = r
  BY DEF MapHuge, Down2, Down3
<1>2. /\ q \in States(F) /\ a \in Table /\ b \in Table /\ Keeps(s, q)
      /\ \E lev2 : /\ Levelled(q, lev2)
                   /\ q.stop = "no" => lev2[a] = 3 /\ lev2[b] = 2
      /\ q.stop = "no" =>
            /\ s.stop = "no"
            /\ Leads(q, Root, v[4]) /\ q.mem[Root][v[4]].frame = a
            /\ Leads(q, a, v[3]) /\ q.mem[a][v[3]].frame = b
  BY TwoDown
<1>3. PICK lev2 : /\ Levelled(q, lev2)
                  /\ q.stop = "no" => lev2[a] = 3 /\ lev2[b] = 2
  BY <1>2
<1>4. e \in EntryTo(F) /\ e.huge = TRUE
  BY MaskEntryLemma
<1>5. ~IsTable(e)
  BY <1>4 DEF IsTable
<1> HIDE DEF q, a, b, e
<1>6. CASE q.stop # "no"
  <2>1. r = q
    BY <1>6 DEF Write
  <2> QED
    BY <1>1, <1>2, <1>6, <2>1
<1>7. CASE q.stop = "no"
  <2>1. /\ r \in States(F) /\ r.stop = "no" /\ r.free = q.free
        /\ r.mem = [q.mem EXCEPT ![b][v[2]] = e]
        /\ r.mem[b][v[2]] = e
        /\ \A x \in Table, j \in Index : x # b \/ j # v[2] => r.mem[x][j] = q.mem[x][j]
    <3>1. 2 \in 1..4 /\ q \in States(F) /\ b \in Table /\ e \in EntryTo(F)
      BY <1>2, <1>4
    <3> QED
      BY <1>7, <3>1, WriteIsTyped
  <2> HIDE DEF r
  <2>2. lev2[a] = 3 /\ lev2[b] = 2 /\ lev2[Root] = 4
    BY <1>3, <1>7 DEF Levelled
  <2>3. Levelled(r, lev2)
    <3>1. PICK i \in Index : i = v[2]
      BY DEF Vpage, Level
    <3>2. r.mem = [q.mem EXCEPT ![b][i] = e]
      BY <2>1, <3>1
    <3> QED
      BY <1>2, <1>3, <1>4, <1>5, <2>1, <2>2, <3>2, WriteLemma
  <2>4. \A l \in 1..4 : v[l] \in Index
    BY DEF Vpage, Level
  <2>5. Leads(r, Root, v[4])
    BY <1>2, <1>7, <2>1, <2>2, <2>4, PoolFacts DEF Leads
  <2>6. ASSUME NEW w \in Vpage, NEW y \in F, ~SameHuge(v, w), MappedTo(s, w, y)
        PROVE  MappedTo(r, w, y)
    <3>1. MappedTo(q, w, y)
      BY <1>2, <2>6, KeepsWalk
    <3>2. PICK f, g, h \in Table :
             /\ Walk(q, w, f, g, h) /\ Present(q, w, f, g, h)
             /\ q.mem[h][w[1]].present /\ q.mem[h][w[1]].frame = y
      BY <3>1 DEF MappedTo
    <3>3. lev2[f] = 3 /\ lev2[g] = 2 /\ lev2[h] = 1
      BY <1>2, <1>3, <3>2, WalkLevels
    <3>4. \A l \in 1..4 : w[l] \in Index
      BY DEF Vpage, Level
    <3>5. ~(g = b /\ w[2] = v[2])
      <4> SUFFICES ASSUME g = b, w[2] = v[2] PROVE FALSE
        OBVIOUS
      <4>1. f = a /\ w[3] = v[3]
        BY <1>2, <1>3, <1>7, <2>2, <2>4, <3>2, <3>3, <3>4 DEF Levelled, OneWay, Walk
      <4>2. w[4] = v[4]
        BY <1>2, <1>3, <1>7, <2>2, <2>4, <3>2, <3>4, <4>1, PoolFacts DEF Levelled, OneWay, Walk
      <4>3. \A l \in 2..4 : v[l] = w[l]
        BY <4>1, <4>2
      <4> QED
        BY <2>6, <4>3 DEF SameHuge
    <3>6. /\ r.mem[Root][w[4]] = q.mem[Root][w[4]]
          /\ r.mem[f][w[3]] = q.mem[f][w[3]]
          /\ r.mem[g][w[2]] = q.mem[g][w[2]]
          /\ r.mem[h][w[1]] = q.mem[h][w[1]]
      BY <2>1, <2>2, <3>2, <3>3, <3>4, <3>5, PoolFacts
    <3> QED
      BY <3>2, <3>6 DEF MappedTo, Walk, Present, Leads
  <2> QED
    BY <1>1, <1>2, <1>7, <2>1, <2>3, <2>5, <2>6
<1> QED
  BY <1>6, <1>7
-----------------------------------------------------------------------------
(* The invariant, and what it says.                                        *)

LevelsExist == \E lev : Levelled(vm, lev)

MapsHold(F) ==
    /\ DOMAIN meant \subseteq Vpage
    /\ \A v \in DOMAIN meant : meant[v].frame \in F
    /\ vm.stop = "no" => \A v \in DOMAIN meant : MappedTo(vm, v, meant[v].frame)

\* Before anything is mapped, no page leads anywhere.
RootIsClear == \A i \in Index : vm.mem[Root][i] = Cleared
BareAtFirst ==
    vm.stop = "no" /\ RootIsClear => \A t \in Pool, i \in Index : ~Leads(vm, t, i)

PagingInv(F) == vm \in States(F) /\ LevelsExist /\ MapsHold(F) /\ BareAtFirst

Targets == Frames \cup {NoFrame, Wild}

LEMMA LevelsMakeTree ==
    ASSUME NEW F, vm \in States(F), LevelsExist
    PROVE  TablesFormTree
<1>1. PICK lev : Levelled(vm, lev)
  BY DEF LevelsExist
<1>2. \A t \in Table : \A i \in Links(t) :
         i \in Index /\ Leads(vm, t, i) /\ vm.mem[t][i].frame \in Pool
  BY DEF Links, Leads, IsTable
<1>3. Level3 \subseteq Table /\ \A t \in Level3 : lev[t] = 3
  BY <1>1, <1>2, PoolFacts DEF Level3, Below, Levelled, LevelsFall
<1>4. Level2 \subseteq Table /\ \A t \in Level2 : lev[t] = 2
  BY <1>1, <1>2, <1>3, PoolFacts DEF Level2, Below, Levelled, LevelsFall
<1>5. Level1 \subseteq Table /\ \A t \in Level1 : lev[t] = 1
  BY <1>1, <1>2, <1>4, PoolFacts DEF Level1, Below, Levelled, LevelsFall
<1>6. Level3 \cap Level2 = {} /\ Level3 \cap Level1 = {} /\ Level2 \cap Level1 = {}
  BY <1>3, <1>4, <1>5
<1>7. (Level3 \cup Level2 \cup Level1) \cap vm.free = {}
  BY <1>1, <1>3, <1>4, <1>5 DEF Levelled, FreeIsBare
<1>8. \A t, u \in {Root} \cup Level3 \cup Level2 : \A i \in Links(t), j \in Links(u) :
         vm.mem[t][i].frame = vm.mem[u][j].frame => t = u /\ i = j
  <2> SUFFICES ASSUME NEW t \in {Root} \cup Level3 \cup Level2, NEW u \in {Root} \cup Level3 \cup Level2,
                      NEW i \in Links(t), NEW j \in Links(u),
                      vm.mem[t][i].frame = vm.mem[u][j].frame
               PROVE  t = u /\ i = j
    OBVIOUS
  <2>1. t \in Table /\ u \in Table /\ lev[t] >= 2 /\ lev[u] >= 2
    BY <1>1, <1>3, <1>4, PoolFacts DEF Levelled
  <2> QED
    BY <1>1, <1>2, <2>1 DEF Levelled, OneWay
<1> QED
  BY <1>6, <1>7, <1>8 DEF TablesFormTree

LEMMA MappedIsTranslated ==
    ASSUME NEW s, NEW v, NEW frame, MappedTo(s, v, frame)
    PROVE  Translate(s, v) = frame
BY DEF MappedTo, Walk, Present, Leads, Translate, LastEntry, EntryOf

LEMMA MapsWin ==
    ASSUME NEW F, MapsHold(F)
    PROVE  LastMapWins
BY MappedIsTranslated DEF MapsHold, LastMapWins

-----------------------------------------------------------------------------
(* What keeps it.                                                          *)

LEMMA MaskLemma == \A p, c : VmemMask(p, c) \in Flags
BY DEF VmemMask, Flags

LEMMA NotClear ==
    ASSUME NEW s, NEW i \in Index, Leads(s, Root, i)
    PROVE  s.mem[Root][i] # Cleared
BY PoolFacts DEF Leads, IsTable, Cleared, MaskEntry

LEMMA MapKeepsInv ==
    ASSUME NEW F, Pool \subseteq F, PagingInv(F),
           NEW v \in Vpage, NEW to \in F, NEW p, NEW c, VSpaceMap(v, to, p, c)
    PROVE  PagingInv(F)'
<1> DEFINE mask == VmemMask(p, c)
<1>1. PICK lev : Levelled(vm, lev)
  BY DEF PagingInv, LevelsExist
<1>2. mask \in Flags
  BY MaskLemma
<1>3. /\ vm.stop = "no" /\ vm' = MapPage(vm, v, to, mask)
      /\ meant' = IF mask.present
                  THEN [w \in DOMAIN meant \cup {v} |->
                           IF w = v THEN [frame |-> to, writable |-> mask.writable, noexec |-> mask.noexec]
                           ELSE meant[w]]
                  ELSE [w \in DOMAIN meant \ {v} |-> meant[w]]
  BY DEF VSpaceMap
<1> HIDE DEF mask
<1>4. /\ vm' \in States(F) /\ \E lev2 : Levelled(vm', lev2)
      /\ vm'.stop = "no" =>
            /\ Leads(vm', Root, v[4])
            /\ mask.present => MappedTo(vm', v, to)
            /\ \A w \in Vpage \ {v}, x \in F : MappedTo(vm, w, x) => MappedTo(vm', w, x)
  BY <1>1, <1>2, <1>3, MapPageLemma DEF PagingInv
<1>5. MapsHold(F)'
  <2>1. DOMAIN meant' \subseteq DOMAIN meant \cup {v} /\ (v \in DOMAIN meant' => mask.present)
    BY <1>3
  <2>2. \A w \in DOMAIN meant' : meant'[w].frame = IF w = v THEN to ELSE meant[w].frame
    BY <1>3
  <2>3. ASSUME vm'.stop = "no", NEW w \in DOMAIN meant'
        PROVE  MappedTo(vm', w, meant'[w].frame)
    <3>1. CASE w = v
      BY <1>4, <2>1, <2>2, <2>3, <3>1
    <3>2. CASE w # v
      BY <1>3, <1>4, <2>1, <2>2, <2>3, <3>2 DEF PagingInv, MapsHold
    <3> QED
      BY <3>1, <3>2
  <2> QED
    BY <2>1, <2>2, <2>3 DEF PagingInv, MapsHold
<1>6. BareAtFirst'
  <2>1. v[4] \in Index
    BY DEF Vpage, Level
  <2> QED
    BY <1>4, <2>1, NotClear DEF BareAtFirst, RootIsClear
<1> QED
  BY <1>4, <1>5, <1>6 DEF PagingInv, LevelsExist

LEMMA HugeKeepsInv ==
    ASSUME NEW F, Pool \subseteq F, PagingInv(F),
           NEW v \in Vpage, NEW to, HugeBase(to) \in F, NEW p, NEW c, MapHugePage(v, to, p, c)
    PROVE  PagingInv(F)'
<1> DEFINE mask == VmemMask(p, c)
<1>1. PICK lev : Levelled(vm, lev)
  BY DEF PagingInv, LevelsExist
<1>2. mask \in Flags
  BY MaskLemma
<1>3. /\ vm.stop = "no" /\ vm' = MapHuge(vm, v, to, mask)
      /\ meant' = [w \in {x \in DOMAIN meant : ~SameHuge(v, x)} |-> meant[w]]
  BY DEF MapHugePage
<1> HIDE DEF mask
<1>4. /\ vm' \in States(F) /\ \E lev2 : Levelled(vm', lev2)
      /\ vm'.stop = "no" =>
            /\ Leads(vm', Root, v[4])
            /\ \A w \in Vpage, x \in F :
                  ~SameHuge(v, w) /\ MappedTo(vm, w, x) => MappedTo(vm', w, x)
  BY <1>1, <1>2, <1>3, MapHugeLemma DEF PagingInv
<1>5. MapsHold(F)'
  BY <1>3, <1>4 DEF PagingInv, MapsHold
<1>6. BareAtFirst'
  <2>1. v[4] \in Index
    BY DEF Vpage, Level
  <2> QED
    BY <1>4, <2>1, NotClear DEF BareAtFirst, RootIsClear
<1> QED
  BY <1>4, <1>5, <1>6 DEF PagingInv, LevelsExist

\* Any pages may be given to the memory manager as long as nothing is mapped.
LEMMA SupplyKeepsInv ==
    ASSUME NEW F, PagingInv(F), vm.stop = "no", RootIsClear, NEW frames \in SUBSET Pool,
           vm' = [vm EXCEPT !.free = frames], UNCHANGED meant
    PROVE  PagingInv(F)'
<1> DEFINE lev == [t \in Table |-> IF t = Root THEN 4 ELSE 0]
<1>1. vm' \in States(F) /\ vm'.mem = vm.mem /\ vm'.free = frames /\ vm'.stop = vm.stop
  BY DEF PagingInv, States
<1>2. \A t \in Table, i \in Index : ~Leads(vm', t, i)
  <2>1. \A i \in Index : ~Leads(vm, Root, i)
    BY NotClear DEF RootIsClear
  <2> QED
    BY <1>1, <2>1 DEF PagingInv, BareAtFirst, Leads, Table
<1>3. Levelled(vm', lev)
  <2>1. lev \in [Table -> 0..4] /\ lev[Root] = 4 /\ \A f \in frames : lev[f] = 0 /\ f \in Table
    BY PoolFacts
  <2> HIDE DEF lev
  <2> QED
    BY <1>1, <1>2, <2>1 DEF Levelled, LevelsFall, OneWay, FreeIsBare
<1>4. MapsHold(F)' /\ BareAtFirst'
  <2>1. \A v, x : MappedTo(vm, v, x) => MappedTo(vm', v, x)
    BY <1>1 DEF MappedTo, Walk, Present, Leads
  <2> QED
    BY <1>1, <2>1 DEF PagingInv, MapsHold, BareAtFirst, RootIsClear, Leads
<1> QED
  BY <1>1, <1>3, <1>4 DEF PagingInv, LevelsExist

LEMMA InitHasInv ==
    ASSUME NEW F, NoFrame \in F, Wild \in F, PagingInit
    PROVE  PagingInv(F) /\ RootIsClear /\ vm.stop = "no"
<1> DEFINE lev == [t \in Table |-> IF t = Root THEN 4 ELSE 0]
<1>1. PICK old \in Leftovers :
        vm = [mem  |-> [t \in Table |-> [i \in Index |->
                           IF <<t, i>> \in old THEN Leftover ELSE Cleared]],
              free |-> {},
              stop |-> "no"]
  BY DEF PagingInit
<1>2. /\ Leftover \in EntryTo(F) /\ Leftover.frame = Wild
      /\ Cleared \in EntryTo(F) /\ Cleared.frame = NoFrame
  BY DEF Leftover, Cleared, MaskEntry, NoMask, EntryTo
<1>3. /\ vm \in States(F) /\ vm.free = {} /\ vm.stop = "no"
      /\ \A t \in Table, i \in Index :
            vm.mem[t][i] = IF <<t, i>> \in old THEN Leftover ELSE Cleared
  <2> HIDE DEF Leftover, Cleared
  <2> QED
    BY <1>1, <1>2 DEF States
<1>4. \A t \in Table, i \in Index : ~Leads(vm, t, i)
  BY <1>2, <1>3, PoolFacts DEF Leads, IsTable
<1>5. RootIsClear
  <2>1. \A i \in Index : <<Root, i>> \notin old
    BY <1>1, PagingAssumption
  <2> QED
    BY <1>3, <2>1, PoolFacts DEF RootIsClear
<1>6. Levelled(vm, lev)
  <2>1. lev \in [Table -> 0..4] /\ lev[Root] = 4
    BY PoolFacts
  <2> HIDE DEF lev
  <2> QED
    BY <1>3, <1>4, <2>1 DEF Levelled, LevelsFall, OneWay, FreeIsBare
<1>7. MapsHold(F) /\ BareAtFirst
  BY <1>4, PoolFacts DEF PagingInit, MapsHold, BareAtFirst
<1> QED
  BY <1>3, <1>5, <1>6, <1>7 DEF PagingInv, LevelsExist
-----------------------------------------------------------------------------
(* Every sequence of calls.                                                *)

LEMMA EntryIsEntryTo == Entry = EntryTo(Targets)
BY DEF Entry, EntryTo, Targets

LEMMA StepKeepsInv == PagingInv(Targets) /\ [PagingNext]_pagingVars => PagingInv(Targets)'
<1> SUFFICES ASSUME PagingInv(Targets), [PagingNext]_pagingVars
             PROVE  PagingInv(Targets)'
  OBVIOUS
<1>1. /\ Pool \subseteq Targets /\ Frames \subseteq Targets
      /\ \A p \in Frames : HugeBase(p) \in Targets
  BY PagingAssumption DEF Targets
<1>2. ASSUME NEW frames \in SUBSET Pool, Supply(frames)
      PROVE  PagingInv(Targets)'
  BY <1>2, SupplyKeepsInv DEF Supply, RootIsClear
<1>3. ASSUME NEW v \in Vpage, NEW to \in Frames, NEW p \in Privileges, NEW c \in Caching,
             VSpaceMap(v, to, p, c) \/ VSpaceMapHuge(v, to, p, c)
      PROVE  PagingInv(Targets)'
  BY <1>1, <1>3, MapKeepsInv DEF VSpaceMapHuge
<1>4. ASSUME NEW v \in Vpage, NEW to \in Frames, NEW p \in Privileges, NEW c \in Caching,
             MapHugePage(v, to, p, c)
      PROVE  PagingInv(Targets)'
  BY <1>1, <1>4, HugeKeepsInv
<1>5. CASE UNCHANGED pagingVars
  BY <1>5 DEF pagingVars, PagingInv, LevelsExist, MapsHold, BareAtFirst, RootIsClear
<1> QED
  BY <1>2, <1>3, <1>4, <1>5 DEF PagingNext, Unmap

\* Whatever sequence of calls, with whatever flags, and whatever the pages held before that
\* the tables are made of: no table is used twice or taken for a free page (paging.cpp).
THEOREM TreeOfTables == PagingSpec => []TablesFormTree
<1>1. PagingInit => PagingInv(Targets)
  BY InitHasInv DEF Targets
<1>2. PagingInv(Targets) => TablesFormTree
  BY LevelsMakeTree DEF PagingInv
<1> QED
  BY <1>1, <1>2, StepKeepsInv, PTL DEF PagingSpec

\* And a page that map gave a present entry is translated to what the last such call said,
\* unless the kernel stopped.
THEOREM LastMapIsTranslated == PagingSpec => []LastMapWins
<1>1. PagingInit => PagingInv(Targets)
  BY InitHasInv DEF Targets
<1>2. PagingInv(Targets) => LastMapWins
  BY MapsWin DEF PagingInv
<1> QED
  BY <1>1, <1>2, StepKeepsInv, PTL DEF PagingSpec
Meaning == [frame : Frames, writable : BOOLEAN, noexec : BOOLEAN]
MeantIsTyped == \A v \in DOMAIN meant : meant[v] \in Meaning

LEMMA StepKeepsMeant ==
    ASSUME MeantIsTyped, [PagingNext]_pagingVars
    PROVE  MeantIsTyped'
<1>1. ASSUME NEW v \in Vpage, NEW to \in Frames, NEW p \in Privileges, NEW c \in Caching,
             VSpaceMap(v, to, p, c) \/ VSpaceMapHuge(v, to, p, c)
      PROVE  MeantIsTyped'
  <2> DEFINE mask == VmemMask(p, c)
  <2>1. mask \in Flags
    BY MaskLemma
  <2>2. meant' = IF mask.present
                 THEN [w \in DOMAIN meant \cup {v} |->
                          IF w = v THEN [frame |-> to, writable |-> mask.writable, noexec |-> mask.noexec]
                          ELSE meant[w]]
                 ELSE [w \in DOMAIN meant \ {v} |-> meant[w]]
    BY <1>1 DEF VSpaceMapHuge, VSpaceMap
  <2> HIDE DEF mask
  <2>3. [frame |-> to, writable |-> mask.writable, noexec |-> mask.noexec] \in Meaning
    BY <2>1 DEF Flags, Meaning
  <2> QED
    BY <2>2, <2>3 DEF MeantIsTyped
<1>2. ASSUME NEW v \in Vpage, NEW to \in Frames, NEW p \in Privileges, NEW c \in Caching,
             MapHugePage(v, to, p, c)
      PROVE  MeantIsTyped'
  BY <1>2 DEF MapHugePage, MeantIsTyped
<1> QED
  BY <1>1, <1>2 DEF PagingNext, Supply, Unmap, pagingVars, MeantIsTyped

\* No call makes an entry or a table out of anything else: entries point to frames, to what old
\* pages held, or nowhere, and page_alloc gives only pages it has.
THEOREM TablesAreTyped == PagingSpec => []PagingTypeOK
<1>1. PagingInit => PagingInv(Targets) /\ MeantIsTyped
  BY InitHasInv DEF Targets, PagingInit, MeantIsTyped
<1>2. PagingInv(Targets) /\ MeantIsTyped => PagingTypeOK
  BY EntryIsEntryTo DEF PagingInv, MapsHold, States, PagingTypeOK, MeantIsTyped, Meaning
<1> QED
  BY <1>1, <1>2, StepKeepsInv, StepKeepsMeant, PTL DEF PagingSpec

(***************************************************************************)
(* The address space the boot builds: the same for the calls of            *)
(* limine_main, init_addr_space and the drivers.                           *)
(***************************************************************************)

\* The entries may point anywhere: the kernel does not ask whether there is memory.
Addresses == Nat \cup {NoFrame, Wild}

Job == [from : Nat, to : Nat, start : Nat, privileges : Privileges, caching : Caching]

AnswersTyped ==
    answers \in [memmap : MemoryMaps \cup {NoAnswer}, fb : FrameBuffers \cup {NoAnswer},
                 kernel : KernelPlaces \cup {NoAnswer}]

BootInv ==
    /\ PagingInv(Addresses)
    /\ phase = "limine" => RootIsClear /\ work = <<>>
    /\ AnswersTyped /\ work \in Seq(Job) /\ image \in Nat

LEMMA AddressFacts ==
    /\ Pool \subseteq Addresses /\ Nat \subseteq Addresses /\ NoFrame \in Addresses /\ Wild \in Addresses
    /\ \A p \in DriverFrames : p \in Addresses /\ HugeBase(p) \in Addresses
BY PagingAssumption, BootAssumption DEF Addresses

LEMMA PageAtLemma == \A n \in Nat : PageAt(n) \in Vpage
<1> SUFFICES ASSUME NEW n \in Nat PROVE PageAt(n) \in Vpage
  OBVIOUS
<1>1. Fan \in Nat /\ Fan > 0
  BY PagingAssumption
<1>2. \A m \in Nat : m % Fan \in Index /\ m \div Fan \in Nat
  BY <1>1 DEF Index
<1>3. Fan * Fan \in Nat /\ Fan * Fan > 0 /\ Fan * Fan * Fan \in Nat /\ Fan * Fan * Fan > 0
  BY <1>1
<1>4. \A d \in Nat \ {0} : n \div d \in Nat
  OBVIOUS
<1>5. n \div (Fan * Fan) \in Nat /\ n \div (Fan * Fan * Fan) \in Nat
  BY <1>3, <1>4
<1> QED
  BY <1>2, <1>5 DEF PageAt, Vpage, Level

LEMMA BootStarts == Init => BootInv
<1> SUFFICES ASSUME Init PROVE BootInv
  OBVIOUS
<1>1. PagingInv(Addresses) /\ RootIsClear
  BY InitHasInv, AddressFacts DEF Init
<1> QED
  BY <1>1 DEF Init, BootInv, AnswersTyped

\* The kernel stops, and the tables stay as they are.
LEMMA StopKeepsInv ==
    ASSUME NEW F, PagingInv(F), NEW why \in {"panic", "null"},
           vm' = [vm EXCEPT !.stop = why], UNCHANGED meant
    PROVE  PagingInv(F)'
<1>1. vm' \in States(F) /\ vm'.mem = vm.mem /\ vm'.free = vm.free /\ vm'.stop # "no"
  BY DEF PagingInv, States
<1>2. LevelsExist'
  <2>1. PICK lev : Levelled(vm, lev)
    BY DEF PagingInv, LevelsExist
  <2>2. Levelled(vm', lev)
    BY <1>1, <2>1 DEF Levelled, LevelsFall, OneWay, FreeIsBare, Leads
  <2> QED
    BY <2>2 DEF LevelsExist
<1> QED
  BY <1>1, <1>2 DEF PagingInv, MapsHold, BareAtFirst

LEMMA RegionsAreJobs ==
    ASSUME AnswersTyped
    PROVE  IdentityRegions \in Seq(Job)
<1>1. ASSUME NEW m \in MemoryMaps
      PROVE  [i \in DOMAIN m |-> IdentityRegion(m[i])] \in Seq(Job)
  <2>1. m \in Seq(MapEntry)
    BY BootAssumption
  <2>2. ASSUME NEW e \in MapEntry PROVE IdentityRegion(e) \in Job
    <3>1. e.base \in Nat /\ e.length \in Nat /\ PhysBase \in Nat
      BY PagingAssumption, BootAssumption DEF MapEntry
    <3>2. e.base + PhysBase \in Nat /\ e.base + PhysBase + e.length \in Nat
      BY <3>1
    <3>3. "all" \in Privileges /\ "writeThrough" \in Caching
      BY DEF Privileges, Caching
    <3> QED
      BY <3>1, <3>2, <3>3 DEF IdentityRegion, Region, IdentityRights, Job
  <2>3. Len(m) \in Nat /\ DOMAIN m = 1..Len(m) /\ \A i \in 1..Len(m) : m[i] \in MapEntry
    BY <2>1
  <2> QED
    BY <2>2, <2>3
<1>2. <<>> \in Seq(Job) /\ [i \in DOMAIN <<>> |-> IdentityRegion(<<>>[i])] = <<>>
  OBVIOUS
<1> QED
  BY <1>1, <1>2 DEF AnswersTyped, IdentityRegions

LEMMA LimineKeeps == BootInv /\ LimineMain => BootInv'
<1> SUFFICES ASSUME BootInv, LimineMain PROVE BootInv'
  OBVIOUS
<1>1. /\ phase = "limine" /\ vm.stop = "no" /\ RootIsClear /\ phase' = "identity"
      /\ work' = IdentityRegions /\ UNCHANGED <<meant, answers, image>>
  BY DEF LimineMain, BootInv
<1>2. work' \in Seq(Job)
  BY <1>1, RegionsAreJobs DEF BootInv
<1>3. PagingInv(Addresses)'
  <2>1. CASE UNCHANGED vm
    BY <1>1, <2>1 DEF BootInv, PagingInv, LevelsExist, MapsHold, BareAtFirst, RootIsClear
  <2>2. CASE vm' = [vm EXCEPT !.stop = "null"]
    BY <1>1, <2>2, StopKeepsInv DEF BootInv
  <2>3. CASE vm' = [vm EXCEPT !.stop = "no"]
    <3>1. UNCHANGED vm
      BY <1>1, <2>3 DEF BootInv, PagingInv, States
    <3> QED
      BY <2>1, <3>1
  <2>4. ASSUME answers.memmap # NoAnswer, NEW f,
               vm' = [vm EXCEPT !.free = Usable(answers.memmap) \ {f}]
        PROVE  PagingInv(Addresses)'
    <3>1. Usable(answers.memmap) \subseteq Pool
      BY <2>4, BootAssumption DEF BootInv, AnswersTyped, Usable
    <3> QED
      BY <1>1, <2>4, <3>1, SupplyKeepsInv DEF BootInv
  <2> QED
    BY <2>1, <2>2, <2>3, <2>4 DEF LimineMain
<1> QED
  BY <1>1, <1>2, <1>3 DEF BootInv, AnswersTyped

LEMMA RegionKeeps == BootInv /\ MapRegion => BootInv'
<1> SUFFICES ASSUME BootInv, MapRegion PROVE BootInv'
  OBVIOUS
<1> DEFINE r == Head(work)
           large == r.to - r.from > Fan /\ r.from % Fan = 0
           size == IF large THEN Fan ELSE 1
<1>1. /\ work # <<>> /\ phase # "limine" /\ UNCHANGED <<phase, answers, image>>
      /\ IF r.from < r.to
         THEN /\ VSpaceMap(PageAt(r.from), r.start, r.privileges, r.caching)
              /\ work' = <<[r EXCEPT !.from = @ + size, !.start = @ + size]>> \o Tail(work)
         ELSE work' = Tail(work) /\ UNCHANGED pagingVars
  BY DEF MapRegion, VSpaceMapHuge, BootInv
<1>2. r \in Job /\ Tail(work) \in Seq(Job)
  BY <1>1 DEF BootInv
<1>3. size \in Nat
  BY PagingAssumption
<1> HIDE DEF r, size
<1>4. CASE r.from < r.to
  <2>1. [r EXCEPT !.from = @ + size, !.start = @ + size] \in Job
    <3>1. r.from + size \in Nat /\ r.start + size \in Nat
      BY <1>2, <1>3 DEF Job
    <3> QED
      BY <1>2, <3>1 DEF Job
  <2>2. work' \in Seq(Job)
    BY <1>1, <1>2, <1>4, <2>1
  <2>3. PagingInv(Addresses)'
    BY <1>1, <1>2, <1>4, AddressFacts, PageAtLemma, MapKeepsInv DEF BootInv, Job
  <2> QED
    BY <1>1, <2>2, <2>3 DEF BootInv, AnswersTyped
<1>5. CASE ~(r.from < r.to)
  BY <1>1, <1>2, <1>5 DEF BootInv, AnswersTyped, pagingVars, PagingInv, LevelsExist, MapsHold,
                          BareAtFirst, RootIsClear
<1> QED
  BY <1>4, <1>5

LEMMA FrameBufferKeeps == BootInv /\ MapFrameBuffer => BootInv'
<1> SUFFICES ASSUME BootInv, MapFrameBuffer PROVE BootInv'
  OBVIOUS
<1>1. CASE answers.fb = NoAnswer
  BY <1>1, StopKeepsInv DEF MapFrameBuffer, BootInv, AnswersTyped
<1>2. CASE answers.fb # NoAnswer
  <2> DEFINE job == FrameBufferRegion(answers.fb)
  <2>1. answers.fb[1] \in Nat /\ answers.fb[2] \in Nat /\ answers.fb[1] - PhysBase \in Nat
    BY <1>2, BootAssumption DEF BootInv, AnswersTyped
  <2>2. "readWrite" \in Privileges /\ "writeCombine" \in Caching
    BY DEF Privileges, Caching
  <2>3. job \in Job
    BY <2>1, <2>2 DEF FrameBufferRegion, Region, Job
  <2>4. phase' = "kernel" /\ work' = <<job>> /\ UNCHANGED <<vm, meant, answers, image>>
    BY <1>2 DEF MapFrameBuffer
  <2> HIDE DEF job
  <2>5. work' \in Seq(Job)
    BY <2>3, <2>4
  <2> QED
    BY <2>4, <2>5 DEF BootInv, AnswersTyped, PagingInv, LevelsExist, MapsHold, BareAtFirst,
                      RootIsClear
<1> QED
  BY <1>1, <1>2

LEMMA KernelKeeps == BootInv /\ MapKernel => BootInv'
<1> SUFFICES ASSUME BootInv, MapKernel PROVE BootInv'
  OBVIOUS
<1>1. KernelBase + image \in Nat /\ KernelPhys + image \in Nat
  <2>1. image \in Nat /\ KernelBase \in Nat
    BY BootAssumption DEF BootInv, AnswersTyped
  <2>2. answers.kernel \in KernelPlaces \cup {NoAnswer}
    BY DEF BootInv, AnswersTyped
  <2>3. KernelPhys \in Nat
    BY <2>2, BootAssumption DEF KernelPhys
  <2> QED
    BY <2>1, <2>3
<1>2. phase = "kernel" /\ phase' # "limine" /\ UNCHANGED <<answers, work>>
  BY DEF MapKernel
<1>3. CASE image < KernelPages
  <2>1. /\ VSpaceMap(PageAt(KernelBase + image), KernelPhys + image, "all", "writeThrough")
        /\ image' = image + 1
    BY <1>3 DEF MapKernel
  <2>2. PagingInv(Addresses)'
    BY <1>1, <2>1, AddressFacts, PageAtLemma, MapKeepsInv DEF BootInv
  <2> QED
    BY <1>2, <2>1, <2>2 DEF BootInv, AnswersTyped
<1>4. CASE ~(image < KernelPages)
  BY <1>2, <1>4 DEF MapKernel, BootInv, AnswersTyped, pagingVars, PagingInv, LevelsExist,
                    MapsHold, BareAtFirst, RootIsClear
<1> QED
  BY <1>3, <1>4

LEMMA DriverKeeps == BootInv /\ DriverCall => BootInv'
<1> SUFFICES ASSUME BootInv, DriverCall PROVE BootInv'
  OBVIOUS
<1>1. phase = "up" /\ UNCHANGED <<phase, answers, work, image>>
  BY DEF DriverCall
<1>2. PICK n \in DriverPages :
          \/ UNCHANGED pagingVars
          \/ \E to \in DriverFrames, p \in Privileges, c \in Caching :
                VSpaceMap(PageAt(n), to, p, c) \/ MapHugePage(PageAt(n), to, p, c)
  BY DEF DriverCall, Unmap
<1>3. PageAt(n) \in Vpage
  BY BootAssumption, PageAtLemma
<1>4. PagingInv(Addresses)'
  <2>1. CASE UNCHANGED pagingVars
    BY <2>1 DEF BootInv, pagingVars, PagingInv, LevelsExist, MapsHold, BareAtFirst, RootIsClear
  <2>2. ASSUME NEW to \in DriverFrames, NEW p, NEW c, VSpaceMap(PageAt(n), to, p, c)
        PROVE  PagingInv(Addresses)'
    BY <1>3, <2>2, AddressFacts, MapKeepsInv DEF BootInv
  <2>3. ASSUME NEW to \in DriverFrames, NEW p, NEW c, MapHugePage(PageAt(n), to, p, c)
        PROVE  PagingInv(Addresses)'
    BY <1>3, <2>3, AddressFacts, HugeKeepsInv DEF BootInv
  <2> QED
    BY <1>2, <2>1, <2>2, <2>3
<1> QED
  BY <1>1, <1>4 DEF BootInv, AnswersTyped

LEMMA BootKeepsInv == BootInv /\ [Next]_vars => BootInv'
<1> SUFFICES ASSUME BootInv, [Next]_vars PROVE BootInv'
  OBVIOUS
<1>1. CASE UNCHANGED vars
  BY <1>1 DEF vars, bootVars, pagingVars, BootInv, AnswersTyped, PagingInv, LevelsExist,
             MapsHold, BareAtFirst, RootIsClear
<1> QED
  BY <1>1, LimineKeeps, RegionKeeps, FrameBufferKeeps, KernelKeeps, DriverKeeps DEF Next

\* Whatever the boot loader answers, and whatever memory it reports, the tables that
\* init_addr_space and the drivers build are a tree without free pages.
THEOREM BootBuildsTree == Spec => []TablesFormTree
<1>1. BootInv => TablesFormTree
  BY LevelsMakeTree DEF BootInv, PagingInv
<1> QED
  BY BootStarts, BootKeepsInv, <1>1, PTL DEF Spec

\* And every page is translated as the last mapping of it said: by identity_map, map_kernel,
\* for the frame buffer or by a driver, whichever came last.
THEOREM BootMappingsHold == Spec => []LastMapWins
<1>1. BootInv => LastMapWins
  BY MapsWin DEF BootInv, PagingInv
<1> QED
  BY BootStarts, BootKeepsInv, <1>1, PTL DEF Spec
=============================================================================
