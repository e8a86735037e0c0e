---------------------------- MODULE PagingProofs ----------------------------
(***************************************************************************)
(* What the kernel's two calls do to the page tables and the list of free  *)
(* pages (module Paging), for pages and tables of any size, any memory map *)
(* and any virtual pages.                                                  *)
(***************************************************************************)
EXTENDS Paging, TLAPS

\* The entry of the path of v that leads to the table of level k + 1, k = 4 the page.
Recursive == Entry(Root, "ReadWrite")
Through(m, e, i) == IF e.present /\ e.addr \in Pages THEN m[e.addr][i] ELSE None
Reach(m, v, k) ==
  LET e1 == Through(m, Recursive, v[1])
      e2 == Through(m, e1, v[2])
      e3 == Through(m, e2, v[3])
      e4 == Through(m, e3, v[4])
  IN IF k = 0 THEN Recursive ELSE IF k = 1 THEN e1 ELSE IF k = 2 THEN e2
     ELSE IF k = 3 THEN e3 ELSE e4

SamePath(v, w, k) == \A i \in 1 .. k : v[i] = w[i]

Entries ==
  [present : BOOLEAN, addr : Devices \cup Pages \cup {0}, use : Uses \cup {"none"}]
Memory == [Pages -> [0 .. Slots - 1 -> Entries]]

\* The tables form a tree under the root: each is a page that was handed out, and is
\* reached by one path only.
TreeOK(m, H) ==
  /\ H \subseteq Pages /\ m[Root][RecursiveSlot] = Recursive
  /\ \A v \in Virt, k \in 1 .. 3 : Reach(m, v, k).present => Reach(m, v, k).addr \in H
  /\ \A v, w \in Virt, j, k \in 0 .. 3 :
       /\ Reach(m, v, j).present /\ Reach(m, w, k).present
       /\ Reach(m, v, j).addr = Reach(m, w, k).addr
       => j = k /\ SamePath(v, w, k)

Region == [address : Nat, pagecount : 1 .. Wrap]
EndOf(r) == r.address + r.pagecount * PageSize
Apart(from, to, from2, to2) == to <= from2 \/ to2 <= from

\* What lies from one address to another is in a usable entry of the map.
InUsable(from, to) ==
  \E i \in DOMAIN map :
    map[i].type = Usable /\ map[i].offset <= from /\ to <= map[i].offset + map[i].size

\* The regions are apart from each other, from the pages handed out and from the entries
\* of the map that are still to be read.
RegionsOK(rs, H, first) ==
  /\ \A i \in DOMAIN rs : rs[i].address >= EndPtr /\ InUsable(rs[i].address, EndOf(rs[i]))
  /\ \A i, j \in DOMAIN rs :
       i # j => Apart(rs[i].address, EndOf(rs[i]), rs[j].address, EndOf(rs[j]))
  /\ \A i \in DOMAIN rs, p \in H : p < rs[i].address \/ EndOf(rs[i]) <= p
  /\ \A i \in DOMAIN rs, n \in DOMAIN map :
       n >= first /\ map[n].type = Usable =>
         Apart(rs[i].address, EndOf(rs[i]), map[n].offset, map[n].offset + map[n].size)

State == [mem : Memory, gfp : Nat, regions : Seq(Region), handed : Seq(Int)]

PagesOK(s) ==
  /\ ~Failed(s) /\ IsInjective(s.handed)
  /\ phase = "boot" =>
       /\ s.regions = <<>> /\ GfpStart <= s.gfp
       /\ \A p \in Range(s.handed) : GfpStart <= p /\ p < s.gfp
  /\ phase = "setup" => \A p \in Range(s.handed) : GfpStart <= p /\ p < EndPtr
  /\ \A p \in Range(s.handed) : p # Root /\ (p >= EndPtr => InUsable(p, p + PageSize))
  /\ RegionsOK(s.regions, Range(s.handed), at)

StateOK(s) == s \in State /\ TreeOK(s.mem, Range(s.handed)) /\ PagesOK(s)

PhaseOK ==
  /\ phase \in {"boot", "setup", "run"} /\ map \in Maps /\ at \in Nat \ {0}
  /\ phase = "run" => at > Len(map)
  /\ phase # "run" => answer = 0
  /\ tlb \in [Virt -> Entries]

IInv == ~short => PhaseOK /\ StateOK(Now) /\ StaleOnlyAfterRemap

-----------------------------------------------------------------------------
(***************************************************************************)
(* Numbers.                                                                *)
(***************************************************************************)

\* The constants are numbers, the root a page below those handed out.
LEMMA Constants ==
  /\ PageSize \in Nat /\ PageSize > 0
  /\ Slots \in Nat /\ Slots > 1 /\ RecursiveSlot \in 0 .. Slots - 1
  /\ {Root, GfpStart, EndPtr, MemTop, Wrap} \subseteq Nat
  /\ Root < GfpStart /\ GfpStart <= EndPtr /\ EndPtr <= MemTop /\ MemTop < Wrap
<1>1. PageSize \in Nat /\ PageSize > 0 BY PagingAssumption
<1>2. \A n \in 0 .. MemTop : n * PageSize \in Nat BY <1>1
<1>3. {Root, GfpStart, EndPtr, MemTop} \subseteq Nat BY <1>2, PagingAssumption
<1> QED BY <1>1, <1>3, PagingAssumption DEF RecursiveSlot

\* A number is a whole number of pages and less than one more.
LEMMA DivMod ==
  ASSUME NEW a \in Nat
  PROVE  /\ a % PageSize = a - PageSize * (a \div PageSize)
         /\ a % PageSize \in 0 .. PageSize - 1
         /\ a \div PageSize \in Nat
<1>1. PageSize \in Nat /\ PageSize > 0 BY Constants
<1>2. a % PageSize = a - PageSize * (a \div PageSize) BY <1>1
<1>3. a % PageSize \in 0 .. PageSize - 1 BY <1>1
<1>4. a \div PageSize \in Nat BY <1>1
<1> QED BY <1>2, <1>3, <1>4

\* More pages are not fewer bytes.
LEMMA MorePages == \A n, m \in Nat : n <= m => n * PageSize <= m * PageSize
BY Constants

LEMMA OnePageMore == \A n \in Int : (n + 1) * PageSize = n * PageSize + PageSize
BY Constants

\* A number below the modulus is its own remainder.
LEMMA SmallRemainder ==
  ASSUME NEW a \in Nat, NEW w \in Nat, a < w
  PROVE  a % w = a
<1>1. a \div w \in Int /\ w * (a \div w) <= a /\ w * (a \div w) > a - w /\ a % w = a - w * (a \div w)
  OBVIOUS
<1> DEFINE q == a \div w
<1>2. q \in Int /\ w * q <= a /\ w * q > a - w BY <1>1
<1> HIDE DEF q
<1>3. q >= 1 => w * q >= w BY <1>2
<1>4. q <= -1 => w * q <= -w BY <1>2
<1>5. q = 0 BY <1>2, <1>3, <1>4
<1> QED BY <1>1, <1>5 DEF q

\* The table of the top level is a page.
LEMMA RootIsPage == Root \in Pages
<1>1. PICK n \in 0 .. MemTop : Root = n * PageSize BY PagingAssumption
<1>2. \A i \in Nat : (i * PageSize) % PageSize = 0 BY Constants
<1>3. Root % PageSize = 0 BY <1>1, <1>2, PagingAssumption
<1> QED BY <1>3, Constants DEF Pages

-----------------------------------------------------------------------------
(***************************************************************************)
(* Paths.                                                                  *)
(***************************************************************************)

\* A path grows by one entry per level.
LEMMA ReachGrows ==
  ASSUME NEW m, NEW v
  PROVE  /\ Reach(m, v, 0) = Recursive
         /\ \A k \in 1 .. 4 : Reach(m, v, k) = Through(m, Reach(m, v, k - 1), v[k])
<1>1. Reach(m, v, 0) = Recursive BY DEF Reach
<1>2. Reach(m, v, 1) = Through(m, Reach(m, v, 0), v[1]) BY DEF Reach
<1>3. Reach(m, v, 2) = Through(m, Reach(m, v, 1), v[2]) BY DEF Reach
<1>4. Reach(m, v, 3) = Through(m, Reach(m, v, 2), v[3]) BY DEF Reach
<1>5. Reach(m, v, 4) = Through(m, Reach(m, v, 3), v[4]) BY DEF Reach
<1> QED BY <1>1, <1>2, <1>3, <1>4, <1>5

\* Behind an entry that is not present there is nothing.
LEMMA NothingBehind ==
  ASSUME NEW m, NEW v, NEW j \in 0 .. 4, NEW k \in 0 .. 4, j < k, ~Reach(m, v, j).present
  PROVE  Reach(m, v, k) = None
<1>1. \A i \in 1 .. 4 : ~Reach(m, v, i - 1).present => Reach(m, v, i) = None
  BY ReachGrows DEF Through
<1>2. ~None.present BY DEF None
<1>3. \A i \in 1 .. 4 : i - 1 = j => Reach(m, v, i) = None BY <1>1
<1>4. j + 1 \in 1 .. 4 /\ Reach(m, v, j + 1) = None BY <1>3
<1>5. j + 2 \in 1 .. 4 => Reach(m, v, j + 2) = None
  <2>1. j + 2 \in 1 .. 4 /\ ~Reach(m, v, (j + 2) - 1).present => Reach(m, v, j + 2) = None BY <1>1
  <2>2. (j + 2) - 1 = j + 1 OBVIOUS
  <2> QED BY <2>1, <2>2, <1>2, <1>4
<1>6. j + 3 \in 1 .. 4 => Reach(m, v, j + 3) = None
  <2>1. j + 3 \in 1 .. 4 /\ ~Reach(m, v, (j + 3) - 1).present => Reach(m, v, j + 3) = None BY <1>1
  <2>2. (j + 3) - 1 = j + 2 /\ (j + 3 \in 1 .. 4 => j + 2 \in 1 .. 4) OBVIOUS
  <2> QED BY <2>1, <2>2, <1>2, <1>5
<1>7. j + 4 \in 1 .. 4 => Reach(m, v, j + 4) = None
  <2>1. j + 4 \in 1 .. 4 /\ ~Reach(m, v, (j + 4) - 1).present => Reach(m, v, j + 4) = None BY <1>1
  <2>2. (j + 4) - 1 = j + 3 /\ (j + 4 \in 1 .. 4 => j + 3 \in 1 .. 4) OBVIOUS
  <2> QED BY <2>1, <2>2, <1>2, <1>6
<1>8. k = j + 1 \/ k = j + 2 \/ k = j + 3 \/ k = j + 4 OBVIOUS
<1> QED BY <1>4, <1>5, <1>6, <1>7, <1>8

\* The processor's walk is the path of four.
LEMMA WalkIsReach ==
  ASSUME NEW m, NEW v
  PROVE  Walk(m, v) = Reach(m, v, 4)
<1>1. Recursive.present /\ Recursive.addr = Root BY DEF Recursive, Entry
<1>2. Through(m, Recursive, v[1]) = m[Root][v[1]] BY <1>1, RootIsPage DEF Through
<1>3. Walk(m, v) = Through(m, Through(m, Through(m, m[Root][v[1]], v[2]), v[3]), v[4])
  BY Zenon DEF Walk, Through
<1> QED BY <1>2, <1>3 DEF Reach

\* Virtual pages with the same first indices share that much of the path.
LEMMA SharedPath ==
  ASSUME NEW m, NEW v, NEW w, NEW k \in 0 .. 4, SamePath(v, w, k)
  PROVE  Reach(m, v, k) = Reach(m, w, k)
<1>1. \A i \in 1 .. k : v[i] = w[i] BY DEF SamePath
<1>2. \A i \in 1 .. 4 : i <= k /\ Reach(m, v, i - 1) = Reach(m, w, i - 1) =>
        Reach(m, v, i) = Reach(m, w, i)
  BY <1>1, ReachGrows
<1>3. Reach(m, v, 0) = Reach(m, w, 0) BY ReachGrows
<1>4. 1 <= k => Reach(m, v, 1) = Reach(m, w, 1) BY <1>2, <1>3
<1>5. 2 <= k => Reach(m, v, 2) = Reach(m, w, 2) BY <1>2, <1>4
<1>6. 3 <= k => Reach(m, v, 3) = Reach(m, w, 3) BY <1>2, <1>5
<1>7. 4 <= k => Reach(m, v, 4) = Reach(m, w, 4) BY <1>2, <1>6
<1> QED BY <1>3, <1>4, <1>5, <1>6, <1>7

\* The constants of map.cpp show the table of every level: the root's last slot leads
\* back to the root as often as the path is shorter than four.
LEMMA WindowShowsTable ==
  ASSUME NEW m, NEW v, NEW k \in 1 .. 4, m[Root][RecursiveSlot] = Recursive
  PROVE  Walk(m, Window(k, v)) = Reach(m, v, k - 1)
<1>1. Recursive.present /\ Recursive.addr = Root BY DEF Recursive, Entry
<1>2. \A i : Through(m, Recursive, i) = m[Root][i] BY <1>1, RootIsPage DEF Through
<1>3. Through(m, Recursive, RecursiveSlot) = Recursive BY <1>2
<1>4. CASE k = 1
  <2>1. \A i \in 1 .. 4 : Window(k, v)[i] = RecursiveSlot BY <1>4 DEF Window
  <2> QED BY <1>3, <1>4, <2>1, WalkIsReach DEF Reach
<1>5. CASE k = 2
  <2>1. \A i \in 1 .. 3 : Window(k, v)[i] = RecursiveSlot BY <1>5 DEF Window
  <2>2. Window(k, v)[4] = v[1] BY <1>5 DEF Window
  <2> QED BY <1>3, <1>5, <2>1, <2>2, WalkIsReach DEF Reach
<1>6. CASE k = 3
  <2>1. \A i \in 1 .. 2 : Window(k, v)[i] = RecursiveSlot BY <1>6 DEF Window
  <2>2. Window(k, v)[3] = v[1] /\ Window(k, v)[4] = v[2] BY <1>6 DEF Window
  <2> QED BY <1>3, <1>6, <2>1, <2>2, WalkIsReach DEF Reach
<1>7. CASE k = 4
  <2>1. Window(k, v)[1] = RecursiveSlot BY <1>7 DEF Window
  <2>2. Window(k, v)[2] = v[1] /\ Window(k, v)[3] = v[2] /\ Window(k, v)[4] = v[3]
    BY <1>7 DEF Window
  <2> QED BY <1>3, <1>7, <2>1, <2>2, WalkIsReach DEF Reach
<1> QED BY <1>4, <1>5, <1>6, <1>7

-----------------------------------------------------------------------------
(***************************************************************************)
(* Trees of tables.                                                        *)
(***************************************************************************)

\* The tables hold the same but for one entry, and a page holds nothing.
AlikeBut(m, m2, H, p, i) ==
  \A q \in H \cup {Root}, j \in 0 .. Slots - 1 : q # p \/ j # i => m2[q][j] = m[q][j]
IsClear(m, p) == \A i \in 0 .. Slots - 1 : m[p][i] = None

\* The entry of level k on v's path is written, and is given a cleared page.
Written(m, m2, H, v, k) ==
  TreeOK(m, H) /\ Reach(m, v, k - 1).present /\ AlikeBut(m, m2, H, Reach(m, v, k - 1).addr, v[k])
Linked(m, m2, H, v, k, n, u) ==
  /\ Written(m, m2, H, v, k) /\ ~Reach(m, v, k).present
  /\ n \in Pages /\ n \notin H /\ n # Root /\ IsClear(m2, n)
  /\ m2[Reach(m, v, k - 1).addr][v[k]] = Entry(n, u)

\* Indices are slots, and no first index is the root's own.
LEMMA Indices ==
  ASSUME NEW v \in Virt
  PROVE  /\ \A i \in 1 .. 4 : v[i] \in 0 .. Slots - 1
         /\ v[1] # RecursiveSlot
BY PagingAssumption

\* The entries of a path lead to the root or to pages handed out.
LEMMA TablesAreHanded ==
  ASSUME NEW m, NEW H, TreeOK(m, H),
         NEW v \in Virt, NEW k \in 0 .. 3, Reach(m, v, k).present
  PROVE  Reach(m, v, k).addr \in H \cup {Root} /\ Reach(m, v, k).addr \in Pages
<1>1. CASE k = 0
  <2>1. Reach(m, v, k).addr = Root BY <1>1, ReachGrows DEF Recursive, Entry
  <2> QED BY <2>1, RootIsPage
<1>2. CASE k \in 1 .. 3
  BY <1>2 DEF TreeOK
<1> QED BY <1>1, <1>2

\* An entry that differs from another: the tables are reached by one path each, so
\* writing one entry leaves every path alone that does not use it.
LEMMA OneEntryWritten ==
  ASSUME NEW m, NEW m2, NEW H, NEW v \in Virt, NEW k \in 1 .. 4, Written(m, m2, H, v, k),
         NEW w \in Virt
  PROVE  \A j \in 0 .. 4 : j < k \/ ~SamePath(v, w, k) => Reach(m2, w, j) = Reach(m, w, j)
<1> DEFINE Kept(j) == j < k \/ ~SamePath(v, w, k) => Reach(m2, w, j) = Reach(m, w, j)
<1>0. TreeOK(m, H) /\ Reach(m, v, k - 1).present /\ AlikeBut(m, m2, H, Reach(m, v, k - 1).addr, v[k])
  BY DEF Written
<1>1. Kept(0) BY ReachGrows
<1>2. ASSUME NEW j \in 1 .. 4, Kept(j - 1)
      PROVE  Kept(j)
  <2> SUFFICES ASSUME j < k \/ ~SamePath(v, w, k)
               PROVE  Reach(m2, w, j) = Reach(m, w, j)
    OBVIOUS
  <2> DEFINE e == Reach(m, w, j - 1)
  <2>1. Reach(m2, w, j - 1) = e BY <1>2
  <2>2. Reach(m2, w, j) = Through(m2, e, w[j]) BY <2>1, ReachGrows
  <2>3. Reach(m, w, j) = Through(m, e, w[j]) BY ReachGrows
  <2>4. CASE ~e.present
    BY <2>2, <2>3, <2>4 DEF Through
  <2>5. CASE e.present
    <3>1. j - 1 \in 0 .. 3 /\ k - 1 \in 0 .. 3 OBVIOUS
    <3>2. e.addr \in H \cup {Root} BY <1>0, <2>5, <3>1, TablesAreHanded
    <3>3. ASSUME e.addr = Reach(m, v, k - 1).addr, w[j] = v[k]
          PROVE  FALSE
      <4>1. j - 1 = k - 1 /\ SamePath(w, v, k - 1)
        <5>1. \A x, y \in Virt, a, b \in 0 .. 3 :
                Reach(m, x, a).present /\ Reach(m, y, b).present /\ Reach(m, x, a).addr = Reach(m, y, b).addr =>
                  a = b /\ SamePath(x, y, b)
          BY <1>0 DEF TreeOK
        <5> QED BY <1>0, <5>1, <3>1, <2>5, <3>3
      <4>2. j = k BY <4>1
      <4>3. SamePath(v, w, k) BY <4>1, <4>2, <3>3 DEF SamePath
      <4> QED BY <4>2, <4>3
    <3>4. w[j] \in 0 .. Slots - 1 BY Indices
    <3>5. m2[e.addr][w[j]] = m[e.addr][w[j]] BY <1>0, <3>2, <3>3, <3>4 DEF AlikeBut
    <3> QED BY <2>2, <2>3, <3>5 DEF Through
  <2> QED BY <2>4, <2>5
<1> HIDE DEF Kept
<1>3. Kept(1) BY <1>1, <1>2
<1>4. Kept(2) BY <1>3, <1>2
<1>5. Kept(3) BY <1>4, <1>2
<1>6. Kept(4) BY <1>5, <1>2
<1>7. \A j \in 0 .. 4 : Kept(j) BY <1>1, <1>3, <1>4, <1>5, <1>6
<1> QED BY <1>7 DEF Kept

\* No path writes the root's own slot.
LEMMA RootSlotKept ==
  ASSUME NEW m, NEW H, TreeOK(m, H), NEW v \in Virt, NEW k \in 1 .. 4, Reach(m, v, k - 1).present
  PROVE  Reach(m, v, k - 1).addr # Root \/ v[k] # RecursiveSlot
<1> SUFFICES ASSUME Reach(m, v, k - 1).addr = Root
             PROVE  k = 1
  BY Indices
<1>1. Reach(m, v, 0).present /\ Reach(m, v, 0).addr = Root BY ReachGrows DEF Recursive, Entry
<1>2. k - 1 \in 0 .. 3 /\ 0 \in 0 .. 3 OBVIOUS
<1>3. k - 1 = 0 BY <1>1, <1>2 DEF TreeOK
<1> QED BY <1>3

\* A cleared page that was in no tree becomes the table of level k + 1: it is the only new
\* table, and what the virtual pages are mapped to stays as it was.
LEMMA NewTable ==
  ASSUME NEW m, NEW m2, NEW H, NEW v \in Virt, NEW k \in 1 .. 3, NEW n, NEW u,
         Linked(m, m2, H, v, k, n, u)
  PROVE  /\ TreeOK(m2, H \cup {n}) /\ Reach(m2, v, k) = Entry(n, u)
         /\ \A w \in Virt : Reach(m2, w, 4) = Reach(m, w, 4)
<1> DEFINE T == Reach(m, v, k - 1).addr
<1> k \in 1 .. 4 OBVIOUS
<1>a. /\ TreeOK(m, H) /\ Reach(m, v, k - 1).present /\ AlikeBut(m, m2, H, T, v[k])
      /\ Written(m, m2, H, v, k)
  BY DEF Linked, Written
<1>b. /\ ~Reach(m, v, k).present /\ n \in Pages /\ n \notin H /\ n # Root /\ IsClear(m2, n)
      /\ m2[T][v[k]] = Entry(n, u)
  BY DEF Linked
<1>1. T \in H \cup {Root} /\ T \in Pages BY <1>a, TablesAreHanded
<1>2. \A w \in Virt : \A j \in 0 .. 4 : j < k \/ ~SamePath(v, w, k) => Reach(m2, w, j) = Reach(m, w, j)
  BY <1>a, OneEntryWritten
<1>3. Reach(m2, v, k) = Entry(n, u)
  <2>1. Reach(m2, v, k - 1) = Reach(m, v, k - 1) BY <1>2
  <2>2. Reach(m2, v, k) = Through(m2, Reach(m, v, k - 1), v[k]) BY <2>1, ReachGrows
  <2> QED BY <2>2, <1>a, <1>b, <1>1 DEF Through
<1>4. \A w \in Virt : SamePath(v, w, k) => Reach(m2, w, k) = Entry(n, u)
  BY <1>3, SharedPath
<1>5. Entry(n, u).present /\ Entry(n, u).addr = n BY DEF Entry
<1>6. \A w \in Virt : SamePath(v, w, k) => \A j \in 0 .. 4 : j > k => Reach(m2, w, j) = None
  <2> SUFFICES ASSUME NEW w \in Virt, SamePath(v, w, k), NEW j \in 0 .. 4, j > k
               PROVE  Reach(m2, w, j) = None
    OBVIOUS
  <2>1. Reach(m2, w, k + 1) = None
    <3>1. Reach(m2, w, k + 1) = Through(m2, Reach(m2, w, (k + 1) - 1), w[k + 1])
      <4>1. k + 1 \in 1 .. 4 OBVIOUS
      <4> QED BY <4>1, ReachGrows
    <3>2. Reach(m2, w, (k + 1) - 1) = Entry(n, u) BY <1>4
    <3>3. w[k + 1] \in 0 .. Slots - 1 BY Indices
    <3> QED BY <3>1, <3>2, <3>3, <1>b, <1>5 DEF Through, IsClear
  <2>2. ~Reach(m2, w, k + 1).present BY <2>1 DEF None
  <2>3. CASE j = k + 1 BY <2>1, <2>3
  <2>4. CASE k + 1 < j
    <3>1. k + 1 \in 0 .. 4 OBVIOUS
    <3> QED BY <2>2, <2>4, <3>1, NothingBehind
  <2> QED BY <2>3, <2>4
<1>7. \A w \in Virt : SamePath(v, w, k) => Reach(m, w, 4) = None
  <2> SUFFICES ASSUME NEW w \in Virt, SamePath(v, w, k)
               PROVE  Reach(m, w, 4) = None
    OBVIOUS
  <2>1. ~Reach(m, w, k).present BY <1>b, SharedPath
  <2> QED BY <2>1, NothingBehind
<1>8. \A w \in Virt : Reach(m2, w, 4) = Reach(m, w, 4) BY <1>2, <1>6, <1>7
<1>9. \A w \in Virt, j \in 0 .. 3 : Reach(m2, w, j).present =>
        \/ Reach(m2, w, j) = Reach(m, w, j) /\ Reach(m2, w, j).addr \in H \cup {Root}
        \/ j = k /\ SamePath(v, w, k) /\ Reach(m2, w, j).addr = n
  <2> SUFFICES ASSUME NEW w \in Virt, NEW j \in 0 .. 3, Reach(m2, w, j).present
               PROVE  \/ Reach(m2, w, j) = Reach(m, w, j) /\ Reach(m2, w, j).addr \in H \cup {Root}
                      \/ j = k /\ SamePath(v, w, k) /\ Reach(m2, w, j).addr = n
    OBVIOUS
  <2>1. CASE j < k \/ ~SamePath(v, w, k)
    <3>1. Reach(m2, w, j) = Reach(m, w, j) BY <2>1, <1>2
    <3> QED BY <1>a, <3>1, TablesAreHanded
  <2>2. CASE j = k /\ SamePath(v, w, k)
    BY <2>2, <1>4, <1>5
  <2>3. CASE j > k /\ SamePath(v, w, k)
    <3>1. Reach(m2, w, j) = None BY <2>3, <1>6
    <3> QED BY <3>1 DEF None
  <2> QED BY <2>1, <2>2, <2>3
<1>10. m2[Root][RecursiveSlot] = Recursive
  <2>1. m[Root][RecursiveSlot] = Recursive BY <1>a DEF TreeOK
  <2>2. Root # T \/ RecursiveSlot # v[k] BY <1>a, RootSlotKept
  <2> QED BY <1>a, <2>1, <2>2, Constants DEF AlikeBut
<1>11. \A w \in Virt, j \in 1 .. 3 : Reach(m2, w, j).present => Reach(m2, w, j).addr \in H \cup {n}
  <2> SUFFICES ASSUME NEW w \in Virt, NEW j \in 1 .. 3, Reach(m2, w, j).present
               PROVE  Reach(m2, w, j).addr \in H \cup {n}
    OBVIOUS
  <2>1. CASE Reach(m2, w, j) = Reach(m, w, j) BY <1>a, <2>1 DEF TreeOK
  <2>2. CASE Reach(m2, w, j).addr = n BY <2>2
  <2> QED BY <2>1, <2>2, <1>9
<1>12. \A w, x \in Virt, i, j \in 0 .. 3 :
         Reach(m2, w, i).present /\ Reach(m2, x, j).present /\ Reach(m2, w, i).addr = Reach(m2, x, j).addr =>
           i = j /\ SamePath(w, x, j)
  <2> SUFFICES ASSUME NEW w \in Virt, NEW x \in Virt, NEW i \in 0 .. 3, NEW j \in 0 .. 3,
                      Reach(m2, w, i).present, Reach(m2, x, j).present,
                      Reach(m2, w, i).addr = Reach(m2, x, j).addr
               PROVE  i = j /\ SamePath(w, x, j)
    OBVIOUS
  <2>1. CASE Reach(m2, w, i).addr = n
    <3>1. i = k /\ SamePath(v, w, k) BY <1>b, <2>1, <1>9
    <3>2. j = k /\ SamePath(v, x, k) BY <1>b, <2>1, <1>9
    <3> QED BY <3>1, <3>2 DEF SamePath
  <2>2. CASE Reach(m2, w, i).addr # n
    <3>1. Reach(m2, w, i) = Reach(m, w, i) BY <2>2, <1>9
    <3>2. Reach(m2, x, j) = Reach(m, x, j) BY <2>2, <1>9
    <3> QED BY <1>a, <3>1, <3>2 DEF TreeOK
  <2> QED BY <2>1, <2>2
<1>13. H \cup {n} \subseteq Pages BY <1>a, <1>b DEF TreeOK
<1> QED BY <1>3, <1>8, <1>10, <1>11, <1>12, <1>13 DEF TreeOK

\* Writing the last entry of a path changes what this one virtual page is mapped to.
LEMMA NewLeaf ==
  ASSUME NEW m, NEW m2, NEW H, NEW v \in Virt, Written(m, m2, H, v, 4)
  PROVE  /\ \A H2 : H \subseteq H2 /\ H2 \subseteq Pages => TreeOK(m2, H2)
         /\ \A w \in Virt, j \in 0 .. 3 : Reach(m2, w, j) = Reach(m, w, j)
         /\ Reach(m2, v, 4) = m2[Reach(m, v, 3).addr][v[4]]
         /\ \A w \in Virt \ {v} : Reach(m2, w, 4) = Reach(m, w, 4)
<1>a. TreeOK(m, H) /\ Reach(m, v, 3).present /\ AlikeBut(m, m2, H, Reach(m, v, 3).addr, v[4])
  <2>1. 4 - 1 = 3 OBVIOUS
  <2> QED BY <2>1 DEF Written
<1>1. \A w \in Virt : \A j \in 0 .. 4 : j < 4 \/ ~SamePath(v, w, 4) => Reach(m2, w, j) = Reach(m, w, j)
  <2>1. 4 \in 1 .. 4 OBVIOUS
  <2> QED BY <2>1, OneEntryWritten
<1>2. \A w \in Virt, j \in 0 .. 3 : Reach(m2, w, j) = Reach(m, w, j) BY <1>1
<1>3. \A w \in Virt \ {v} : ~SamePath(v, w, 4)
  <2> SUFFICES ASSUME NEW w \in Virt \ {v}, SamePath(v, w, 4)
               PROVE  v = w
    OBVIOUS
  <2>1. v \in [1 .. 4 -> 0 .. Slots - 1] /\ w \in [1 .. 4 -> 0 .. Slots - 1] BY PagingAssumption
  <2> QED BY <2>1 DEF SamePath
<1>4. \A w \in Virt \ {v} : Reach(m2, w, 4) = Reach(m, w, 4) BY <1>1, <1>3
<1>5. Reach(m2, v, 4) = m2[Reach(m, v, 3).addr][v[4]]
  <2>1. Reach(m2, v, 4) = Through(m2, Reach(m2, v, 3), v[4])
    <3>1. 4 \in 1 .. 4 /\ 4 - 1 = 3 OBVIOUS
    <3> QED BY <3>1, ReachGrows
  <2>2. Reach(m2, v, 3) = Reach(m, v, 3) BY <1>2
  <2>3. Reach(m, v, 3).addr \in Pages BY <1>a, TablesAreHanded
  <2> QED BY <1>a, <2>1, <2>2, <2>3 DEF Through
<1>6. m2[Root][RecursiveSlot] = Recursive
  <2>1. m[Root][RecursiveSlot] = Recursive BY <1>a DEF TreeOK
  <2>2. Reach(m, v, 3).addr # Root
    <3>1. Reach(m, v, 0).present /\ Reach(m, v, 0).addr = Root BY ReachGrows DEF Recursive, Entry
    <3>2. 0 \in 0 .. 3 /\ 3 \in 0 .. 3 /\ 0 # 3 OBVIOUS
    <3> QED BY <1>a, <3>1, <3>2 DEF TreeOK
  <2> QED BY <1>a, <2>1, <2>2, Constants DEF AlikeBut
<1>7. \A w \in Virt, j \in 1 .. 3 : Reach(m2, w, j).present => Reach(m2, w, j).addr \in H
  BY <1>a, <1>2 DEF TreeOK
<1>8. \A w, x \in Virt, i, j \in 0 .. 3 :
        Reach(m2, w, i).present /\ Reach(m2, x, j).present /\ Reach(m2, w, i).addr = Reach(m2, x, j).addr =>
          i = j /\ SamePath(w, x, j)
  BY <1>a, <1>2 DEF TreeOK
<1>9. ASSUME NEW H2, H \subseteq H2, H2 \subseteq Pages
      PROVE  TreeOK(m2, H2)
  BY <1>6, <1>7, <1>8, <1>9 DEF TreeOK
<1> QED BY <1>2, <1>4, <1>5, <1>9

-----------------------------------------------------------------------------
(***************************************************************************)
(* Pages.                                                                  *)
(***************************************************************************)

\* The entries of the memory map are ranges of numbers.
LEMMA MapEntries ==
  ASSUME map \in Maps, NEW i \in DOMAIN map
  PROVE  /\ i \in Nat /\ i >= 1 /\ i <= Len(map) /\ Len(map) \in Nat
         /\ map[i] \in [offset : Nat, size : Nat, type : Nat]
         /\ map[i].offset \in Nat /\ map[i].size \in Nat /\ map[i].offset + map[i].size <= Wrap
<1>1. map \in Seq([offset : Nat, size : Nat, type : Nat]) BY MapsAssumption
<1>2. i \in 1 .. Len(map) /\ Len(map) \in Nat /\ map[i] \in [offset : Nat, size : Nat, type : Nat]
  <2> DEFINE R == [offset : Nat, size : Nat, type : Nat]
  <2> HIDE DEF R
  <2>1. map \in Seq(R) BY <1>1 DEF R
  <2>2. i \in 1 .. Len(map) /\ Len(map) \in Nat /\ map[i] \in R BY <2>1
  <2> QED BY <2>2 DEF R
<1>3. \A j \in DOMAIN map : map[j].offset + map[j].size <= Wrap BY Zenon, MapsAssumption
<1>4. map[i].offset + map[i].size <= Wrap BY <1>3
<1>5. map[i].offset \in Nat /\ map[i].size \in Nat BY <1>2
<1> QED BY <1>2, <1>4, <1>5

\* A part of what lies in a usable entry lies in it.
LEMMA PartUsable ==
  ASSUME map \in Maps, NEW from \in Nat, NEW to \in Nat, NEW from2 \in Nat, NEW to2 \in Nat,
         InUsable(from, to), from <= from2, to2 <= to
  PROVE  InUsable(from2, to2)
<1>1. PICK i \in DOMAIN map : /\ map[i].type = Usable /\ map[i].offset <= from
                              /\ to <= map[i].offset + map[i].size
  BY DEF InUsable
<1>2. map[i].offset <= from2 /\ to2 <= map[i].offset + map[i].size BY <1>1, MapEntries
<1> QED BY <1>1, <1>2 DEF InUsable

\* A region has at least one page.
LEMMA RegionEnds ==
  ASSUME NEW r \in Region
  PROVE  /\ r.address \in Nat /\ r.pagecount \in Nat /\ r.pagecount >= 1 /\ r.pagecount <= Wrap
         /\ EndOf(r) \in Nat /\ EndOf(r) >= r.address + PageSize
<1>1. r.address \in Nat /\ r.pagecount \in 1 .. Wrap BY DEF Region
<1>2. r.pagecount \in Nat /\ 1 <= r.pagecount BY <1>1
<1>3. 1 * PageSize <= r.pagecount * PageSize BY <1>2, MorePages
<1>4. 1 * PageSize = PageSize /\ r.pagecount * PageSize \in Nat BY <1>2, Constants
<1> QED BY <1>1, <1>2, <1>3, <1>4, Constants DEF EndOf

\* Where a region of the rest of the list was in the list.
Source(rs, i) == IF rs[1].pagecount = 1 THEN i + 1 ELSE i

\* What remains of the list is the regions there were, the first without its first page.
LEMMA RestRegions ==
  ASSUME NEW rs \in Seq(Region), rs # <<>>
  PROVE  /\ Rest(rs) \in Seq(Region)
         /\ \A i \in DOMAIN Rest(rs) :
              /\ Source(rs, i) \in DOMAIN rs
              /\ EndOf(Rest(rs)[i]) = EndOf(rs[Source(rs, i)])
              /\ Rest(rs)[i].address =
                   IF Source(rs, i) = 1 THEN rs[1].address + PageSize ELSE rs[Source(rs, i)].address
         /\ \A i, j \in DOMAIN Rest(rs) : i # j => Source(rs, i) # Source(rs, j)
<1>1. 1 \in DOMAIN rs /\ rs[1] \in Region /\ DOMAIN rs = 1 .. Len(rs) /\ Len(rs) \in Nat
  OBVIOUS
<1>2. CASE rs[1].pagecount = 1
  <2>1. Rest(rs) = Tail(rs) BY <1>2 DEF Rest
  <2>2. /\ Tail(rs) \in Seq(Region) /\ Len(Tail(rs)) = Len(rs) - 1
        /\ DOMAIN Tail(rs) = 1 .. Len(rs) - 1
        /\ \A i \in 1 .. Len(rs) - 1 : Tail(rs)[i] = rs[i + 1]
    BY <1>1
  <2>3. \A i \in DOMAIN Rest(rs) : Source(rs, i) = i + 1 /\ i + 1 \in DOMAIN rs /\ i + 1 # 1
    BY <1>1, <1>2, <2>1, <2>2 DEF Source
  <2> QED BY <2>1, <2>2, <2>3
<1>3. CASE rs[1].pagecount # 1
  <2> DEFINE a == rs[1].address + PageSize
             c == (rs[1].pagecount - 1) % Wrap
             r == [rs[1] EXCEPT !.address = a, !.pagecount = c]
  <2>2. rs[1].address \in Nat /\ rs[1].pagecount \in 2 .. Wrap BY <1>1, <1>3, RegionEnds
  <2>3. c = rs[1].pagecount - 1
    <3>1. rs[1].pagecount - 1 \in Nat /\ Wrap \in Nat /\ rs[1].pagecount - 1 < Wrap
      BY <2>2, Constants
    <3> QED BY <3>1, SmallRemainder
  <2>4. a \in Nat BY <2>2, Constants
  <2> HIDE DEF c
  <2>5. c \in 1 .. Wrap BY <2>2, <2>3, Constants
  <2> HIDE DEF a
  <2>6. r \in Region /\ r.address = a /\ r.pagecount = c BY <1>1, <2>4, <2>5 DEF Region
  <2>1. Rest(rs) = [rs EXCEPT ![1] = r]
    <3>1. Rest(rs) = [rs EXCEPT ![1].address = @ + PageSize, ![1].pagecount = (@ - 1) % Wrap]
      BY <1>3 DEF Rest
    <3> QED BY <1>1, <3>1 DEF a, c
  <2> HIDE DEF r
  <2>7. Rest(rs) \in Seq(Region) /\ DOMAIN Rest(rs) = DOMAIN rs BY <2>6, <2>1
  <2>8. \A i \in DOMAIN rs : Rest(rs)[i] = IF i = 1 THEN r ELSE rs[i] BY <1>1, <2>1
  <2>9. r.address = a /\ EndOf(r) = EndOf(rs[1])
    <3> DEFINE d == rs[1].pagecount - 1
    <3>1. d \in Nat /\ d + 1 = rs[1].pagecount BY <2>2
    <3>2. (d + 1) * PageSize = d * PageSize + PageSize BY <3>1, OnePageMore
    <3>3. d * PageSize \in Nat BY <3>1, Constants
    <3>4. EndOf(rs[1]) = rs[1].address + (d * PageSize + PageSize) BY <3>1, <3>2 DEF EndOf
    <3>5. r.address = a /\ r.pagecount = d BY <2>3, <2>6
    <3> HIDE DEF d
    <3>6. EndOf(r) = a + d * PageSize BY <3>5 DEF EndOf
    <3>7. rs[1].address + (d * PageSize + PageSize) = a + d * PageSize
      <4> DEFINE e == d * PageSize
      <4>1. e \in Nat /\ PageSize \in Nat BY <3>3, Constants
      <4> HIDE DEF e
      <4>2. rs[1].address + (e + PageSize) = a + e BY <2>2, <4>1 DEF a
      <4> QED BY <4>2 DEF e
    <3> QED BY <3>4, <3>5, <3>6, <3>7
  <2>10. \A i \in DOMAIN rs : Source(rs, i) = i BY <1>3, <2>7 DEF Source
  <2> HIDE DEF a
  <2> QED BY <2>7, <2>8, <2>9, <2>10 DEF a
<1> QED BY <1>2, <1>3

\* The first page of the list is memory nobody has, and the rest of the list is apart from it.
LEMMA FirstPageFree ==
  ASSUME map \in Maps, NEW H, H \subseteq Int, NEW rs \in Seq(Region), rs # <<>>, RegionsOK(rs, H, at)
  PROVE  /\ FirstPage(rs) \in Nat /\ FirstPage(rs) >= EndPtr /\ FirstPage(rs) \notin H
         /\ InUsable(FirstPage(rs), FirstPage(rs) + PageSize)
         /\ Rest(rs) \in Seq(Region) /\ RegionsOK(Rest(rs), H \cup {FirstPage(rs)}, at)
<1> DEFINE n == FirstPage(rs)
           new == Rest(rs)
<1>0. PageSize \in Nat /\ PageSize > 0 /\ EndPtr \in Nat BY Constants
<1>1. 1 \in DOMAIN rs /\ n = rs[1].address BY DEF FirstPage
<1>2. \A i \in DOMAIN rs :
        /\ rs[i].address \in Nat /\ EndOf(rs[i]) \in Nat
        /\ EndOf(rs[i]) >= rs[i].address + PageSize
  BY RegionEnds
<1>3. /\ new \in Seq(Region)
      /\ \A i \in DOMAIN new :
           /\ Source(rs, i) \in DOMAIN rs
           /\ EndOf(new[i]) = EndOf(rs[Source(rs, i)])
           /\ new[i].address =
                IF Source(rs, i) = 1 THEN rs[1].address + PageSize ELSE rs[Source(rs, i)].address
      /\ \A i, j \in DOMAIN new : i # j => Source(rs, i) # Source(rs, j)
  BY RestRegions
<1>4. /\ \A i \in DOMAIN rs : rs[i].address >= EndPtr /\ InUsable(rs[i].address, EndOf(rs[i]))
      /\ \A i, j \in DOMAIN rs : i # j => Apart(rs[i].address, EndOf(rs[i]), rs[j].address, EndOf(rs[j]))
      /\ \A i \in DOMAIN rs, p \in H : p < rs[i].address \/ EndOf(rs[i]) <= p
      /\ \A i \in DOMAIN rs, k \in DOMAIN map :
           k >= at /\ map[k].type = Usable =>
             Apart(rs[i].address, EndOf(rs[i]), map[k].offset, map[k].offset + map[k].size)
  BY DEF RegionsOK
<1> HIDE DEF new, n
<1>5. \A i \in DOMAIN new :
        /\ new[i].address \in Nat /\ EndOf(new[i]) \in Nat
        /\ new[i].address >= rs[Source(rs, i)].address
        /\ EndOf(new[i]) = EndOf(rs[Source(rs, i)])
        /\ Source(rs, i) = 1 => new[i].address = n + PageSize
  BY <1>0, <1>1, <1>2, <1>3
<1>6. n \in Nat /\ n >= EndPtr /\ n \notin H
  BY <1>0, <1>1, <1>2, <1>4
<1>7. InUsable(n, n + PageSize)
  BY <1>0, <1>1, <1>2, <1>4, PartUsable
<1>8. \A i \in DOMAIN new : new[i].address >= EndPtr /\ InUsable(new[i].address, EndOf(new[i]))
  <2> TAKE i \in DOMAIN new
  <2>1. Source(rs, i) \in DOMAIN rs /\ InUsable(rs[Source(rs, i)].address, EndOf(rs[Source(rs, i)]))
    BY <1>3, <1>4
  <2>2. /\ rs[Source(rs, i)].address \in Nat /\ rs[Source(rs, i)].address >= EndPtr
        /\ EndOf(rs[Source(rs, i)]) \in Nat
    BY <1>2, <1>4, <2>1
  <2>3. /\ new[i].address \in Nat /\ EndOf(new[i]) = EndOf(rs[Source(rs, i)])
        /\ new[i].address >= rs[Source(rs, i)].address
    BY <1>5
  <2>4. InUsable(new[i].address, EndOf(new[i])) BY <2>1, <2>2, <2>3, PartUsable
  <2> QED BY <1>0, <2>2, <2>3, <2>4
<1>9. \A i, j \in DOMAIN new : i # j => Apart(new[i].address, EndOf(new[i]), new[j].address, EndOf(new[j]))
  <2> SUFFICES ASSUME NEW i \in DOMAIN new, NEW j \in DOMAIN new, i # j
               PROVE  Apart(new[i].address, EndOf(new[i]), new[j].address, EndOf(new[j]))
    OBVIOUS
  <2>1. /\ Source(rs, i) \in DOMAIN rs /\ Source(rs, j) \in DOMAIN rs /\ Source(rs, i) # Source(rs, j)
    BY <1>3
  <2>2. Apart(rs[Source(rs, i)].address, EndOf(rs[Source(rs, i)]),
              rs[Source(rs, j)].address, EndOf(rs[Source(rs, j)]))
    BY <1>4, <2>1
  <2>3. /\ new[i].address \in Nat /\ EndOf(new[i]) = EndOf(rs[Source(rs, i)])
        /\ new[i].address >= rs[Source(rs, i)].address
        /\ rs[Source(rs, i)].address \in Nat /\ EndOf(rs[Source(rs, i)]) \in Nat
    BY <1>2, <1>5, <2>1
  <2>4. /\ new[j].address \in Nat /\ EndOf(new[j]) = EndOf(rs[Source(rs, j)])
        /\ new[j].address >= rs[Source(rs, j)].address
        /\ rs[Source(rs, j)].address \in Nat /\ EndOf(rs[Source(rs, j)]) \in Nat
    BY <1>2, <1>5, <2>1
  <2> QED BY <2>2, <2>3, <2>4 DEF Apart
<1>10. \A i \in DOMAIN new, p \in H \cup {n} : p < new[i].address \/ EndOf(new[i]) <= p
  <2> SUFFICES ASSUME NEW i \in DOMAIN new, NEW p \in H \cup {n}
               PROVE  p < new[i].address \/ EndOf(new[i]) <= p
    OBVIOUS
  <2>1. Source(rs, i) \in DOMAIN rs BY <1>3
  <2>5. /\ new[i].address \in Nat /\ EndOf(new[i]) = EndOf(rs[Source(rs, i)])
        /\ new[i].address >= rs[Source(rs, i)].address
        /\ rs[Source(rs, i)].address \in Nat /\ EndOf(rs[Source(rs, i)]) \in Nat
    BY <1>2, <1>5, <2>1
  <2>2. CASE p \in H
    <3>1. p < rs[Source(rs, i)].address \/ EndOf(rs[Source(rs, i)]) <= p BY <1>4, <2>1, <2>2
    <3>2. p \in Int BY <2>2
    <3> QED BY <2>5, <3>1, <3>2
  <2>3. CASE p = n /\ Source(rs, i) = 1
    <3>1. new[i].address = n + PageSize BY <1>5, <2>3
    <3> QED BY <1>0, <1>6, <2>3, <3>1
  <2>4. CASE p = n /\ Source(rs, i) # 1
    <3>1. Apart(rs[1].address, EndOf(rs[1]), rs[Source(rs, i)].address, EndOf(rs[Source(rs, i)]))
      BY <1>1, <1>4, <2>1, <2>4
    <3>2. rs[1].address = n /\ EndOf(rs[1]) > n /\ EndOf(rs[1]) \in Nat BY <1>0, <1>1, <1>2
    <3> QED BY <1>6, <2>4, <2>5, <3>1, <3>2 DEF Apart
  <2> QED BY <2>2, <2>3, <2>4
<1>11. \A i \in DOMAIN new, k \in DOMAIN map :
         k >= at /\ map[k].type = Usable =>
           Apart(new[i].address, EndOf(new[i]), map[k].offset, map[k].offset + map[k].size)
  <2> SUFFICES ASSUME NEW i \in DOMAIN new, NEW k \in DOMAIN map, k >= at, map[k].type = Usable
               PROVE  Apart(new[i].address, EndOf(new[i]), map[k].offset, map[k].offset + map[k].size)
    OBVIOUS
  <2>1. Source(rs, i) \in DOMAIN rs BY <1>3
  <2>2. Apart(rs[Source(rs, i)].address, EndOf(rs[Source(rs, i)]),
              map[k].offset, map[k].offset + map[k].size)
    BY <1>4, <2>1
  <2>3. map[k].offset \in Nat /\ map[k].size \in Nat BY MapEntries
  <2>4. /\ new[i].address \in Nat /\ EndOf(new[i]) = EndOf(rs[Source(rs, i)])
        /\ new[i].address >= rs[Source(rs, i)].address
        /\ rs[Source(rs, i)].address \in Nat /\ EndOf(rs[Source(rs, i)]) \in Nat
    BY <1>2, <1>5, <2>1
  <2> QED BY <2>2, <2>3, <2>4 DEF Apart
<1>12. RegionsOK(new, H \cup {n}, at) BY <1>8, <1>9, <1>10, <1>11 DEF RegionsOK
<1> QED BY <1>3, <1>6, <1>7, <1>12 DEF n, new

\* What has been handed out, with one page more.
LEMMA HandedOut ==
  ASSUME NEW h \in Seq(Int), NEW n \in Int
  PROVE  /\ Append(h, n) \in Seq(Int) /\ Range(Append(h, n)) = Range(h) \cup {n} /\ Range(h) \subseteq Int
         /\ IsInjective(h) /\ n \notin Range(h) => IsInjective(Append(h, n))
<1>1. /\ Append(h, n) \in Seq(Int) /\ DOMAIN h = 1 .. Len(h) /\ Len(h) \in Nat
      /\ DOMAIN Append(h, n) = 1 .. Len(h) + 1 /\ Append(h, n)[Len(h) + 1] = n
      /\ \A i \in 1 .. Len(h) : h[i] \in Int /\ Append(h, n)[i] = h[i]
  OBVIOUS
<1> DEFINE a == Append(h, n)
<1> HIDE DEF a
<1>2. /\ DOMAIN a = 1 .. Len(h) + 1 /\ a[Len(h) + 1] = n /\ \A i \in 1 .. Len(h) : a[i] = h[i]
  BY <1>1 DEF a
<1>3. Range(a) = Range(h) \cup {n}
  <2>1. \A p \in Range(a) : p \in Range(h) \cup {n}
    <3> TAKE p \in Range(a)
    <3>1. PICK i \in 1 .. Len(h) + 1 : p = a[i] BY <1>2 DEF Range
    <3>2. i \in 1 .. Len(h) \/ i = Len(h) + 1 BY <1>1
    <3> QED BY <1>1, <1>2, <3>1, <3>2 DEF Range
  <2>2. \A p \in Range(h) : p \in Range(a)
    <3> TAKE p \in Range(h)
    <3>1. PICK i \in 1 .. Len(h) : p = h[i] BY <1>1 DEF Range
    <3>2. i \in 1 .. Len(h) + 1 /\ a[i] = p BY <1>1, <1>2, <3>1
    <3> QED BY <1>2, <3>2 DEF Range
  <2>3. n \in Range(a)
    <3>1. Len(h) + 1 \in 1 .. Len(h) + 1 BY <1>1
    <3> QED BY <1>2, <3>1 DEF Range
  <2> QED BY <2>1, <2>2, <2>3
<1>4. Range(h) \subseteq Int BY <1>1 DEF Range
<1>5. ASSUME IsInjective(h), n \notin Range(h)
      PROVE  IsInjective(a)
  <2> SUFFICES ASSUME NEW i \in DOMAIN a, NEW j \in DOMAIN a, a[i] = a[j]
               PROVE  i = j
    BY DEF IsInjective
  <2>1. \A k \in 1 .. Len(h) : a[k] \in Range(h) BY <1>1, <1>2 DEF Range
  <2>2. CASE i \in 1 .. Len(h) /\ j \in 1 .. Len(h)
    BY <1>1, <1>2, <1>5, <2>2 DEF IsInjective
  <2>3. CASE i = Len(h) + 1 \/ j = Len(h) + 1
    <3>1. a[i] = n /\ a[j] = n BY <1>2, <2>3
    <3>2. i \notin 1 .. Len(h) /\ j \notin 1 .. Len(h) BY <1>5, <2>1, <3>1
    <3> QED BY <1>1, <1>2, <3>2
  <2> QED BY <1>1, <1>2, <2>2, <2>3
<1> QED BY <1>1, <1>3, <1>4, <1>5 DEF a

\* The fields of memory while a call is under way.
LEMMA Fields ==
  ASSUME NEW s \in State
  PROVE  /\ s.mem \in Memory /\ s.gfp \in Nat /\ s.regions \in Seq(Region) /\ s.handed \in Seq(Int)
         /\ Range(s.handed) \subseteq Int
<1>1. s.mem \in Memory /\ s.gfp \in Nat /\ s.regions \in Seq(Region) /\ s.handed \in Seq(Int)
  BY DEF State
<1> HIDE DEF State
<1>2. 0 \in Int OBVIOUS
<1> QED BY <1>1, <1>2, HandedOut

\* What taking a page changes.
LEMMA TakenFields ==
  ASSUME NEW s \in State, NextPage(s) \in Nat, Rest(s.regions) \in Seq(Region)
  PROVE  /\ Taken(s) \in State
         /\ Taken(s).mem = s.mem /\ Taken(s).handed = Append(s.handed, NextPage(s))
         /\ Taken(s).gfp = IF phase = "boot" THEN s.gfp + PageSize ELSE s.gfp
         /\ Taken(s).regions = IF phase = "boot" THEN s.regions ELSE Rest(s.regions)
<1> DEFINE h == Append(s.handed, NextPage(s))
           t == [s EXCEPT !.handed = h]
<1>1. h \in Seq(Int)
  <2>1. NextPage(s) \in Int OBVIOUS
  <2> QED BY <2>1, Fields, HandedOut
<1> HIDE DEF h
<1>2. t \in State /\ t.mem = s.mem /\ t.gfp = s.gfp /\ t.regions = s.regions /\ t.handed = h
  BY <1>1 DEF State
<1>3. Taken(s) = IF phase = "boot" THEN [t EXCEPT !.gfp = @ + PageSize] ELSE [t EXCEPT !.regions = Rest(@)]
  BY DEF Taken, h
<1> HIDE DEF t
<1>4. s.gfp + PageSize \in Nat BY Fields, Constants
<1>5. CASE phase = "boot"
  <2> DEFINE g == s.gfp + PageSize
  <2>1. Taken(s) = [t EXCEPT !.gfp = g] BY <1>2, <1>3, <1>5
  <2>2. g \in Nat BY <1>4
  <2> HIDE DEF g
  <2>3. /\ Taken(s) \in State /\ Taken(s).mem = t.mem /\ Taken(s).gfp = g
        /\ Taken(s).regions = t.regions /\ Taken(s).handed = t.handed
    BY <1>2, <2>1, <2>2 DEF State
  <2> QED BY <1>2, <1>5, <2>3 DEF g, h
<1>6. CASE phase # "boot"
  <2> DEFINE r == Rest(s.regions)
  <2>1. Taken(s) = [t EXCEPT !.regions = r] BY <1>2, <1>3, <1>6
  <2>2. r \in Seq(Region) OBVIOUS
  <2> HIDE DEF r
  <2>3. /\ Taken(s) \in State /\ Taken(s).mem = t.mem /\ Taken(s).gfp = t.gfp
        /\ Taken(s).regions = r /\ Taken(s).handed = t.handed
    BY <1>2, <2>1, <2>2 DEF State
  <2> QED BY <1>2, <1>6, <2>3 DEF r, h
<1> QED BY <1>5, <1>6

\* A call always has a number to take, MemTop when there is no page.
LEMMA NextIsNumber ==
  ASSUME map \in Maps, NEW s \in State, PagesOK(s)
  PROVE  NextPage(s) \in Nat /\ Rest(s.regions) \in Seq(Region)
<1>1. /\ s.gfp \in Nat /\ s.regions \in Seq(Region) /\ Range(s.handed) \subseteq Int /\ MemTop \in Nat
  BY Fields, Constants
<1>2. RegionsOK(s.regions, Range(s.handed), at) BY DEF PagesOK
<1>3. CASE s.regions = <<>>
  BY <1>1, <1>3 DEF NextPage, FirstPage, Rest
<1>4. CASE s.regions # <<>>
  BY <1>1, <1>2, <1>4, FirstPageFree DEF NextPage
<1> QED BY <1>3, <1>4

\* The page taken is memory nobody had.
LEMMA TakenOK ==
  ASSUME map \in Maps, phase \in {"boot", "run"}, NEW s \in State, PagesOK(s), ~Failed(Taken(s))
  PROVE  /\ NextPage(s) \in Pages /\ NextPage(s) # Root /\ NextPage(s) \notin Range(s.handed)
         /\ Taken(s) \in State /\ PagesOK(Taken(s)) /\ Taken(s).mem = s.mem
         /\ Range(Taken(s).handed) = Range(s.handed) \cup {NextPage(s)}
<1> DEFINE n == NextPage(s)
           t == Taken(s)
           H == Range(s.handed)
<1>0. /\ s.gfp \in Nat /\ s.regions \in Seq(Region) /\ s.handed \in Seq(Int) /\ H \subseteq Int
      /\ PageSize \in Nat /\ {EndPtr, MemTop, GfpStart, Root} \subseteq Nat
      /\ Root < GfpStart /\ Root < EndPtr
  BY Fields, Constants
<1>1. /\ ~Failed(s) /\ IsInjective(s.handed)
      /\ \A p \in H : p # Root /\ (p >= EndPtr => InUsable(p, p + PageSize))
      /\ RegionsOK(s.regions, H, at)
  BY DEF PagesOK
<1>2. n \in Nat /\ Rest(s.regions) \in Seq(Region) BY NextIsNumber
<1>3. /\ t \in State /\ t.mem = s.mem /\ t.handed = Append(s.handed, n)
      /\ t.gfp = IF phase = "boot" THEN s.gfp + PageSize ELSE s.gfp
      /\ t.regions = IF phase = "boot" THEN s.regions ELSE Rest(s.regions)
  BY <1>2, TakenFields
<1>4. Range(t.handed) = H \cup {n} /\ (n \notin H => IsInjective(t.handed))
  <2>1. n \in Int BY <1>2
  <2> QED BY <1>0, <1>1, <1>3, <2>1, HandedOut
<1>5. n \in Pages
  <2>1. \A i \in DOMAIN t.handed : t.handed[i] \in Pages BY DEF Failed
  <2>2. n \in Range(t.handed) BY <1>4
  <2> QED BY <2>1, <2>2 DEF Range
<1> HIDE DEF n, t, H
<1>6. CASE phase = "boot"
  <2>1. /\ s.regions = <<>> /\ GfpStart <= s.gfp /\ \A p \in H : GfpStart <= p /\ p < s.gfp
    BY <1>6 DEF PagesOK, H
  <2>2. n = s.gfp BY <1>6 DEF NextPage, n
  <2>3. t.gfp <= EndPtr /\ t.gfp = s.gfp + PageSize
    <3>1. t.gfp = s.gfp + PageSize BY <1>3, <1>6
    <3>2. ~(t.gfp > EndPtr) BY DEF Failed, t
    <3> QED BY <1>0, <3>1, <3>2
  <2>4. n \notin H /\ n # Root /\ n < EndPtr
    <3>1. s.gfp < EndPtr BY <1>0, <2>3, Constants
    <3> QED BY <1>0, <2>1, <2>2, <3>1
  <2>5. t.regions = <<>> /\ GfpStart <= t.gfp /\ \A p \in H \cup {n} : GfpStart <= p /\ p < t.gfp
    <3>1. t.gfp \in Nat /\ s.gfp < t.gfp BY <1>0, <2>3, Constants
    <3>2. GfpStart <= t.gfp BY <1>0, <2>1, <3>1
    <3>3. \A p \in H : GfpStart <= p /\ p < t.gfp BY <1>0, <2>1, <3>1
    <3>4. t.regions = <<>> BY <1>3, <1>6, <2>1
    <3> QED BY <2>1, <2>2, <3>1, <3>2, <3>3, <3>4
  <2>6. RegionsOK(t.regions, H \cup {n}, at)
    <3>1. DOMAIN t.regions = {} BY <2>5
    <3> QED BY <3>1 DEF RegionsOK
  <2>7. \A p \in H \cup {n} : p # Root /\ (p >= EndPtr => InUsable(p, p + PageSize))
    <3>1. ~(n >= EndPtr) BY <1>0, <1>2, <2>4 DEF n
    <3> QED BY <1>1, <2>4, <3>1 DEF H
  <2>8. PagesOK(t)
    <3>1. ~Failed(t) BY DEF t
    <3> QED BY <3>1, <1>4, <1>6, <2>4, <2>5, <2>6, <2>7 DEF PagesOK
  <2> QED BY <1>3, <1>4, <1>5, <2>4, <2>8 DEF n, t, H
<1>7. CASE phase = "run"
  <2>1. n = FirstPage(s.regions) BY <1>7 DEF NextPage, n
  <2>2. s.regions # <<>>
    <3>1. SUFFICES ASSUME s.regions = <<>> PROVE FALSE OBVIOUS
    <3>2. n = MemTop BY <2>1, <3>1 DEF FirstPage
    <3> QED BY <1>0, <1>5, <3>2 DEF Pages
  <2>3. /\ n >= EndPtr /\ n \notin H /\ InUsable(n, n + PageSize)
        /\ RegionsOK(Rest(s.regions), H \cup {n}, at)
    BY <1>0, <1>1, <2>1, <2>2, FirstPageFree DEF H
  <2>4. n # Root BY <1>0, <2>3
  <2>5. RegionsOK(t.regions, H \cup {n}, at) BY <1>3, <1>7, <2>3 DEF n, t, H
  <2>6. \A p \in H \cup {n} : p # Root /\ (p >= EndPtr => InUsable(p, p + PageSize))
    BY <1>1, <2>3, <2>4 DEF n, t, H
  <2>7. PagesOK(t)
    <3>1. ~Failed(t) BY DEF t
    <3> QED BY <3>1, <1>4, <1>7, <2>3, <2>5, <2>6 DEF PagesOK
  <2> QED BY <1>3, <1>4, <1>5, <2>3, <2>4, <2>7 DEF n, t, H
<1> QED BY <1>6, <1>7

\* The pages are in order whatever they hold.
LEMMA PagesOKFields ==
  ASSUME NEW x, NEW y, x.gfp = y.gfp, x.regions = y.regions, x.handed = y.handed
  PROVE  (Failed(x) <=> Failed(y)) /\ (PagesOK(x) => PagesOK(y))
BY DEF Failed, PagesOK

-----------------------------------------------------------------------------
(***************************************************************************)
(* Calls: page tables and the last entry.                                  *)
(***************************************************************************)

\* Other memory, the same pages.
LEMMA OtherMemory ==
  ASSUME NEW s \in State, NEW m
  PROVE  LET t == [s EXCEPT !.mem = m] IN
           /\ t.mem = m /\ t.gfp = s.gfp /\ t.regions = s.regions /\ t.handed = s.handed
           /\ m \in Memory => t \in State
BY DEF State

\* What may stand in a table.
LEMMA EntriesOK ==
  /\ None \in Entries /\ ~None.present
  /\ \A a \in Devices \cup Pages, u \in Uses : Entry(a, u) \in Entries /\ Entry(a, u).present
  /\ \A e \in Entries : e.present \in BOOLEAN /\ [e EXCEPT !.present = FALSE] \in Entries
                      /\ ~[e EXCEPT !.present = FALSE].present
BY DEF None, Entries, Entry

\* Writing one entry.
LEMMA WriteEntry ==
  ASSUME NEW m \in Memory, NEW p \in Pages, NEW i \in 0 .. Slots - 1, NEW e
  PROVE  LET m2 == [m EXCEPT ![p][i] = e] IN
           /\ m2[p][i] = e
           /\ \A q \in Pages, j \in 0 .. Slots - 1 : q # p \/ j # i => m2[q][j] = m[q][j]
           /\ e \in Entries => m2 \in Memory
BY DEF Memory

\* Clearing a page.
LEMMA ClearPage ==
  ASSUME NEW m \in Memory, NEW p \in Pages
  PROVE  LET m2 == [m EXCEPT ![p] = Cleared] IN
           /\ \A j \in 0 .. Slots - 1 : m2[p][j] = None
           /\ \A q \in Pages, j \in 0 .. Slots - 1 : q # p => m2[q][j] = m[q][j]
           /\ m2 \in Memory
<1> DEFINE c == Cleared
<1>1. c \in [0 .. Slots - 1 -> Entries] /\ \A j \in 0 .. Slots - 1 : c[j] = None
  BY EntriesOK DEF Cleared
<1> HIDE DEF c
<1>2. LET m2 == [m EXCEPT ![p] = c] IN
        /\ \A j \in 0 .. Slots - 1 : m2[p][j] = None
        /\ \A q \in Pages, j \in 0 .. Slots - 1 : q # p => m2[q][j] = m[q][j]
        /\ m2 \in Memory
  BY <1>1 DEF Memory
<1> QED BY <1>2 DEF c

\* Pages handed out are pages.
LEMMA HandedArePages ==
  ASSUME NEW s, ~Failed(s)
  PROVE  Range(s.handed) \subseteq Pages
BY DEF Failed, Range

\* The entry a call looks at and writes is the one the path goes through.
LEMMA EntryIsReach ==
  ASSUME NEW m, NEW H, TreeOK(m, H),
         NEW v \in Virt, NEW k \in 1 .. 4, Reach(m, v, k - 1).present
  PROVE  /\ TablePage(m, k, v) = Reach(m, v, k - 1).addr
         /\ TablePage(m, k, v) \in H \cup {Root} /\ TablePage(m, k, v) \in Pages
         /\ TableEntry(m, k, v) = Reach(m, v, k)
<1>1. TablePage(m, k, v) = Reach(m, v, k - 1).addr
  BY WindowShowsTable DEF TablePage, TreeOK
<1>2. k - 1 \in 0 .. 3 OBVIOUS
<1>3. TablePage(m, k, v) \in H \cup {Root} /\ TablePage(m, k, v) \in Pages
  BY <1>1, <1>2, TablesAreHanded
<1>4. Reach(m, v, k) = Through(m, Reach(m, v, k - 1), v[k]) BY ReachGrows
<1> QED BY <1>1, <1>3, <1>4 DEF TableEntry, Through

\* One of the three blocks of map: the table of the next level is there afterwards, new or
\* old, and what the virtual pages are mapped to stays as it was.
LEMMA EnsureOK ==
  ASSUME map \in Maps, phase \in {"boot", "run"}, NEW s, StateOK(s), NEW v \in Virt, NEW k \in 1 .. 3,
         Reach(s.mem, v, k - 1).present, ~Failed(Ensure(s, k, v))
  PROVE  /\ StateOK(Ensure(s, k, v)) /\ Reach(Ensure(s, k, v).mem, v, k).present
         /\ \A w \in Virt : Reach(Ensure(s, k, v).mem, w, 4) = Reach(s.mem, w, 4)
<1> DEFINE H == Range(s.handed)
           T == TablePage(s.mem, k, v)
           n == NextPage(s)
           e == Entry(n, "ReadWrite")
           m1 == [s.mem EXCEPT ![T][v[k]] = e]
           m2 == Clear(m1, Window(k + 1, v))
           taken == Taken(s)
           new == [[taken EXCEPT !.mem = m1] EXCEPT !.mem = m2]
<1>1. s \in State /\ TreeOK(s.mem, H) /\ PagesOK(s) /\ ~Failed(s) BY DEF StateOK, PagesOK
<1>2. s.mem \in Memory /\ H \subseteq Pages BY <1>1, Fields, HandedArePages
<1>3. k \in 1 .. 4 /\ v[k] \in 0 .. Slots - 1
  <2>1. k \in 1 .. 4 OBVIOUS
  <2> QED BY <2>1, Indices
<1>4. /\ T = Reach(s.mem, v, k - 1).addr /\ T \in H \cup {Root} /\ T \in Pages
      /\ TableEntry(s.mem, k, v) = Reach(s.mem, v, k)
  BY <1>1, <1>2, <1>3, EntryIsReach
<1>5. CASE Reach(s.mem, v, k).present
  <2>1. Ensure(s, k, v) = s BY <1>4, <1>5 DEF Ensure
  <2> QED BY <1>5, <2>1
<1>6. CASE ~Reach(s.mem, v, k).present
  <2>1. taken \in State /\ taken.mem = s.mem /\ n \in Nat BY <1>1, NextIsNumber, TakenFields
  <2>2. Ensure(s, k, v) = new
    <3>1. [taken EXCEPT !.mem[T][v[k]] = e] = [taken EXCEPT !.mem = m1] BY <2>1
    <3>2. [taken EXCEPT !.mem = m1].mem = m1 BY <2>1, OtherMemory
    <3>3. Ensure(s, k, v) =
            LET linked == [taken EXCEPT !.mem[T][v[k]] = e]
            IN [linked EXCEPT !.mem = Clear(@, Window(k + 1, v))]
      BY <1>1, <1>4, <1>6 DEF Ensure
    <3> QED BY <3>1, <3>2, <3>3
  <2> HIDE DEF m1, m2, taken
  <2>3. /\ new.mem = m2 /\ new.gfp = taken.gfp /\ new.regions = taken.regions /\ new.handed = taken.handed
        /\ m1 \in Memory /\ m2 \in Memory => new \in State
    <3> DEFINE t1 == [taken EXCEPT !.mem = m1]
    <3>1. t1.mem = m1 /\ t1.gfp = taken.gfp /\ t1.regions = taken.regions /\ t1.handed = taken.handed
      BY <2>1, OtherMemory
    <3> QED BY <2>1 DEF State
  <2> HIDE DEF new
  <2>4. ~Failed(Taken(s)) BY <2>2, <2>3, PagesOKFields DEF taken
  <2>5. /\ n \in Pages /\ n # Root /\ n \notin H /\ PagesOK(taken) /\ Range(taken.handed) = H \cup {n}
    BY <1>1, <2>4, TakenOK DEF taken
  <2>6. e \in Entries /\ e.present /\ e.addr = n BY <2>5, EntriesOK DEF Entry, Uses
  <2> HIDE DEF n, e, H, T
  <2>7. /\ m1 \in Memory /\ m1[T][v[k]] = e
        /\ \A p \in Pages, i \in 0 .. Slots - 1 : p # T \/ i # v[k] => m1[p][i] = s.mem[p][i]
    BY <1>2, <1>3, <1>4, <2>6, WriteEntry DEF m1
  <2>8. Reach(m1, v, k) = e
    <3>1. Written(s.mem, m1, H, v, k)
      <4>1. AlikeBut(s.mem, m1, H, T, v[k]) BY <1>2, <2>7, RootIsPage DEF AlikeBut, H
      <4> QED BY <1>1, <1>4, <4>1 DEF Written, H
    <3>2. Reach(m1, v, k - 1) = Reach(s.mem, v, k - 1)
      <4>1. \A j \in 0 .. 4 : j < k \/ ~SamePath(v, v, k) => Reach(m1, v, j) = Reach(s.mem, v, j)
        BY <1>3, <3>1, OneEntryWritten
      <4>2. k - 1 \in 0 .. 4 /\ k - 1 < k OBVIOUS
      <4> QED BY <4>1, <4>2
    <3>3. Reach(m1, v, k) = Through(m1, Reach(m1, v, k - 1), v[k]) BY <1>3, ReachGrows
    <3> QED BY <1>4, <2>7, <3>2, <3>3 DEF Through
  <2>9. Walk(m1, Window(k + 1, v)).addr = n
    <3>1. m1[Root][RecursiveSlot] = Recursive
      <4>1. Root # T \/ RecursiveSlot # v[k] BY <1>1, <1>3, <1>4, RootSlotKept
      <4>2. s.mem[Root][RecursiveSlot] = Recursive BY <1>1 DEF TreeOK
      <4> QED BY <2>7, <4>1, <4>2, RootIsPage, Constants
    <3>2. k + 1 \in 1 .. 4 /\ (k + 1) - 1 = k OBVIOUS
    <3>3. Walk(m1, Window(k + 1, v)) = Reach(m1, v, (k + 1) - 1) BY <3>1, <3>2, WindowShowsTable
    <3> QED BY <2>6, <2>8, <3>2, <3>3
  <2>10. /\ m2 \in Memory /\ \A i \in 0 .. Slots - 1 : m2[n][i] = None
         /\ \A p \in Pages, i \in 0 .. Slots - 1 : p # n => m2[p][i] = m1[p][i]
    <3>1. m2 = [m1 EXCEPT ![n] = Cleared] BY <2>9 DEF m2, Clear
    <3>2. n \in Pages /\ m1 \in Memory BY <2>5, <2>7
    <3>3. LET x == [m1 EXCEPT ![n] = Cleared] IN
            /\ \A j \in 0 .. Slots - 1 : x[n][j] = None
            /\ \A q \in Pages, j \in 0 .. Slots - 1 : q # n => x[q][j] = m1[q][j]
            /\ x \in Memory
      BY Zenon, <3>2, ClearPage
    <3> QED BY <3>1, <3>3
  <2>11. T # n BY <1>4, <2>5
  <2>12. m2[T][v[k]] = e BY <1>3, <1>4, <2>7, <2>10, <2>11
  <2>13. AlikeBut(s.mem, m2, H, T, v[k])
    <3>1. \A p \in H \cup {Root} : p \in Pages /\ p # n BY <1>2, <2>5, RootIsPage DEF H
    <3> QED BY <2>7, <2>10, <3>1 DEF AlikeBut
  <2>14. /\ TreeOK(m2, H \cup {n}) /\ Reach(m2, v, k) = e
         /\ \A w \in Virt : Reach(m2, w, 4) = Reach(s.mem, w, 4)
    <3>1. Written(s.mem, m2, H, v, k) BY <1>1, <1>4, <2>13 DEF Written, H
    <3>2. IsClear(m2, n) BY <2>10 DEF IsClear
    <3>3. Linked(s.mem, m2, H, v, k, n, "ReadWrite")
      BY <1>4, <1>6, <2>5, <2>12, <3>1, <3>2 DEF Linked, e
    <3> QED BY <3>3, NewTable DEF e
  <2>15. PagesOK(new) BY <2>3, <2>5, PagesOKFields
  <2>16. StateOK(new) BY <2>3, <2>5, <2>7, <2>10, <2>14, <2>15 DEF StateOK
  <2> QED BY <2>2, <2>3, <2>6, <2>14, <2>16
<1> QED BY <1>5, <1>6

\* The three blocks together: the tables of v's path are there afterwards.
LEMMA TablesOK ==
  ASSUME map \in Maps, phase \in {"boot", "run"}, NEW s, StateOK(s), NEW v \in Virt, ~Failed(Tables(s, v))
  PROVE  /\ StateOK(Tables(s, v)) /\ Reach(Tables(s, v).mem, v, 3).present
         /\ \A w \in Virt : Reach(Tables(s, v).mem, w, 4) = Reach(s.mem, w, 4)
<1> DEFINE s1 == Ensure(s, 1, v)
           s2 == Ensure(s1, 2, v)
           s3 == Ensure(s2, 3, v)
<1>1. Tables(s, v) = s3 BY DEF Tables
<1>2. ~Failed(s3) BY <1>1
<1>3. ~Failed(s2) BY <1>2 DEF Ensure
<1>4. ~Failed(s1) BY <1>3 DEF Ensure
<1>5. Reach(s.mem, v, 0).present BY ReachGrows DEF Recursive, Entry
<1>6. /\ StateOK(s1) /\ Reach(s1.mem, v, 1).present
      /\ \A w \in Virt : Reach(s1.mem, w, 4) = Reach(s.mem, w, 4)
  <2>1. 1 \in 1 .. 3 /\ 1 - 1 = 0 OBVIOUS
  <2> QED BY <1>4, <1>5, <2>1, EnsureOK
<1> HIDE DEF s1
<1>7. /\ StateOK(s2) /\ Reach(s2.mem, v, 2).present
      /\ \A w \in Virt : Reach(s2.mem, w, 4) = Reach(s1.mem, w, 4)
  <2>1. 2 \in 1 .. 3 /\ 2 - 1 = 1 OBVIOUS
  <2> QED BY <1>3, <1>6, <2>1, EnsureOK
<1> HIDE DEF s2
<1>8. /\ StateOK(s3) /\ Reach(s3.mem, v, 3).present
      /\ \A w \in Virt : Reach(s3.mem, w, 4) = Reach(s2.mem, w, 4)
  <2>1. 3 \in 1 .. 3 /\ 3 - 1 = 2 OBVIOUS
  <2> QED BY <1>2, <1>7, <2>1, EnsureOK
<1> QED BY <1>1, <1>6, <1>7, <1>8

\* Writing the last entry of a path whose tables are there.
LEMMA LeafOK ==
  ASSUME NEW s, StateOK(s), NEW v \in Virt, Reach(s.mem, v, 3).present, NEW e \in Entries
  PROVE  LET t == [s EXCEPT !.mem = SetLeaf(@, v, e)] IN
           /\ StateOK(t) /\ t.mem = SetLeaf(s.mem, v, e) /\ Reach(t.mem, v, 4) = e
           /\ \A w \in Virt \ {v} : Reach(t.mem, w, 4) = Reach(s.mem, w, 4)
<1> DEFINE H == Range(s.handed)
           T == TablePage(s.mem, 4, v)
           m2 == SetLeaf(s.mem, v, e)
           t == [s EXCEPT !.mem = m2]
<1>1. s \in State /\ TreeOK(s.mem, H) /\ PagesOK(s) /\ ~Failed(s) BY DEF StateOK, PagesOK
<1>2. s.mem \in Memory /\ H \subseteq Pages BY <1>1, Fields, HandedArePages
<1>3. 4 \in 1 .. 4 /\ 4 - 1 = 3 /\ v[4] \in 0 .. Slots - 1
  <2>1. 4 \in 1 .. 4 OBVIOUS
  <2> QED BY <2>1, Indices
<1>4. T = Reach(s.mem, v, 3).addr /\ T \in Pages BY <1>1, <1>3, EntryIsReach
<1> HIDE DEF T
<1>5. /\ m2 \in Memory /\ m2[T][v[4]] = e
      /\ \A p \in Pages, i \in 0 .. Slots - 1 : p # T \/ i # v[4] => m2[p][i] = s.mem[p][i]
  <2>1. m2 = [s.mem EXCEPT ![T][v[4]] = e] BY DEF SetLeaf, T
  <2> QED BY <1>2, <1>3, <1>4, <2>1, WriteEntry
<1>6. t \in State /\ t.mem = m2 /\ t.gfp = s.gfp /\ t.regions = s.regions /\ t.handed = s.handed
  BY <1>1, <1>5, OtherMemory
<1> HIDE DEF m2, t, H
<1>7. Written(s.mem, m2, H, v, 4)
  <2>1. AlikeBut(s.mem, m2, H, T, v[4]) BY <1>2, <1>5, RootIsPage DEF AlikeBut
  <2> QED BY <1>1, <1>3, <1>4, <2>1 DEF Written
<1>8. /\ \A H2 : H \subseteq H2 /\ H2 \subseteq Pages => TreeOK(m2, H2)
      /\ Reach(m2, v, 4) = m2[Reach(s.mem, v, 3).addr][v[4]]
      /\ \A w \in Virt \ {v} : Reach(m2, w, 4) = Reach(s.mem, w, 4)
  BY <1>7, NewLeaf
<1>9. PagesOK(t) BY <1>1, <1>6, PagesOKFields
<1>10. StateOK(t)
  <2>1. TreeOK(m2, H) BY <1>2, <1>8 DEF H
  <2> QED BY <1>6, <1>9, <2>1 DEF StateOK, H
<1>11. t.mem = m2 /\ Reach(t.mem, v, 4) = e /\ \A w \in Virt \ {v} : Reach(t.mem, w, 4) = Reach(s.mem, w, 4)
  BY <1>4, <1>5, <1>6, <1>8
<1> QED BY <1>10, <1>11 DEF t, m2

\* map_page_to: a page that has no memory yet gets a cleared one, and no other page is touched.
LEMMA LoaderPageOK ==
  ASSUME map \in Maps, phase \in {"boot", "run"}, NEW s, StateOK(s), NEW v \in Virt,
         Reach(s.mem, v, 3).present, ~Failed(LoaderPage(s, v))
  PROVE  /\ StateOK(LoaderPage(s, v))
         /\ \/ \A w \in Virt : Reach(LoaderPage(s, v).mem, w, 4) = Reach(s.mem, w, 4)
            \/ /\ ~Reach(s.mem, v, 4).present
               /\ \E n \in Pages : Reach(LoaderPage(s, v).mem, v, 4) = Entry(n, "Executable")
               /\ \A w \in Virt \ {v} : Reach(LoaderPage(s, v).mem, w, 4) = Reach(s.mem, w, 4)
<1> DEFINE H == Range(s.handed)
           T == TablePage(s.mem, 4, v)
           n == NextPage(s)
           e == Entry(n, "Executable")
           m1 == SetLeaf(s.mem, v, e)
           m2 == Clear(m1, v)
           taken == Taken(s)
           new == [taken EXCEPT !.mem = m2]
<1>1. s \in State /\ TreeOK(s.mem, H) /\ PagesOK(s) /\ ~Failed(s) BY DEF StateOK, PagesOK
<1>2. s.mem \in Memory /\ H \subseteq Pages BY <1>1, Fields, HandedArePages
<1>3. 4 \in 1 .. 4 /\ 4 - 1 = 3 /\ v[4] \in 0 .. Slots - 1
  <2>1. 4 \in 1 .. 4 OBVIOUS
  <2> QED BY <2>1, Indices
<1>4. /\ T = Reach(s.mem, v, 3).addr /\ T \in H \cup {Root} /\ T \in Pages
      /\ TableEntry(s.mem, 4, v) = Reach(s.mem, v, 4)
  BY <1>1, <1>3, EntryIsReach
<1>5. CASE Reach(s.mem, v, 4).present
  <2>1. LoaderPage(s, v) = s BY <1>4, <1>5 DEF LoaderPage
  <2> QED BY <2>1
<1>6. CASE ~Reach(s.mem, v, 4).present
  <2>1. taken \in State /\ taken.mem = s.mem BY <1>1, NextIsNumber, TakenFields
  <2>2. LoaderPage(s, v) = new
    <3>1. LoaderPage(s, v) = [taken EXCEPT !.mem = Clear(SetLeaf(s.mem, v, e), v)]
      BY <1>1, <1>4, <1>6 DEF LoaderPage
    <3> QED BY <3>1
  <2> HIDE DEF m1, m2, taken
  <2>3. /\ new.mem = m2 /\ new.gfp = taken.gfp /\ new.regions = taken.regions /\ new.handed = taken.handed
        /\ m2 \in Memory => new \in State
    BY <2>1, OtherMemory
  <2> HIDE DEF new
  <2>4. ~Failed(Taken(s)) BY <2>2, <2>3, PagesOKFields DEF taken
  <2>5. /\ n \in Pages /\ n # Root /\ n \notin H /\ PagesOK(taken) /\ Range(taken.handed) = H \cup {n}
    BY <1>1, <2>4, TakenOK DEF taken
  <2>6. e \in Entries /\ e.present /\ e.addr = n BY <2>5, EntriesOK DEF Entry, Uses
  <2>7. m1 = [s.mem EXCEPT ![T][v[4]] = e] BY DEF SetLeaf, m1
  <2> HIDE DEF n, e, H, T
  <2>8. /\ m1 \in Memory /\ m1[T][v[4]] = e
        /\ \A p \in Pages, i \in 0 .. Slots - 1 : p # T \/ i # v[4] => m1[p][i] = s.mem[p][i]
    BY <1>2, <1>3, <1>4, <2>6, <2>7, WriteEntry
  <2>9. Walk(m1, v).addr = n
    <3>1. Written(s.mem, m1, H, v, 4)
      <4>1. AlikeBut(s.mem, m1, H, T, v[4]) BY <1>2, <2>8, RootIsPage DEF AlikeBut, H
      <4> QED BY <1>1, <1>3, <1>4, <4>1 DEF Written, H
    <3>2. Reach(m1, v, 4) = m1[Reach(s.mem, v, 3).addr][v[4]] BY <3>1, NewLeaf
    <3> QED BY <1>4, <2>6, <2>8, <3>2, WalkIsReach
  <2>10. /\ m2 \in Memory
         /\ \A p \in Pages, i \in 0 .. Slots - 1 : p # n => m2[p][i] = m1[p][i]
    <3>1. m2 = [m1 EXCEPT ![n] = Cleared] BY <2>9 DEF m2, Clear
    <3>2. n \in Pages /\ m1 \in Memory BY <2>5, <2>8
    <3>3. LET x == [m1 EXCEPT ![n] = Cleared] IN
            /\ \A j \in 0 .. Slots - 1 : x[n][j] = None
            /\ \A q \in Pages, j \in 0 .. Slots - 1 : q # n => x[q][j] = m1[q][j]
            /\ x \in Memory
      BY Zenon, <3>2, ClearPage
    <3> QED BY <3>1, <3>3
  <2>11. T # n BY <1>4, <2>5 DEF H
  <2>12. m2[T][v[4]] = e BY <1>3, <1>4, <2>8, <2>10, <2>11
  <2>13. AlikeBut(s.mem, m2, H, T, v[4])
    <3>1. \A p \in H \cup {Root} : p \in Pages /\ p # n BY <1>2, <2>5, RootIsPage DEF H
    <3> QED BY <2>8, <2>10, <3>1 DEF AlikeBut
  <2>14. /\ TreeOK(m2, H \cup {n}) /\ Reach(m2, v, 4) = e
         /\ \A w \in Virt \ {v} : Reach(m2, w, 4) = Reach(s.mem, w, 4)
    <3>1. Written(s.mem, m2, H, v, 4) BY <1>1, <1>3, <1>4, <2>13 DEF Written, H
    <3>2. H \subseteq H \cup {n} /\ H \cup {n} \subseteq Pages BY <1>2, <2>5 DEF H
    <3>3. /\ TreeOK(m2, H \cup {n}) /\ Reach(m2, v, 4) = m2[Reach(s.mem, v, 3).addr][v[4]]
          /\ \A w \in Virt \ {v} : Reach(m2, w, 4) = Reach(s.mem, w, 4)
      <4>1. /\ \A H2 : H \subseteq H2 /\ H2 \subseteq Pages => TreeOK(m2, H2)
            /\ Reach(m2, v, 4) = m2[Reach(s.mem, v, 3).addr][v[4]]
            /\ \A w \in Virt \ {v} : Reach(m2, w, 4) = Reach(s.mem, w, 4)
        BY <3>1, NewLeaf
      <4>2. TreeOK(m2, H \cup {n}) BY <3>2, <4>1
      <4> QED BY <4>1, <4>2
    <3> QED BY <1>4, <2>12, <3>3
  <2>15. PagesOK(new) BY <2>3, <2>5, PagesOKFields
  <2>16. StateOK(new) BY <2>3, <2>5, <2>10, <2>14, <2>15 DEF StateOK
  <2> QED BY <1>6, <2>2, <2>3, <2>5, <2>14, <2>16 DEF e
<1> QED BY <1>5, <1>6

-----------------------------------------------------------------------------
(***************************************************************************)
(* Steps.                                                                  *)
(***************************************************************************)

\* malloc_add_region keeps to the memory it is given, when there are two pages of it.
LEMMA NewRegion ==
  ASSUME NEW o \in Nat, NEW z \in Nat, o >= EndPtr, o + z <= Wrap, z >= 2 * PageSize,
         NEW r, r = [address |-> RegionStart(o), pagecount |-> RegionCount(o, z)]
  PROVE  r \in Region /\ r.address >= o /\ EndOf(r) <= o + z /\ EndOf(r) \in Nat
<1>1. PageSize \in Nat /\ PageSize > 0 /\ EndPtr \in Nat /\ EndPtr > 0 /\ Wrap \in Nat BY Constants
<1> DEFINE rem == o % PageSize
           q == o \div PageSize
           up == (o + PageSize - 1) \div PageSize
           start == up * PageSize
           room == z - (PageSize - rem)
           count == room \div PageSize
<1>2. rem = o - PageSize * q /\ rem \in 0 .. PageSize - 1 /\ q \in Nat BY DivMod
<1> HIDE DEF rem, q
<1>3. up \in Nat /\ (o + PageSize - 1) - PageSize * up \in 0 .. PageSize - 1
  <2>1. o + PageSize - 1 \in Nat BY <1>1
  <2> QED BY <2>1, DivMod
<1> HIDE DEF up
<1>4. start \in Nat /\ start >= o /\ start <= o + PageSize - 1
  <2>1. PageSize * up = start /\ start \in Nat BY <1>1, <1>3
  <2> HIDE DEF start
  <2> QED BY <1>1, <1>3, <2>1
<1>5. start <= o + (PageSize - rem)
  <2>1. up <= q + 1
    <3>1. SUFFICES ASSUME up >= q + 2 PROVE FALSE BY <1>2, <1>3
    <3>2. (q + 2) * PageSize <= up * PageSize
      <4>1. q + 2 \in Nat /\ q + 2 <= up BY <1>2, <1>3, <3>1
      <4> QED BY <1>3, <4>1, MorePages
    <3>3. (q + 2) * PageSize = PageSize * q + 2 * PageSize BY <1>1, <1>2
    <3>4. PageSize * q \in Nat /\ PageSize * up = up * PageSize BY <1>1, <1>2, <1>3
    <3> DEFINE a == PageSize * q
               b == PageSize * up
    <3>5. a + 2 * PageSize <= b /\ a \in Nat /\ b \in Nat BY <1>1, <1>3, <3>2, <3>3, <3>4
    <3>6. rem = o - a /\ (o + PageSize - 1) - b >= 0 BY <1>2, <1>3
    <3> HIDE DEF a, b
    <3> QED BY <1>1, <1>2, <3>5, <3>6
  <2>2. up * PageSize <= (q + 1) * PageSize BY <1>2, <1>3, <2>1, MorePages
  <2>3. (q + 1) * PageSize = PageSize * q + PageSize BY <1>1, <1>2
  <2> DEFINE a == PageSize * q
  <2>4. start <= a + PageSize /\ rem = o - a /\ a \in Nat BY <1>1, <1>2, <2>2, <2>3
  <2> HIDE DEF a, start
  <2> QED BY <1>1, <1>2, <1>4, <2>4
<1>6. room \in Nat /\ room < Wrap /\ room >= PageSize /\ room <= z BY <1>1, <1>2
<1> HIDE DEF room
<1>7. RegionCount(o, z) = count
  <2>1. room % Wrap = room BY <1>1, <1>6, SmallRemainder
  <2> QED BY <2>1 DEF RegionCount, room, rem
<1>8. count \in Nat /\ room - PageSize * count \in 0 .. PageSize - 1
  <2>1. room % PageSize = room - PageSize * count /\ room % PageSize \in 0 .. PageSize - 1 /\ count \in Nat
    BY <1>6, DivMod
  <2> QED BY <2>1
<1> HIDE DEF count
<1>9. count * PageSize = PageSize * count /\ count * PageSize \in Nat BY <1>1, <1>8
<1> DEFINE bytes == count * PageSize
<1>10. bytes \in Nat /\ bytes <= room /\ bytes > room - PageSize BY <1>1, <1>6, <1>8, <1>9
<1>11. count >= 1
  <2>1. SUFFICES ASSUME count = 0 PROVE FALSE BY <1>8
  <2>2. bytes = 0 BY <1>1, <2>1
  <2> HIDE DEF bytes
  <2> QED BY <1>1, <1>6, <1>10, <2>2
<1>12. count <= bytes
  <2>1. 1 <= PageSize BY <1>1
  <2> QED BY <1>1, <1>8, <2>1
<1> HIDE DEF bytes
<1>13. count <= Wrap BY <1>1, <1>6, <1>8, <1>10, <1>12
<1>14. r.address = start /\ r.pagecount = count
  <2>1. RegionStart(o) = start BY DEF RegionStart, up
  <2> QED BY <1>7, <2>1
<1>15. r \in Region
  <2>1. r = [address |-> start, pagecount |-> count] BY <1>7 DEF RegionStart, up
  <2> HIDE DEF start
  <2>2. count \in 1 .. Wrap BY <1>1, <1>8, <1>11, <1>13
  <2> QED BY <1>4, <2>1, <2>2 DEF Region
<1>16. EndOf(r) = start + bytes BY <1>14 DEF EndOf, bytes
<1> HIDE DEF start
<1>17. start + bytes <= o + z
  <2>1. room = z - (PageSize - rem) BY DEF room
  <2> QED BY <1>1, <1>2, <1>4, <1>5, <1>10, <2>1
<1> QED BY <1>4, <1>10, <1>14, <1>15, <1>16, <1>17

\* An entry of the memory map becomes a region of its own.
LEMMA RegionAdded ==
  ASSUME map \in Maps, at \in Nat \ {0}, at <= Len(map), map[at].type = Usable,
         map[at].offset + map[at].size > EndPtr, Clip(map[at]).size >= 2 * PageSize,
         NEW rs \in Seq(Region), NEW H, RegionsOK(rs, H, at), \A p \in H : p \in Int /\ p < EndPtr
  PROVE  LET new == AddRegion(rs, Clip(map[at]).offset, Clip(map[at]).size) IN
           new \in Seq(Region) /\ RegionsOK(new, H, at + 1)
<1> DEFINE from == map[at].offset
           to == map[at].offset + map[at].size
           o == Clip(map[at]).offset
           z == Clip(map[at]).size
           r == [address |-> RegionStart(o), pagecount |-> RegionCount(o, z)]
           new == <<r>> \o rs
<1>0. AddRegion(rs, o, z) = new BY DEF AddRegion
<1>1. at \in DOMAIN map
  <2>1. map \in Seq([offset : Nat, size : Nat, type : Nat]) BY MapsAssumption
  <2> QED BY <2>1
<1>2. /\ from \in Nat /\ map[at].size \in Nat /\ to \in Nat /\ to <= Wrap
      /\ map[at] \in [offset : Nat, size : Nat, type : Nat]
      /\ EndPtr \in Nat /\ Wrap \in Nat
  BY <1>1, MapEntries, Constants
<1>3. o \in Nat /\ z \in Nat /\ o >= EndPtr /\ o >= from /\ o + z = to
  <2>1. CASE map[at].offset < EndPtr
    <3> DEFINE y == map[at].size - (EndPtr - map[at].offset)
    <3>1. y \in Nat BY <1>2, <2>1
    <3>2. Clip(map[at]) = [map[at] EXCEPT !.size = y, !.offset = EndPtr] BY <2>1 DEF Clip
    <3> HIDE DEF y
    <3>3. z = y /\ o = EndPtr BY <1>2, <3>1, <3>2
    <3>4. EndPtr + y = map[at].offset + map[at].size BY <1>2 DEF y
    <3> HIDE DEF o, z
    <3> QED BY <1>2, <2>1, <3>1, <3>3, <3>4
  <2>2. CASE ~(map[at].offset < EndPtr)
    <3>1. Clip(map[at]) = map[at] BY <2>2 DEF Clip
    <3> QED BY <1>2, <2>2, <3>1
  <2> QED BY <2>1, <2>2
<1> HIDE DEF from, to, o, z
<1>4. r \in Region /\ r.address >= o /\ EndOf(r) <= to /\ EndOf(r) \in Nat /\ r.address \in Nat
  <2>1. z >= 2 * PageSize BY DEF z
  <2>2. r \in Region /\ r.address >= o /\ EndOf(r) <= o + z /\ EndOf(r) \in Nat
    BY <1>2, <1>3, <2>1, NewRegion
  <2> QED BY <1>3, <2>2, RegionEnds
<1> HIDE DEF r
<1>5. /\ new \in Seq(Region) /\ DOMAIN new = 1 .. Len(rs) + 1 /\ Len(rs) \in Nat /\ DOMAIN rs = 1 .. Len(rs)
      /\ new[1] = r /\ \A i \in DOMAIN new : i # 1 => i - 1 \in DOMAIN rs /\ new[i] = rs[i - 1]
  BY <1>4
<1> HIDE DEF new
<1>6. /\ \A i \in DOMAIN rs : rs[i].address >= EndPtr /\ InUsable(rs[i].address, EndOf(rs[i]))
      /\ \A i, j \in DOMAIN rs : i # j => Apart(rs[i].address, EndOf(rs[i]), rs[j].address, EndOf(rs[j]))
      /\ \A i \in DOMAIN rs, p \in H : p < rs[i].address \/ EndOf(rs[i]) <= p
      /\ \A i \in DOMAIN rs, n \in DOMAIN map :
           n >= at /\ map[n].type = Usable =>
             Apart(rs[i].address, EndOf(rs[i]), map[n].offset, map[n].offset + map[n].size)
  BY DEF RegionsOK
<1>7. \A i \in DOMAIN rs : rs[i].address \in Nat /\ EndOf(rs[i]) \in Nat BY RegionEnds
<1>8. r.address >= EndPtr /\ InUsable(r.address, EndOf(r))
  <2>1. r.address >= EndPtr /\ from <= r.address BY <1>2, <1>3, <1>4
  <2> QED BY <1>1, <1>4, <2>1 DEF InUsable, from, to
<1>9. \A i \in DOMAIN rs : Apart(r.address, EndOf(r), rs[i].address, EndOf(rs[i]))
  <2> TAKE i \in DOMAIN rs
  <2>1. at \in DOMAIN map /\ at >= at BY <1>1
  <2>2. Apart(rs[i].address, EndOf(rs[i]), from, to) BY <1>6, <2>1 DEF from, to
  <2>3. rs[i].address \in Nat /\ EndOf(rs[i]) \in Nat BY <1>7
  <2>4. from <= r.address /\ EndOf(r) <= to BY <1>2, <1>3, <1>4
  <2> QED BY <1>2, <1>4, <2>2, <2>3, <2>4 DEF Apart
<1>10. \A p \in H : p < r.address
  <2> TAKE p \in H
  <2>1. p \in Int /\ p < EndPtr OBVIOUS
  <2> QED BY <1>2, <1>4, <1>8, <2>1
<1>11. \A n \in DOMAIN map : n >= at + 1 /\ map[n].type = Usable =>
          Apart(r.address, EndOf(r), map[n].offset, map[n].offset + map[n].size)
  <2> SUFFICES ASSUME NEW n \in DOMAIN map, n >= at + 1, map[n].type = Usable
               PROVE  Apart(r.address, EndOf(r), map[n].offset, map[n].offset + map[n].size)
    OBVIOUS
  <2>1. n \in Nat /\ map[n].offset \in Nat /\ map[n].size \in Nat BY MapEntries
  <2>2. at < n BY <2>1
  <2>3. Apart(from, to, map[n].offset, map[n].offset + map[n].size)
    <3>1. \A i, j \in DOMAIN map : i < j /\ map[i].type = Usable /\ map[j].type = Usable =>
            \/ map[i].offset + map[i].size <= map[j].offset
            \/ map[j].offset + map[j].size <= map[i].offset
      BY Zenon, MapsAssumption
    <3>2. \/ map[at].offset + map[at].size <= map[n].offset
          \/ map[n].offset + map[n].size <= map[at].offset
      BY <1>1, <2>2, <3>1
    <3> QED BY <3>2 DEF Apart, from, to
  <2>4. from <= r.address /\ EndOf(r) <= to BY <1>2, <1>3, <1>4
  <2> DEFINE from2 == map[n].offset
             to2 == map[n].offset + map[n].size
  <2>5. from2 \in Nat /\ to2 \in Nat /\ Apart(from, to, from2, to2) BY <2>1, <2>3
  <2> HIDE DEF from2, to2
  <2>6. from \in Nat /\ to \in Nat /\ r.address \in Nat /\ EndOf(r) \in Nat BY <1>2, <1>4
  <2>7. Apart(r.address, EndOf(r), from2, to2) BY <2>4, <2>5, <2>6 DEF Apart
  <2> QED BY <2>7 DEF from2, to2
<1>12. \A i \in DOMAIN new : new[i].address >= EndPtr /\ InUsable(new[i].address, EndOf(new[i]))
  BY <1>5, <1>6, <1>8
<1>13. \A i, j \in DOMAIN new : i # j => Apart(new[i].address, EndOf(new[i]), new[j].address, EndOf(new[j]))
  <2> SUFFICES ASSUME NEW i \in DOMAIN new, NEW j \in DOMAIN new, i # j
               PROVE  Apart(new[i].address, EndOf(new[i]), new[j].address, EndOf(new[j]))
    OBVIOUS
  <2>1. CASE i = 1
    <3>1. j # 1 /\ j - 1 \in DOMAIN rs /\ new[j] = rs[j - 1] /\ new[i] = r BY <1>5, <2>1
    <3> QED BY <1>9, <3>1
  <2>2. CASE j = 1
    <3>1. i # 1 /\ i - 1 \in DOMAIN rs /\ new[i] = rs[i - 1] /\ new[j] = r BY <1>5, <2>2
    <3>2. Apart(r.address, EndOf(r), new[i].address, EndOf(new[i])) BY <1>9, <3>1
    <3> QED BY <3>1, <3>2 DEF Apart
  <2>3. CASE i # 1 /\ j # 1
    <3>1. i \in Int /\ j \in Int BY <1>5
    <3>2. i - 1 \in DOMAIN rs /\ j - 1 \in DOMAIN rs /\ i - 1 # j - 1 /\ new[i] = rs[i - 1] /\ new[j] = rs[j - 1]
      BY <1>5, <2>3, <3>1
    <3> QED BY <1>6, <3>2
  <2> QED BY <2>1, <2>2, <2>3
<1>14. \A i \in DOMAIN new, p \in H : p < new[i].address \/ EndOf(new[i]) <= p
  BY <1>5, <1>6, <1>10
<1>15. \A i \in DOMAIN new, n \in DOMAIN map :
         n >= at + 1 /\ map[n].type = Usable =>
           Apart(new[i].address, EndOf(new[i]), map[n].offset, map[n].offset + map[n].size)
  <2> SUFFICES ASSUME NEW i \in DOMAIN new, NEW n \in DOMAIN map, n >= at + 1, map[n].type = Usable
               PROVE  Apart(new[i].address, EndOf(new[i]), map[n].offset, map[n].offset + map[n].size)
    OBVIOUS
  <2>1. n \in Nat /\ n >= at BY MapEntries
  <2>2. CASE i = 1 BY <1>5, <1>11, <2>2
  <2>3. CASE i # 1
    <3>1. i - 1 \in DOMAIN rs /\ new[i] = rs[i - 1] BY <1>5, <2>3
    <3> QED BY <1>6, <2>1, <3>1
  <2> QED BY <2>2, <2>3
<1>16. RegionsOK(new, H, at + 1) BY <1>12, <1>13, <1>14, <1>15 DEF RegionsOK
<1> QED BY <1>0, <1>5, <1>16 DEF o, z

\* While the memory map and the phase stay, a state that is right stays so.
LEMMA SameSetup ==
  ASSUME NEW s, StateOK(s), phase' = phase, map' = map, at' = at,
         mem' = s.mem, gfp' = s.gfp, regions' = s.regions, handed' = s.handed
  PROVE  StateOK(Now)'
<1>1. /\ Now'.mem = s.mem /\ Now'.gfp = s.gfp /\ Now'.regions = s.regions /\ Now'.handed = s.handed
  BY DEF Now
<1>2. Now' \in State
  <2>1. s.mem \in Memory /\ s.gfp \in Nat /\ s.regions \in Seq(Region) /\ s.handed \in Seq(Int)
    BY Fields DEF StateOK
  <2> QED BY <2>1 DEF Now, State
<1>3. TreeOK(Now'.mem, Range(Now'.handed)) BY <1>1 DEF StateOK
<1>4. PagesOK(Now)'
  <2>1. PagesOK(s) BY DEF StateOK
  <2>2. ~Failed(Now)' BY <1>1, <2>1 DEF PagesOK, Failed
  <2>3. \A from, to : InUsable(from, to) => InUsable(from, to)' BY DEF InUsable
  <2>4. RegionsOK(s.regions, Range(s.handed), at) BY <2>1 DEF PagesOK
  <2>5. RegionsOK(Now.regions, Range(Now.handed), at)' BY <1>1, <2>3, <2>4 DEF RegionsOK
  <2> QED BY <1>1, <2>1, <2>2, <2>3, <2>5 DEF PagesOK
<1> QED BY <1>2, <1>3, <1>4 DEF StateOK

\* What a page is mapped to is the end of its path.
LEMMA MappingIs ==
  \A w : /\ Mapping(w) = IF Reach(mem, w, 4).present THEN Reach(mem, w, 4) ELSE None
         /\ Mapping(w)' = IF Reach(mem', w, 4).present THEN Reach(mem', w, 4) ELSE None
BY WalkIsReach DEF Mapping

\* The mappings stay, or one call of the address space happens to them.
SpaceKept == UNCHANGED <<[v \in Virt |-> Mapping(v)], answer>>
SpaceStep == Space!Next \/ SpaceKept

LEMMA KeepsSpace ==
  ASSUME \A w \in Virt : Mapping(w)' = Mapping(w), answer' = answer
  PROVE  SpaceStep
BY DEF SpaceStep, SpaceKept

LEMMA MapsOne ==
  ASSUME NEW v \in Virt, NEW a \in Devices \cup Pages, NEW u \in Uses, Mapping(v)' = Entry(a, u),
         \A w \in Virt \ {v} : Mapping(w)' = Mapping(w), answer' = 0
  PROVE  SpaceStep
BY DEF SpaceStep, Space!Next, Space!Map, Space!KeepOthers

LEMMA UnmapsOne ==
  ASSUME NEW v \in Virt, Mapping(v)' = None,
         \A w \in Virt \ {v} : Mapping(w)' = Mapping(w), answer' = Mapping(v).addr
  PROVE  SpaceStep
BY DEF SpaceStep, Space!Next, Space!Unmap, Space!KeepOthers

\* What a page is mapped to is an entry.
LEMMA MappingType ==
  ASSUME NEW v \in Virt, mem \in Memory
  PROVE  Mapping(v) \in Entries /\ (Mapping(v) = None <=> ~Reach(mem, v, 4).present)
<1>1. \A e, i : i \in 0 .. Slots - 1 => Through(mem, e, i) \in Entries
  BY EntriesOK DEF Through, Memory
<1>2. Reach(mem, v, 4) = Through(mem, Reach(mem, v, 4 - 1), v[4])
  <2>1. 4 \in 1 .. 4 OBVIOUS
  <2> QED BY <2>1, ReachGrows
<1>3. v[4] \in 0 .. Slots - 1 BY Indices
<1>4. Reach(mem, v, 4) \in Entries BY <1>1, <1>2, <1>3
<1> QED BY <1>4, EntriesOK, MappingIs

\* The invariant holds at the start, and nothing is mapped.
LEMMA InitOK == Init => IInv /\ Space!Init
<1> SUFFICES ASSUME Init
             PROVE  PhaseOK /\ StateOK(Now) /\ StaleOnlyAfterRemap /\ Space!Init
  BY DEF IInv
<1>1. Garbage \in [0 .. Slots - 1 -> Entries] /\ RootTable \in [0 .. Slots - 1 -> Entries]
      /\ Cleared \in [0 .. Slots - 1 -> Entries]
  <2>1. Entry(Root, "ReadWrite") \in Entries BY EntriesOK, RootIsPage DEF Uses
  <2>2. Garbage \in [0 .. Slots - 1 -> Entries] BY <2>1 DEF Garbage
  <2>3. Cleared \in [0 .. Slots - 1 -> Entries] BY EntriesOK DEF Cleared
  <2>4. RootTable \in [0 .. Slots - 1 -> Entries] BY <2>1, <2>3 DEF RootTable
  <2> QED BY <2>2, <2>3, <2>4
<1>2. /\ RootTable[RecursiveSlot] = Recursive
      /\ \A i \in 0 .. Slots - 1 : i # RecursiveSlot => RootTable[i] = None
  <2>1. \A i \in 0 .. Slots - 1 : Cleared[i] = None BY DEF Cleared
  <2> QED BY <1>1, <2>1, Constants DEF RootTable, Recursive
<1>3. mem \in Memory
  BY <1>1 DEF Init, Memory
<1>4. mem[Root] = RootTable BY RootIsPage DEF Init
<1>5. \A w \in Virt, k \in 1 .. 4 : Reach(mem, w, k) = None
  <2> SUFFICES ASSUME NEW w \in Virt, NEW k \in 1 .. 4
               PROVE  Reach(mem, w, k) = None
    OBVIOUS
  <2>1. Reach(mem, w, 1) = Through(mem, Recursive, w[1])
    <3>1. 1 \in 1 .. 4 /\ 1 - 1 = 0 OBVIOUS
    <3> QED BY <3>1, ReachGrows
  <2>2. Recursive.present /\ Recursive.addr = Root BY DEF Recursive, Entry
  <2>3. w[1] \in 0 .. Slots - 1 /\ w[1] # RecursiveSlot
    <3>1. 1 \in 1 .. 4 OBVIOUS
    <3> QED BY <3>1, Indices
  <2>4. Reach(mem, w, 1) = None BY <1>2, <1>4, <2>1, <2>2, <2>3, RootIsPage DEF Through
  <2>5. ~Reach(mem, w, 1).present BY <2>4, EntriesOK
  <2>6. CASE k = 1 BY <2>4, <2>6
  <2>7. CASE k > 1
    <3>1. 1 \in 0 .. 4 /\ k \in 0 .. 4 /\ 1 < k BY <2>7
    <3> QED BY <2>5, <3>1, NothingBehind
  <2> QED BY <2>6, <2>7
<1>6. handed = <<>> /\ Range(handed) = {}
  BY DEF Init, Range
<1>7. TreeOK(mem, {})
  <2>1. \A w \in Virt, k \in 1 .. 3 : ~Reach(mem, w, k).present BY <1>5, EntriesOK
  <2>2. \A w, x \in Virt, j, k \in 0 .. 3 :
          Reach(mem, w, j).present /\ Reach(mem, x, k).present /\ Reach(mem, w, j).addr = Reach(mem, x, k).addr =>
            j = k /\ SamePath(w, x, k)
    <3> SUFFICES ASSUME NEW w \in Virt, NEW x \in Virt, NEW j \in 0 .. 3, NEW k \in 0 .. 3,
                        Reach(mem, w, j).present, Reach(mem, x, k).present
                 PROVE  j = k /\ SamePath(w, x, k)
      OBVIOUS
    <3>1. j = 0 /\ k = 0 BY <2>1
    <3> QED BY <3>1 DEF SamePath
  <2>3. mem[Root][RecursiveSlot] = Recursive BY <1>2, <1>4
  <2> QED BY <2>1, <2>2, <2>3 DEF TreeOK
<1>8. /\ Now.mem = mem /\ Now.gfp = GfpStart /\ Now.regions = <<>> /\ Now.handed = <<>>
  BY <1>6 DEF Now, Init
<1>9. PagesOK(Now)
  <2>1. DOMAIN Now.handed = {} /\ DOMAIN Now.regions = {} /\ Range(Now.handed) = {} BY <1>6, <1>8
  <2>2. ~Failed(Now) BY <1>8, <2>1, Constants DEF Failed
  <2>3. IsInjective(Now.handed) BY <2>1 DEF IsInjective
  <2>4. RegionsOK(Now.regions, Range(Now.handed), at) BY <2>1 DEF RegionsOK
  <2>5. phase = "boot" /\ GfpStart <= Now.gfp BY <1>8, Constants DEF Init
  <2> QED BY <1>8, <2>1, <2>2, <2>3, <2>4, <2>5 DEF PagesOK
<1>10. Now \in State
  <2>1. mem \in Memory /\ gfp \in Nat /\ regions \in Seq(Region) /\ handed \in Seq(Int)
    BY <1>3, Constants DEF Init
  <2> QED BY <2>1 DEF Now, State
<1>11. StateOK(Now) BY <1>6, <1>7, <1>8, <1>9, <1>10 DEF StateOK
<1>12. PhaseOK BY EntriesOK DEF PhaseOK, Init
<1>13. StaleOnlyAfterRemap BY DEF StaleOnlyAfterRemap, Init
<1>14. Space!Init
  <2>1. \A w \in Virt : Mapping(w) = None
    <3>1. 4 \in 1 .. 4 OBVIOUS
    <3> QED BY <1>5, <3>1, EntriesOK, MappingIs
  <2>2. answer = 0 BY DEF Init
  <2> QED BY <2>1, <2>2 DEF Space!Init
<1> QED BY <1>11, <1>12, <1>13, <1>14

\* The loader maps one page of the kernel image, or finds it mapped.
LEMMA MapPageToStep ==
  ASSUME ~short, IInv, NEW v \in Virt, MapPageTo(v)
  PROVE  PhaseOK' /\ StateOK(Now)' /\ StaleOnlyAfterRemap' /\ SpaceStep
<1>1. PhaseOK /\ StateOK(Now) /\ StaleOnlyAfterRemap BY DEF IInv
<1>2. /\ phase = "boot" /\ phase' = phase /\ map' = map /\ at' = at
      /\ tlb' = tlb /\ answer' = answer /\ short' = short /\ remapped' = remapped
      /\ Follow(LoaderPage(Tables(Now, v), v))
  BY DEF MapPageTo
<1>3. map \in Maps /\ phase \in {"boot", "run"} /\ answer = 0 /\ tlb \in [Virt -> Entries]
  BY <1>1, <1>2 DEF PhaseOK
<1> DEFINE t == Tables(Now, v)
<1>4. PICK s : s = LoaderPage(t, v) OBVIOUS
<1>5. ~Failed(s) /\ mem' = s.mem /\ gfp' = s.gfp /\ regions' = s.regions /\ handed' = s.handed
  BY <1>2, <1>4 DEF Follow
<1>6. ~Failed(t) BY <1>4, <1>5 DEF LoaderPage
<1>7. /\ StateOK(t) /\ Reach(t.mem, v, 3).present
      /\ \A w \in Virt : Reach(t.mem, w, 4) = Reach(mem, w, 4)
  <2>1. Now.mem = mem BY DEF Now
  <2> QED BY <1>1, <1>3, <1>6, <2>1, TablesOK
<1> HIDE DEF t
<1>8. /\ StateOK(s)
      /\ \/ \A w \in Virt : Reach(s.mem, w, 4) = Reach(mem, w, 4)
         \/ /\ ~Reach(mem, v, 4).present
            /\ \E n \in Pages : Reach(s.mem, v, 4) = Entry(n, "Executable")
            /\ \A w \in Virt \ {v} : Reach(s.mem, w, 4) = Reach(mem, w, 4)
  BY <1>3, <1>4, <1>5, <1>7, LoaderPageOK
<1>9. StateOK(Now)' BY <1>2, <1>5, <1>8, SameSetup
<1>10. PhaseOK' BY <1>1, <1>2 DEF PhaseOK
<1>11. CASE \A w \in Virt : Reach(s.mem, w, 4) = Reach(mem, w, 4)
  <2>1. \A w \in Virt : Mapping(w)' = Mapping(w) BY <1>5, <1>11, MappingIs
  <2>2. StaleOnlyAfterRemap' BY <1>1, <1>2, <2>1 DEF StaleOnlyAfterRemap
  <2>3. SpaceStep BY <1>2, <2>1, KeepsSpace
  <2> QED BY <1>9, <1>10, <2>2, <2>3
<1>12. CASE /\ ~Reach(mem, v, 4).present
            /\ \E n \in Pages : Reach(s.mem, v, 4) = Entry(n, "Executable")
            /\ \A w \in Virt \ {v} : Reach(s.mem, w, 4) = Reach(mem, w, 4)
  <2>1. \A w \in Virt \ {v} : Mapping(w)' = Mapping(w) BY <1>5, <1>12, MappingIs
  <2>2. PICK n \in Pages : Reach(s.mem, v, 4) = Entry(n, "Executable") BY <1>12
  <2>3. Entry(n, "Executable").present BY DEF Entry
  <2>4. Mapping(v)' = Entry(n, "Executable") /\ Mapping(v) = None
    BY <1>5, <1>12, <2>2, <2>3, MappingIs
  <2>5. StaleOnlyAfterRemap'
    <3> SUFFICES ASSUME NEW w \in Virt, w \notin remapped, tlb[w] # None
                 PROVE  tlb[w] = Mapping(w)'
      BY <1>2 DEF StaleOnlyAfterRemap
    <3>1. tlb[w] = Mapping(w) BY <1>1 DEF StaleOnlyAfterRemap
    <3>2. w # v BY <2>4, <3>1
    <3> QED BY <2>1, <3>1, <3>2
  <2>6. SpaceStep
    <3>1. "Executable" \in Uses /\ n \in Devices \cup Pages BY DEF Uses
    <3> QED BY <1>2, <1>3, <2>1, <2>4, <3>1, MapsOne
  <2> QED BY <1>9, <1>10, <2>5, <2>6
<1> QED BY <1>8, <1>11, <1>12

\* Steps that leave the tables alone leave the mappings alone.
LEMMA SameTables ==
  ASSUME mem' = mem
  PROVE  \A w : Mapping(w)' = Mapping(w)
BY MappingIs

\* The kernel starts: what the loader took lies below EndPtr.
LEMMA EnterKernelStep ==
  ASSUME ~short, IInv, EnterKernel
  PROVE  PhaseOK' /\ StateOK(Now)' /\ StaleOnlyAfterRemap' /\ SpaceStep
<1>1. PhaseOK /\ StateOK(Now) /\ StaleOnlyAfterRemap BY DEF IInv
<1>2. /\ phase = "boot" /\ phase' = "setup"
      /\ map' = map /\ at' = at /\ gfp' = gfp /\ regions' = regions /\ mem' = mem /\ tlb' = tlb
      /\ answer' = answer /\ handed' = handed /\ short' = short /\ remapped' = remapped
  BY DEF EnterKernel
<1>3. /\ Now.mem = mem /\ Now.gfp = gfp /\ Now.regions = regions /\ Now.handed = handed
      /\ Now'.mem = mem /\ Now'.gfp = gfp /\ Now'.regions = regions /\ Now'.handed = handed /\ Now' = Now
  BY <1>2 DEF Now
<1>4. PagesOK(Now) /\ ~Failed(Now) BY <1>1 DEF StateOK, PagesOK
<1>5. PagesOK(Now)'
  <2>1. ~Failed(Now)' BY <1>3, <1>4 DEF Failed
  <2>2. regions = <<>> /\ \A p \in Range(handed) : GfpStart <= p /\ p < gfp
    BY <1>2, <1>3, <1>4 DEF PagesOK
  <2>3. \A p \in Range(handed) : GfpStart <= p /\ p < EndPtr
    <3>1. gfp \in Nat /\ Range(handed) \subseteq Int BY <1>1, <1>3, Fields DEF StateOK
    <3>2. gfp <= EndPtr BY <1>3, <1>4, <3>1, Constants DEF Failed
    <3> QED BY <2>2, <3>1, <3>2, Constants
  <2>4. DOMAIN regions = {} BY <2>2
  <2>5. RegionsOK(Now.regions, Range(Now.handed), at)' BY <1>3, <2>4 DEF RegionsOK
  <2>6. \A from, to : InUsable(from, to) => InUsable(from, to)' BY <1>2 DEF InUsable
  <2> QED BY <1>2, <1>3, <1>4, <2>1, <2>3, <2>5, <2>6 DEF PagesOK
<1>6. StateOK(Now)' BY <1>1, <1>3, <1>5 DEF StateOK
<1>7. PhaseOK' BY <1>1, <1>2 DEF PhaseOK
<1>8. \A w \in Virt : Mapping(w)' = Mapping(w) BY <1>2, SameTables
<1>9. StaleOnlyAfterRemap' BY <1>1, <1>2, <1>8 DEF StaleOnlyAfterRemap
<1> QED BY <1>2, <1>6, <1>7, <1>8, <1>9, KeepsSpace

\* One entry of the memory map is read.
LEMMA SetupEntryStep ==
  ASSUME ~short, ~short', IInv, SetupEntry
  PROVE  PhaseOK' /\ StateOK(Now)' /\ StaleOnlyAfterRemap' /\ SpaceStep
<1> DEFINE e == Clip(map[at])
           added == map[at].offset + map[at].size > EndPtr /\ e.type = Usable
<1>1. PhaseOK /\ StateOK(Now) /\ StaleOnlyAfterRemap BY DEF IInv
<1>2. /\ phase = "setup" /\ at <= Len(map) /\ at' = at + 1 /\ phase' = phase
      /\ regions' = IF added THEN AddRegion(regions, e.offset, e.size) ELSE regions
      /\ short' = (short \/ (added /\ e.size < 2 * PageSize))
      /\ map' = map /\ gfp' = gfp /\ mem' = mem /\ tlb' = tlb
      /\ answer' = answer /\ handed' = handed /\ remapped' = remapped
  BY DEF SetupEntry
<1>3. /\ Now.mem = mem /\ Now.gfp = gfp /\ Now.regions = regions /\ Now.handed = handed
      /\ Now'.mem = mem /\ Now'.gfp = gfp /\ Now'.regions = regions' /\ Now'.handed = handed
  BY <1>2 DEF Now
<1>4. PagesOK(Now) /\ Now \in State /\ map \in Maps /\ at \in Nat \ {0} BY <1>1 DEF StateOK, PhaseOK
<1>5. /\ mem \in Memory /\ gfp \in Nat /\ regions \in Seq(Region) /\ handed \in Seq(Int)
      /\ Range(handed) \subseteq Int
  BY <1>3, <1>4, Fields
<1>6. RegionsOK(regions, Range(handed), at) /\ \A p \in Range(handed) : GfpStart <= p /\ p < EndPtr
  BY <1>2, <1>3, <1>4 DEF PagesOK
<1>7. regions' \in Seq(Region) /\ RegionsOK(regions', Range(handed), at + 1)
  <2>1. CASE added
    <3>1. e.type = map[at].type
      <4>1. map[at] \in [offset : Nat, size : Nat, type : Nat]
        <5>1. map \in Seq([offset : Nat, size : Nat, type : Nat]) BY <1>4, MapsAssumption
        <5>2. at \in DOMAIN map BY <1>2, <1>4, <5>1
        <5> QED BY <1>4, <5>2, MapEntries
      <4> QED BY <4>1 DEF Clip
    <3>2. e.size >= 2 * PageSize
      <4>1. ~(e.size < 2 * PageSize) BY <1>2, <2>1
      <4>2. e.size \in Int
        <5>1. map \in Seq([offset : Nat, size : Nat, type : Nat]) BY <1>4, MapsAssumption
        <5>2. at \in DOMAIN map BY <1>2, <1>4, <5>1
        <5>3. map[at] \in [offset : Nat, size : Nat, type : Nat] BY <1>4, <5>2, MapEntries
        <5> QED BY <5>3, Constants DEF Clip
      <4> HIDE DEF e
      <4> QED BY <4>1, <4>2, Constants
    <3>3. map[at].type = Usable /\ map[at].offset + map[at].size > EndPtr BY <2>1, <3>1
    <3>4. \A p \in Range(handed) : p \in Int /\ p < EndPtr BY <1>5, <1>6
    <3>5. LET new == AddRegion(regions, Clip(map[at]).offset, Clip(map[at]).size) IN
            new \in Seq(Region) /\ RegionsOK(new, Range(handed), at + 1)
      BY <1>2, <1>4, <1>5, <1>6, <3>2, <3>3, <3>4, RegionAdded
    <3>6. regions' = AddRegion(regions, Clip(map[at]).offset, Clip(map[at]).size) BY <1>2, <2>1
    <3> QED BY <3>5, <3>6
  <2>2. CASE ~added
    <3>1. regions' = regions BY <1>2, <2>2
    <3>2. \A n \in DOMAIN map : n >= at + 1 => n >= at BY <1>4, MapEntries
    <3>3. RegionsOK(regions, Range(handed), at + 1) BY <1>6, <3>2 DEF RegionsOK
    <3> QED BY <1>5, <3>1, <3>3
  <2> QED BY <2>1, <2>2
<1> HIDE DEF e, added
<1>8. PagesOK(Now)'
  <2>1. ~Failed(Now)' BY <1>3, <1>4 DEF Failed, PagesOK
  <2>2. \A from, to : InUsable(from, to) => InUsable(from, to)' BY <1>2 DEF InUsable
  <2>3. RegionsOK(Now.regions, Range(Now.handed), at)'
    BY <1>2, <1>3, <1>7, <2>2 DEF RegionsOK
  <2> QED BY <1>2, <1>3, <1>4, <1>6, <2>1, <2>2, <2>3 DEF PagesOK
<1>9. StateOK(Now)'
  <2>1. Now' \in State BY <1>2, <1>5, <1>7 DEF Now, State
  <2> QED BY <1>1, <1>3, <1>8, <2>1 DEF StateOK
<1>10. PhaseOK' BY <1>1, <1>2 DEF PhaseOK
<1>11. \A w \in Virt : Mapping(w)' = Mapping(w) BY <1>2, SameTables
<1>12. StaleOnlyAfterRemap' BY <1>1, <1>2, <1>11 DEF StaleOnlyAfterRemap
<1> QED BY <1>2, <1>9, <1>10, <1>11, <1>12, KeepsSpace

\* The memory map has been read.
LEMMA SetupDoneStep ==
  ASSUME ~short, IInv, SetupDone
  PROVE  PhaseOK' /\ StateOK(Now)' /\ StaleOnlyAfterRemap' /\ SpaceStep
<1>1. PhaseOK /\ StateOK(Now) /\ StaleOnlyAfterRemap BY DEF IInv
<1>2. /\ phase = "setup" /\ at > Len(map) /\ phase' = "run"
      /\ map' = map /\ at' = at /\ gfp' = gfp /\ regions' = regions /\ mem' = mem /\ tlb' = tlb
      /\ answer' = answer /\ handed' = handed /\ short' = short /\ remapped' = remapped
  BY DEF SetupDone
<1>3. Now' = Now BY <1>2 DEF Now
<1>4. PagesOK(Now)'
  <2>1. PagesOK(Now) BY <1>1 DEF StateOK
  <2>2. ~Failed(Now)' BY <1>3, <2>1 DEF Failed, PagesOK
  <2>3. \A from, to : InUsable(from, to) => InUsable(from, to)' BY <1>2 DEF InUsable
  <2>4. RegionsOK(Now.regions, Range(Now.handed), at)'
    BY <1>2, <1>3, <2>1, <2>3 DEF RegionsOK, PagesOK
  <2> QED BY <1>2, <1>3, <2>1, <2>2, <2>3, <2>4 DEF PagesOK
<1>5. StateOK(Now)' BY <1>1, <1>3, <1>4 DEF StateOK
<1>6. PhaseOK' BY <1>1, <1>2 DEF PhaseOK
<1>7. \A w \in Virt : Mapping(w)' = Mapping(w) BY <1>2, SameTables
<1>8. StaleOnlyAfterRemap' BY <1>1, <1>2, <1>7 DEF StaleOnlyAfterRemap
<1> QED BY <1>2, <1>5, <1>6, <1>7, <1>8, KeepsSpace

\* A device is mapped at v, over what v was mapped to.
LEMMA PlatformMapStep ==
  ASSUME ~short, IInv, NEW v \in Virt, NEW d \in Devices, NEW u \in Uses, PlatformMap(v, d, u)
  PROVE  PhaseOK' /\ StateOK(Now)' /\ StaleOnlyAfterRemap' /\ SpaceStep
<1>1. PhaseOK /\ StateOK(Now) /\ StaleOnlyAfterRemap BY DEF IInv
<1> DEFINE e == Entry(d, u)
           t == Tables(Now, v)
<1>2. /\ phase = "run" /\ phase' = phase /\ map' = map /\ at' = at /\ tlb' = tlb /\ answer' = 0
      /\ short' = short /\ ~Failed(t) /\ Follow([t EXCEPT !.mem = SetLeaf(@, v, e)])
      /\ remapped' = IF Mapping(v) = None THEN remapped ELSE remapped \cup {v}
  BY DEF PlatformMap
<1>3. map \in Maps /\ phase \in {"boot", "run"} /\ tlb \in [Virt -> Entries]
  BY <1>1, <1>2 DEF PhaseOK
<1>4. /\ StateOK(t) /\ Reach(t.mem, v, 3).present
      /\ \A w \in Virt : Reach(t.mem, w, 4) = Reach(mem, w, 4)
  <2>1. Now.mem = mem BY DEF Now
  <2> QED BY <1>1, <1>2, <1>3, <2>1, TablesOK
<1>5. e \in Entries /\ e.present BY EntriesOK
<1> HIDE DEF t, e
<1>6. PICK s : s = [t EXCEPT !.mem = SetLeaf(@, v, e)] OBVIOUS
<1>7. /\ StateOK(s) /\ Reach(s.mem, v, 4) = e
      /\ \A w \in Virt \ {v} : Reach(s.mem, w, 4) = Reach(mem, w, 4)
  BY <1>4, <1>5, <1>6, LeafOK
<1>8. mem' = s.mem /\ gfp' = s.gfp /\ regions' = s.regions /\ handed' = s.handed
  BY <1>2, <1>6 DEF Follow
<1>9. StateOK(Now)' BY <1>2, <1>7, <1>8, SameSetup
<1>10. PhaseOK' BY <1>1, <1>2 DEF PhaseOK
<1>11. Mapping(v)' = e /\ \A w \in Virt \ {v} : Mapping(w)' = Mapping(w)
  BY <1>5, <1>7, <1>8, MappingIs
<1>12. StaleOnlyAfterRemap'
  <2> SUFFICES ASSUME NEW w \in Virt, w \notin remapped', tlb[w] # None
               PROVE  tlb[w] = Mapping(w)'
    BY <1>2 DEF StaleOnlyAfterRemap
  <2>1. w \notin remapped BY <1>2
  <2>2. tlb[w] = Mapping(w) BY <1>1, <2>1 DEF StaleOnlyAfterRemap
  <2>3. w # v BY <1>2, <2>2
  <2> QED BY <1>11, <2>2, <2>3
<1>13. SpaceStep BY <1>2, <1>11, MapsOne DEF e
<1> QED BY <1>9, <1>10, <1>12, <1>13

\* What v is mapped to is taken away, and the processor forgets it.
LEMMA PlatformUnmapStep ==
  ASSUME ~short, IInv, NEW v \in Virt, PlatformUnmap(v)
  PROVE  PhaseOK' /\ StateOK(Now)' /\ StaleOnlyAfterRemap' /\ SpaceStep
<1>1. PhaseOK /\ StateOK(Now) /\ StaleOnlyAfterRemap BY DEF IInv
<1>2. /\ phase = "run" /\ phase' = phase /\ map' = map /\ at' = at /\ gfp' = gfp /\ regions' = regions
      /\ handed' = handed /\ short' = short /\ answer' = Mapping(v).addr
      /\ IF Mapping(v) = None THEN mem' = mem /\ tlb' = tlb /\ remapped' = remapped
         ELSE /\ mem' = [mem EXCEPT ![TablePage(mem, 4, v)][v[4]].present = FALSE]
              /\ tlb' = [tlb EXCEPT ![v] = None] /\ remapped' = remapped \ {v}
  BY DEF PlatformUnmap, setup
<1>3. Now.mem = mem /\ Now.gfp = gfp /\ Now.regions = regions /\ Now.handed = handed BY DEF Now
<1>4. tlb \in [Virt -> Entries] /\ Now \in State /\ mem \in Memory
  BY <1>1, <1>3, Fields DEF PhaseOK, StateOK
<1>5. CASE Mapping(v) = None
  <2>1. \A w \in Virt : Mapping(w)' = Mapping(w) BY <1>2, <1>5, SameTables
  <2>2. StateOK(Now)' BY <1>1, <1>2, <1>3, <1>5, SameSetup
  <2>3. PhaseOK' BY <1>1, <1>2, <1>5 DEF PhaseOK
  <2>4. StaleOnlyAfterRemap' BY <1>1, <1>2, <1>5, <2>1 DEF StaleOnlyAfterRemap
  <2>5. SpaceStep BY <1>2, <1>5, <2>1, UnmapsOne
  <2> QED BY <2>2, <2>3, <2>4, <2>5
<1>6. CASE Mapping(v) # None
  <2>1. Reach(mem, v, 4).present BY <1>4, <1>6, MappingType
  <2>2. Reach(mem, v, 3).present
    <3>1. ~None.present BY EntriesOK
    <3>2. 3 \in 0 .. 4 /\ 4 \in 0 .. 4 /\ 3 < 4 OBVIOUS
    <3> QED BY <2>1, <3>1, <3>2, NothingBehind
  <2> DEFINE e == [Reach(mem, v, 4) EXCEPT !.present = FALSE]
  <2>3. e \in Entries /\ ~e.present
    <3>1. Mapping(v) = Reach(mem, v, 4) BY <2>1, MappingIs
    <3>2. Reach(mem, v, 4) \in Entries BY <1>4, <3>1, MappingType
    <3> QED BY <3>2, EntriesOK
  <2>4. TableEntry(mem, 4, v) = Reach(mem, v, 4)
    <3>1. 4 \in 1 .. 4 /\ 4 - 1 = 3 OBVIOUS
    <3>2. TreeOK(mem, Range(handed)) BY <1>1, <1>3 DEF StateOK
    <3> QED BY <2>2, <3>1, <3>2, EntryIsReach
  <2>5. mem' = SetLeaf(mem, v, e)
    <3>1. mem' = [mem EXCEPT ![TablePage(mem, 4, v)][v[4]].present = FALSE] BY <1>2, <1>6
    <3>2. [mem EXCEPT ![TablePage(mem, 4, v)][v[4]].present = FALSE]
            = [mem EXCEPT ![TablePage(mem, 4, v)][v[4]] =
                 [mem[TablePage(mem, 4, v)][v[4]] EXCEPT !.present = FALSE]]
      OBVIOUS
    <3> QED BY <2>4, <3>1, <3>2 DEF SetLeaf, TableEntry
  <2> HIDE DEF e
  <2>6. PICK s : s = [Now EXCEPT !.mem = SetLeaf(@, v, e)] OBVIOUS
  <2>7. /\ StateOK(s) /\ s.mem = SetLeaf(mem, v, e) /\ Reach(s.mem, v, 4) = e
        /\ \A w \in Virt \ {v} : Reach(s.mem, w, 4) = Reach(mem, w, 4)
    BY <1>1, <1>3, <2>2, <2>3, <2>6, LeafOK
  <2>8. s.gfp = gfp /\ s.regions = regions /\ s.handed = handed BY <2>6 DEF Now
  <2>9. StateOK(Now)' BY <1>2, <2>5, <2>7, <2>8, SameSetup
  <2>10. PhaseOK'
    <3>1. tlb' \in [Virt -> Entries] BY <1>2, <1>4, <1>6, EntriesOK
    <3> QED BY <1>1, <1>2, <3>1 DEF PhaseOK
  <2>11. Mapping(v)' = None /\ \A w \in Virt \ {v} : Mapping(w)' = Mapping(w)
    BY <2>3, <2>5, <2>7, MappingIs
  <2>12. StaleOnlyAfterRemap'
    <3> SUFFICES ASSUME NEW w \in Virt, w \notin remapped', tlb'[w] # None
                 PROVE  tlb'[w] = Mapping(w)'
      BY DEF StaleOnlyAfterRemap
    <3>1. w # v /\ tlb'[w] = tlb[w] /\ w \notin remapped BY <1>2, <1>4, <1>6
    <3> QED BY <1>1, <2>11, <3>1 DEF StaleOnlyAfterRemap
  <2>13. SpaceStep BY <1>2, <2>11, UnmapsOne
  <2> QED BY <2>9, <2>10, <2>12, <2>13
<1> QED BY <1>5, <1>6

\* The processor keeps a translation.
LEMMA TouchStep ==
  ASSUME ~short, IInv, NEW v \in Virt, Touch(v)
  PROVE  PhaseOK' /\ StateOK(Now)' /\ StaleOnlyAfterRemap' /\ SpaceStep
<1>1. PhaseOK /\ StateOK(Now) /\ StaleOnlyAfterRemap BY DEF IInv
<1>2. /\ phase' = phase /\ map' = map /\ at' = at /\ gfp' = gfp /\ regions' = regions /\ mem' = mem
      /\ handed' = handed /\ short' = short /\ answer' = answer /\ remapped' = remapped
      /\ tlb' = [tlb EXCEPT ![v] = Mapping(v)]
  BY DEF Touch, setup
<1>3. Now.mem = mem /\ Now.gfp = gfp /\ Now.regions = regions /\ Now.handed = handed BY DEF Now
<1>4. tlb \in [Virt -> Entries] /\ mem \in Memory
  BY <1>1, <1>3, Fields DEF PhaseOK, StateOK
<1>5. StateOK(Now)' BY <1>1, <1>2, <1>3, SameSetup
<1>6. PhaseOK'
  <2>1. tlb' \in [Virt -> Entries] BY <1>2, <1>4, MappingType
  <2> QED BY <1>1, <1>2, <2>1 DEF PhaseOK
<1>7. \A w \in Virt : Mapping(w)' = Mapping(w) BY <1>2, SameTables
<1>8. StaleOnlyAfterRemap'
  <2>1. \A w \in Virt : tlb'[w] = tlb[w] \/ tlb'[w] = Mapping(w) BY <1>2, <1>4
  <2> QED BY <1>1, <1>2, <1>7, <2>1 DEF StaleOnlyAfterRemap
<1> QED BY <1>2, <1>5, <1>6, <1>7, <1>8, KeepsSpace

\* Nothing happens.
LEMMA NoStep ==
  ASSUME ~short, IInv, UNCHANGED vars
  PROVE  PhaseOK' /\ StateOK(Now)' /\ StaleOnlyAfterRemap' /\ SpaceStep
<1>1. PhaseOK /\ StateOK(Now) /\ StaleOnlyAfterRemap BY DEF IInv
<1>2. /\ phase' = phase /\ map' = map /\ at' = at /\ gfp' = gfp /\ regions' = regions /\ mem' = mem
      /\ tlb' = tlb /\ answer' = answer /\ handed' = handed /\ short' = short /\ remapped' = remapped
  BY DEF vars
<1>3. Now.mem = mem /\ Now.gfp = gfp /\ Now.regions = regions /\ Now.handed = handed BY DEF Now
<1>4. StateOK(Now)' BY <1>1, <1>2, <1>3, SameSetup
<1>5. PhaseOK' BY <1>1, <1>2 DEF PhaseOK
<1>6. \A w \in Virt : Mapping(w)' = Mapping(w) BY <1>2, SameTables
<1>7. StaleOnlyAfterRemap' BY <1>1, <1>2, <1>6 DEF StaleOnlyAfterRemap
<1> QED BY <1>2, <1>4, <1>5, <1>6, <1>7, KeepsSpace

\* Every step keeps the invariant and is a call of the address space, or registers a
\* region of less than two pages.
LEMMA PagingStep ==
  ASSUME IInv, [Next]_vars
  PROVE  IInv' /\ (short' \/ SpaceStep)
<1> SUFFICES ASSUME ~short'
             PROVE  PhaseOK' /\ StateOK(Now)' /\ StaleOnlyAfterRemap' /\ SpaceStep
  BY DEF IInv
<1>1. ASSUME NEW v \in Virt, MapPageTo(v)
      PROVE  PhaseOK' /\ StateOK(Now)' /\ StaleOnlyAfterRemap' /\ SpaceStep
  <2>1. ~short BY <1>1 DEF MapPageTo
  <2> QED BY <1>1, <2>1, MapPageToStep
<1>2. CASE EnterKernel
  <2>1. ~short BY <1>2 DEF EnterKernel
  <2> QED BY <1>2, <2>1, EnterKernelStep
<1>3. CASE SetupEntry
  <2>1. ~short BY <1>3 DEF SetupEntry
  <2> QED BY <1>3, <2>1, SetupEntryStep
<1>4. CASE SetupDone
  <2>1. ~short BY <1>4 DEF SetupDone
  <2> QED BY <1>4, <2>1, SetupDoneStep
<1>5. ASSUME NEW v \in Virt, NEW d \in Devices, NEW u \in Uses, PlatformMap(v, d, u)
      PROVE  PhaseOK' /\ StateOK(Now)' /\ StaleOnlyAfterRemap' /\ SpaceStep
  <2>1. ~short BY <1>5 DEF PlatformMap
  <2> QED BY <1>5, <2>1, PlatformMapStep
<1>6. ASSUME NEW v \in Virt, PlatformUnmap(v)
      PROVE  PhaseOK' /\ StateOK(Now)' /\ StaleOnlyAfterRemap' /\ SpaceStep
  <2>1. ~short BY <1>6 DEF PlatformUnmap
  <2> QED BY <1>6, <2>1, PlatformUnmapStep
<1>7. ASSUME NEW v \in Virt, Touch(v)
      PROVE  PhaseOK' /\ StateOK(Now)' /\ StaleOnlyAfterRemap' /\ SpaceStep
  <2>1. ~short BY <1>7 DEF Touch
  <2> QED BY <1>7, <2>1, TouchStep
<1>8. CASE UNCHANGED vars
  <2>1. ~short BY <1>8 DEF vars
  <2> QED BY <1>8, <2>1, NoStep
<1> QED BY <1>1, <1>2, <1>3, <1>4, <1>5, <1>6, <1>7, <1>8 DEF Next

-----------------------------------------------------------------------------
(***************************************************************************)
(* The theorems.                                                           *)
(***************************************************************************)

\* Unless a region of less than two pages was added: the tables form a tree of pages
\* handed out, one path to each, the regions lie in usable memory apart from each other and
\* from every page handed out, and the processor's translations are those of the tables
\* (map.cpp:26-138, mem.cpp:28-49, platform.cpp:167-181, boot/loader/src/mem.cpp).
THEOREM PagingInvariant == Spec => []IInv
<1>1. Init => IInv BY InitOK
<1>2. IInv /\ [Next]_vars => IInv' BY PagingStep
<1> QED BY <1>1, <1>2, PTL DEF Spec

\* No page is handed out twice or while it is in the list, and what is handed out by the
\* kernel lies whole in usable memory above EndPtr.
LEMMA RightPages == IInv => PagesRight
<1> SUFFICES ASSUME IInv, ~short
             PROVE  /\ IsInjective(handed)
                    /\ phase = "run" => Range(handed) \cap FreePages = {} /\ Root \notin FreePages
                    /\ \A p \in FreePages : p >= EndPtr
                    /\ \A p \in FreePages \cup {q \in Range(handed) : q >= EndPtr} :
                         \E i \in DOMAIN map :
                           /\ map[i].type = Usable
                           /\ map[i].offset <= p /\ p + PageSize <= map[i].offset + map[i].size
  BY DEF PagesRight, PagesOnce, PagesUsable
<1>1. /\ Now.mem = mem /\ Now.gfp = gfp /\ Now.regions = regions /\ Now.handed = handed
  BY DEF Now
<1>2. PagesOK(Now) /\ Now \in State /\ map \in Maps BY DEF IInv, StateOK, PhaseOK
<1>3. regions \in Seq(Region) /\ handed \in Seq(Int) /\ Range(handed) \subseteq Int
  BY <1>1, <1>2, Fields
<1>4. /\ IsInjective(handed) /\ RegionsOK(regions, Range(handed), at)
      /\ \A p \in Range(handed) : p # Root /\ (p >= EndPtr => InUsable(p, p + PageSize))
  BY <1>1, <1>2 DEF PagesOK
<1>5. /\ \A i \in DOMAIN regions : regions[i].address >= EndPtr
                                /\ InUsable(regions[i].address, EndOf(regions[i]))
      /\ \A i \in DOMAIN regions, p \in Range(handed) :
           p < regions[i].address \/ EndOf(regions[i]) <= p
  BY <1>4 DEF RegionsOK
<1>6. ASSUME NEW p \in FreePages
      PROVE  \E i \in DOMAIN regions :
               /\ p \in Int /\ regions[i].address \in Nat /\ EndOf(regions[i]) \in Nat
               /\ regions[i].address <= p /\ p + PageSize <= EndOf(regions[i])
  <2>1. PICK i \in DOMAIN regions : \E n \in 0 .. regions[i].pagecount - 1 :
               p = regions[i].address + n * PageSize
    BY <1>6 DEF FreePages
  <2>2. PICK n \in 0 .. regions[i].pagecount - 1 : p = regions[i].address + n * PageSize BY <2>1
  <2> DEFINE c == regions[i].pagecount
             a == regions[i].address
             before == n * PageSize
             after == (n + 1) * PageSize
             all == c * PageSize
  <2>3. regions[i] \in Region BY <1>3
  <2>4. a \in Nat /\ c \in Nat BY <2>3 DEF Region
  <2> HIDE DEF a, c
  <2>5. n \in Nat /\ n + 1 \in Nat /\ n + 1 <= c BY <2>4 DEF c
  <2>6. before \in Nat /\ all \in Nat /\ PageSize \in Nat BY <2>4, <2>5, Constants
  <2>7. after = before + PageSize BY <2>5, OnePageMore
  <2>8. after <= all BY <2>4, <2>5, MorePages
  <2>9. EndOf(regions[i]) = a + all /\ p = a + before BY <2>2 DEF EndOf, a, c
  <2> HIDE DEF before, after, all
  <2>10. /\ p \in Int /\ EndOf(regions[i]) \in Nat /\ a <= p /\ p + PageSize <= EndOf(regions[i])
    BY <2>4, <2>6, <2>7, <2>8, <2>9
  <2> QED BY <2>4, <2>10 DEF a
<1>7. ASSUME NEW p \in FreePages
      PROVE  p >= EndPtr /\ p # Root /\ p \notin Range(handed) /\ InUsable(p, p + PageSize)
  <2>1. PICK i \in DOMAIN regions :
               /\ p \in Int /\ regions[i].address \in Nat /\ EndOf(regions[i]) \in Nat
               /\ regions[i].address <= p /\ p + PageSize <= EndOf(regions[i])
    BY <1>6
  <2>2. regions[i].address >= EndPtr /\ InUsable(regions[i].address, EndOf(regions[i])) BY <1>5
  <2>3. p >= EndPtr /\ p # Root BY <2>1, <2>2, Constants
  <2>4. p \notin Range(handed)
    <3>1. SUFFICES ASSUME p \in Range(handed) PROVE FALSE OBVIOUS
    <3>2. p < regions[i].address \/ EndOf(regions[i]) <= p BY <1>5, <3>1
    <3> QED BY <2>1, <3>2, Constants
  <2>5. p \in Nat /\ p + PageSize \in Nat BY <2>1, Constants
  <2>6. InUsable(p, p + PageSize) BY <1>2, <2>1, <2>2, <2>5, PartUsable
  <2> QED BY <2>3, <2>4, <2>6
<1>8. \A p \in FreePages \cup {q \in Range(handed) : q >= EndPtr} : InUsable(p, p + PageSize)
  BY <1>4, <1>7
<1> QED BY <1>4, <1>7, <1>8 DEF InUsable

\* No physical page has two owners, and every page the kernel hands out is memory: unless
\* malloc_add_region was given less than two pages (boot/loader/src/mem.cpp:28-33,
\* mem.cpp:28-49, platform.cpp:167-181).
THEOREM PagesStayRight == Spec => []PagesRight
<1>1. IInv => PagesRight BY RightPages
<1> QED BY <1>1, PagingInvariant, PTL

\* The processor's translation of a page is the one in the tables, unless platform_map put
\* another over it (map.cpp:72-98, 136).
THEOREM StaleOnlyThen == Spec => []StaleOnlyAfterRemap
<1>1. IInv => StaleOnlyAfterRemap BY DEF IInv, StaleOnlyAfterRemap
<1> QED BY <1>1, PagingInvariant, PTL

\* The tables, through their window and with whatever was in the pages they are put in,
\* implement one function from virtual pages to mappings (map.cpp:26-138).
THEOREM TablesImplementSpace == Spec => ImplementsAddressSpace
<1>1. Init => Space!Init BY InitOK
<1>2. IInv /\ [Next]_vars => [short' \/ Space!Next]_<<[v \in Virt |-> Mapping(v)], answer>>
  BY PagingStep DEF SpaceStep, SpaceKept
<1> QED BY <1>1, <1>2, PagingInvariant, PTL DEF Spec, ImplementsAddressSpace
=============================================================================
