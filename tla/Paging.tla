------------------------------- MODULE Paging -------------------------------
(***************************************************************************)
(* Physical pages and page tables on x86-64.                               *)
(*                                                                         *)
(* The boot loader maps the kernel page by page with pages it takes one    *)
(* after the other from 1 MB up (boot/loader/src/mem.cpp).  The kernel     *)
(* then registers the usable memory above EndPtr as free regions           *)
(* (platform_setup, malloc_add_region) and maps devices with page tables   *)
(* taken from those regions (platform_map, get_free_page).                 *)
(*                                                                         *)
(* Page tables are reached through themselves: the last slot of the root   *)
(* points to the root, so a table is a page at a virtual address made of   *)
(* that slot and the indices that lead to the table.  Memory holds what    *)
(* was left in it until it is cleared, and the processor may keep a        *)
(* translation it has used.                                                *)
(*                                                                         *)
(* Addresses are bytes; a page has PageSize of them.                       *)
(***************************************************************************)
EXTENDS Integers, Sequences, SequencesExt

CONSTANTS
  PageSize,   \* 4096 in the code
  Slots,      \* entries of a table: 512 in the code
  Root,       \* the page of the top-level table
  GfpStart,   \* first page the boot loader hands out: 0x100000
  Wrap,       \* bytes a size_t counts: 2^64
  EndPtr,     \* the kernel takes no memory below: 0x2400000
  MemTop,     \* end of memory
  Maps,       \* the memory maps the firmware may give: sequences of
              \* [offset, size, type]
  Virt,       \* the virtual pages that get mapped: 4 indices each
  Image,      \* those of them the kernel image occupies
  Devices,    \* physical pages of devices
  MaxCalls    \* bound: calls of platform_map and platform_unmap

RecursiveSlot == Slots - 1
Usable == 1

ASSUME PagingAssumption ==
  /\ PageSize \in Nat \ {0} /\ Slots \in Nat \ {0, 1}
  /\ {Root, GfpStart, EndPtr, MemTop} \subseteq {n * PageSize : n \in 0 .. MemTop}
  /\ Root < GfpStart /\ GfpStart <= EndPtr /\ EndPtr <= MemTop
  /\ \A v \in Virt : v \in [1 .. 4 -> 0 .. Slots - 1] /\ v[1] # RecursiveSlot
  /\ Image \subseteq Virt /\ Devices \cap (0 .. MemTop - 1) = {}
  /\ Wrap \in Nat /\ Wrap > MemTop
  /\ MaxCalls \in Nat

\* What platform_setup relies on the firmware for: entries do not reach past the last
\* address, and no memory is in two usable ones.
ASSUME MapsAssumption == \A entries \in Maps :
  /\ entries \in Seq([offset : Nat, size : Nat, type : Nat])
  /\ \A i \in DOMAIN entries : entries[i].offset + entries[i].size <= Wrap
  /\ \A i, j \in DOMAIN entries : i < j /\ entries[i].type = Usable /\ entries[j].type = Usable =>
       \/ entries[i].offset + entries[i].size <= entries[j].offset
       \/ entries[j].offset + entries[j].size <= entries[i].offset

Pages == {a \in 0 .. MemTop - 1 : a % PageSize = 0}
None == [present |-> FALSE, addr |-> 0, use |-> "none"]
Uses == {"ReadWrite", "ReadOnly", "Executable"}
Entry(a, u) == [present |-> TRUE, addr |-> a, use |-> u]

VARIABLES
  phase,     \* "boot", "setup", "run"
  map,       \* the memory map, and how far platform_setup has read it
  at,
  gfp,       \* gfp_cur of the boot loader
  regions,   \* the list from `head`: [address, pagecount]
  mem,       \* what each page of memory holds, read as a table
  tlb,       \* the translations the processor keeps
  answer,    \* what the last platform_unmap returned
  calls,     \* number of calls so far
  handed,    \* history: the pages handed out, by the loader and by the kernel
  short,     \* history: a region of less than two pages was added
  remapped   \* history: pages mapped anew over a mapping, not yet unmapped

vars == <<phase, map, at, gfp, regions, mem, tlb, answer, calls, handed, short, remapped>>
setup == <<phase, map, at, gfp>>

\* What is found in memory nobody has cleared: tables full of present entries.
Garbage == [i \in 0 .. Slots - 1 |-> Entry(Root, "ReadWrite")]
Cleared == [i \in 0 .. Slots - 1 |-> None]
RootTable == [Cleared EXCEPT ![RecursiveSlot] = Entry(Root, "ReadWrite")]

Init ==
  /\ phase = "boot" /\ map \in Maps /\ at = 1
  /\ gfp = GfpStart /\ regions = <<>>
  /\ mem = [a \in Pages |-> IF a = Root THEN RootTable ELSE Garbage]
  /\ tlb = [v \in Virt |-> None] /\ answer = 0
  /\ calls = 0 /\ handed = <<>> /\ short = FALSE /\ remapped = {}

-----------------------------------------------------------------------------
\* The processor walks from the root; the last entry of the path, or None.
Walk(m, v) ==
  LET follow(e, i) == IF e.present /\ e.addr \in Pages THEN m[e.addr][i] ELSE None IN
    follow(follow(follow(m[Root][v[1]], v[2]), v[3]), v[4])

\* The virtual page at which the table of level k on v's path appears, k = 1 the
\* root: the constants 0xFFFFFFFFFFFFF000 ... 0xFFFFFF8000000000 of map.cpp.
Window(k, v) == [i \in 1 .. 4 |-> IF i <= 5 - k THEN RecursiveSlot ELSE v[i - (5 - k)]]

TablePage(m, k, v) == Walk(m, Window(k, v)).addr
TableEntry(m, k, v) == m[TablePage(m, k, v)][v[k]]

-----------------------------------------------------------------------------
\* malloc_add_region: a page less than fits when start is on a page boundary,
\* and in unsigned arithmetic.
RegionStart(start) == ((start + PageSize - 1) \div PageSize) * PageSize
RegionCount(start, length) ==
  ((length - (PageSize - (start % PageSize))) % Wrap) \div PageSize
AddRegion(rs, start, length) ==
  <<[address |-> RegionStart(start), pagecount |-> RegionCount(start, length)]>> \o rs

\* get_free_page takes the first page of the first region; without a region it
\* reads through NULL, which stands for a page that is not there.
FirstPage(rs) == IF rs = <<>> THEN MemTop ELSE rs[1].address
Rest(rs) ==
  IF rs = <<>> THEN rs
  ELSE IF rs[1].pagecount = 1 THEN Tail(rs)
  ELSE [rs EXCEPT ![1].address = @ + PageSize, ![1].pagecount = (@ - 1) % Wrap]

\* Memory while a call is under way, and the two allocators.
Now == [mem |-> mem, gfp |-> gfp, regions |-> regions, handed |-> handed]
NextPage(s) == IF phase = "boot" THEN s.gfp ELSE FirstPage(s.regions)
Taken(s) ==
  LET t == [s EXCEPT !.handed = Append(@, NextPage(s))] IN
    IF phase = "boot" THEN [t EXCEPT !.gfp = @ + PageSize] ELSE [t EXCEPT !.regions = Rest(@)]

\* Bounds: calls that find no page, or one beyond memory, are not followed; the
\* kernel image and its tables fit below EndPtr.
Failed(s) == s.gfp > EndPtr \/ \E i \in DOMAIN s.handed : s.handed[i] \notin Pages
Follow(s) ==
  /\ ~Failed(s)
  /\ mem' = s.mem /\ gfp' = s.gfp /\ regions' = s.regions /\ handed' = s.handed

-----------------------------------------------------------------------------
\* memset of the page at the virtual page w.
Clear(m, w) == [m EXCEPT ![Walk(m, w).addr] = Cleared]

\* A defect: a new table keeps what was in its page.
EnsureUncleared(s, k, v) ==
  IF Failed(s) \/ TableEntry(s.mem, k, v).present THEN s
  ELSE [Taken(s) EXCEPT
          !.mem[TablePage(s.mem, k, v)][v[k]] = Entry(NextPage(s), "ReadWrite")]

\* One of the three blocks that give the table of level k a successor on v's path.
Ensure(s, k, v) ==
  IF Failed(s) \/ TableEntry(s.mem, k, v).present THEN s
  ELSE LET linked == [Taken(s) EXCEPT
                        !.mem[TablePage(s.mem, k, v)][v[k]] = Entry(NextPage(s), "ReadWrite")]
       IN [linked EXCEPT !.mem = Clear(@, Window(k + 1, v))]

Tables(s, v) == Ensure(Ensure(Ensure(s, 1, v), 2, v), 3, v)

SetLeaf(m, v, e) == [m EXCEPT ![TablePage(m, 4, v)][v[4]] = e]

\* map_page_to of the boot loader: a page that has no memory yet gets a cleared one.
LoaderPage(s, v) ==
  IF Failed(s) \/ TableEntry(s.mem, 4, v).present THEN s
  ELSE [Taken(s) EXCEPT
          !.mem = Clear(SetLeaf(s.mem, v, Entry(NextPage(s), "Executable")), v)]

MapPageTo(v) ==
  /\ phase = "boot" /\ v \in Image
  /\ Follow(LoaderPage(Tables(Now, v), v))
  /\ UNCHANGED <<phase, map, at, tlb, answer, calls, short, remapped>>

\* The loader jumps to the kernel.
EnterKernel ==
  /\ phase = "boot"
  /\ phase' = "setup"
  /\ UNCHANGED <<map, at, gfp, regions, mem, tlb, answer, calls, handed, short, remapped>>

-----------------------------------------------------------------------------
\* A defect: an entry is moved up and keeps its size.
ClipStartOnly(e) == IF e.offset < EndPtr THEN [e EXCEPT !.offset = EndPtr] ELSE e

\* What platform_setup makes of an entry of the memory map that reaches EndPtr.
Clip(e) ==
  IF e.offset < EndPtr
  THEN [e EXCEPT !.size = @ - (EndPtr - e.offset), !.offset = EndPtr]
  ELSE e

\* One turn of platform_setup's loop over the memory map.
SetupEntry ==
  /\ phase = "setup" /\ at <= Len(map)
  /\ at' = at + 1
  /\ LET e == Clip(map[at])
         added == map[at].offset + map[at].size > EndPtr /\ e.type = Usable
     IN /\ regions' = IF added THEN AddRegion(regions, e.offset, e.size) ELSE regions
        /\ short' = (short \/ (added /\ e.size < 2 * PageSize))
  /\ UNCHANGED <<phase, map, gfp, mem, tlb, answer, calls, handed, remapped>>

SetupDone ==
  /\ phase = "setup" /\ at > Len(map)
  /\ phase' = "run"
  /\ UNCHANGED <<map, at, gfp, regions, mem, tlb, answer, calls, handed, short, remapped>>

-----------------------------------------------------------------------------
\* What v is mapped to.
Mapping(v) == IF Walk(mem, v).present THEN Walk(mem, v) ELSE None

\* platform_map
PlatformMap(v, device, use) ==
  /\ phase = "run" /\ calls < MaxCalls /\ v \in Virt \ Image
  /\ calls' = calls + 1
  /\ LET s == Tables(Now, v) IN
       /\ ~Failed(s)
       /\ Follow([s EXCEPT !.mem = SetLeaf(@, v, Entry(device, use))])
  /\ answer' = 0
  /\ remapped' = IF Mapping(v) = None THEN remapped ELSE remapped \cup {v}
  /\ UNCHANGED <<phase, map, at, tlb, short>>

\* A defect: the translation is not invalidated.
PlatformUnmapNoInvlpg(v) ==
  /\ phase = "run" /\ calls < MaxCalls /\ v \in Virt \ Image
  /\ calls' = calls + 1
  /\ answer' = Mapping(v).addr
  /\ IF Mapping(v) = None THEN UNCHANGED <<mem, remapped>>
     ELSE /\ mem' = [mem EXCEPT ![TablePage(mem, 4, v)][v[4]].present = FALSE]
          /\ remapped' = remapped \ {v}
  /\ UNCHANGED <<setup, regions, tlb, handed, short>>

\* platform_unmap: returns at the first level that has no entry; else clears
\* the present bit and invalidates the translation.
PlatformUnmap(v) ==
  /\ phase = "run" /\ calls < MaxCalls /\ v \in Virt \ Image
  /\ calls' = calls + 1
  /\ answer' = Mapping(v).addr
  /\ IF Mapping(v) = None THEN UNCHANGED <<mem, tlb, remapped>>
     ELSE /\ mem' = [mem EXCEPT ![TablePage(mem, 4, v)][v[4]].present = FALSE]
          /\ tlb' = [tlb EXCEPT ![v] = None]
          /\ remapped' = remapped \ {v}
  /\ UNCHANGED <<setup, regions, handed, short>>

\* The processor uses a device's mapping and may keep it from then on.
Touch(v) ==
  /\ v \in Virt \ Image
  /\ tlb[v] = None /\ Mapping(v) # None
  /\ tlb' = [tlb EXCEPT ![v] = Mapping(v)]
  /\ UNCHANGED <<setup, regions, mem, answer, calls, handed, short, remapped>>

Next ==
  \/ \E v \in Virt : MapPageTo(v)
  \/ EnterKernel \/ SetupEntry \/ SetupDone
  \/ \E v \in Virt, d \in Devices, u \in Uses : PlatformMap(v, d, u)
  \/ \E v \in Virt : PlatformUnmap(v) \/ Touch(v)

Spec == Init /\ [][Next]_vars

-----------------------------------------------------------------------------

FreePages ==
  UNION {{regions[i].address + n * PageSize : n \in 0 .. regions[i].pagecount - 1} :
           i \in DOMAIN regions}

\* No page has two owners: none is handed out twice, by the loader or by the
\* kernel, and none that is in use is still in the kernel's list
\* (boot/loader/src/mem.cpp:28-33, mem.cpp:28-49).
PagesOnce ==
  ~short =>
    /\ IsInjective(handed)
    /\ phase = "run" => Range(handed) \cap FreePages = {} /\ Root \notin FreePages

\* What the kernel hands out, now or later, is memory: every such page lies whole
\* inside a usable entry of the firmware's map and above EndPtr, also where the
\* entry is cut or not on a page boundary (platform.cpp:167-181, mem.cpp:28-49).
PagesUsable ==
  ~short => /\ \A p \in FreePages : p >= EndPtr
            /\ \A p \in FreePages \cup {q \in Range(handed) : q >= EndPtr} :
                 \E i \in DOMAIN map :
                   /\ map[i].type = Usable
                   /\ map[i].offset <= p /\ p + PageSize <= map[i].offset + map[i].size

\* The pages the kernel hands out and keeps are memory of its own.
PagesRight == PagesOnce /\ PagesUsable

\* The translations in use are those of the tables, but for pages mapped anew
\* over a mapping: platform_map does not invalidate (map.cpp:72-98, 136).
StaleOnlyAfterRemap ==
  ~short => \A v \in Virt \ remapped : tlb[v] # None => tlb[v] = Mapping(v)

\* platform_map and platform_unmap change what one virtual page is mapped to and
\* nothing else, whatever was in the pages their tables are put in and however
\* the paths through the tables are shared (map.cpp:26-138).
Space == INSTANCE AddressSpace WITH
  Targets <- {Entry(d, u) : d \in Devices \cup Pages, u \in Uses},
  Unmapped <- None,
  space <- [v \in Virt |-> Mapping(v)]
ImplementsAddressSpace == Space!Init /\ [][short' \/ Space!Next]_<<[v \in Virt |-> Mapping(v)], answer>>
=============================================================================
