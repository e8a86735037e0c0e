----------------------------- MODULE BootSector -----------------------------
(***************************************************************************)
(* From the boot sector to the kernel's entry: ReadFile of                 *)
(* boot/bootsector/bootsector.asm, which finds BOOTLDR BIN, the file the   *)
(* sector itself is the start of, and then KERNEL  ELF in the root         *)
(* directory of a FAT32 partition and reads them cluster by cluster;       *)
(* setup.asm; load_memmap of memmap.asm, which asks the BIOS for the       *)
(* memory map; and elf_check and elf_load of boot/loader/src/elf.cpp,      *)
(* whose pages come from map_page_to (module Paging has its tables).       *)
(*                                                                         *)
(* Real-mode memory is counted in clusters from 7E00h: LoaderRoom of them  *)
(* to 10000h, where the kernel's file goes, KernelRoom to the stack at     *)
(* 9F000h.  A cluster's content is its number.                             *)
(***************************************************************************)
EXTENDS Integers, Sequences, FiniteSets, SequencesExt

CONSTANTS
  Media,       \* media to boot from: [root, fat, bad, regions, longMode, elf]
  LoaderRoom, KernelRoom,
  MapRoom,     \* entries of kernel_boot_header::e820_map: 64
  PageBytes    \* bytes of a page: 4096

ASSUME BootAssumption == {LoaderRoom, KernelRoom, MapRoom, PageBytes} \subseteq Nat \ {0}

VARIABLES
  medium,   \* root: its clusters, each a sequence of entries [name, first, size]; fat:
            \* the next cluster of each; bad: clusters that cannot be read; regions: the
            \* BIOS's memory map; elf: what the kernel's file says
  booting,  \* <<file, "find" or "read">>, then <<what is done, what came of it>>
  esi,      \* the next cluster to read
  es,       \* where it goes
  lowMemory,\* what was read to each place
  eax,      \* the size of each file found
  e820,     \* the memory map, as entries of kernel_boot_header
  loading,  \* the next program header
  mapped,   \* pages mapped by map_page_to
  ram       \* what elf_load wrote to each address

readVars == <<esi, es, lowMemory, eax>>
elfVars == <<loading, mapped, ram>>
bootVars == <<medium, booting, readVars, e820, elfVars>>

\* A cluster number from Last on ends a chain; the one before it marks a bad cluster.
LastCluster == 99
Files == {"loader", "kernel"}
StartOf(file) == IF file = "loader" THEN 0 ELSE LoaderRoom

BootInit ==
  /\ medium \in Media
  /\ booting = <<"loader", "find">>
  /\ esi = 0 /\ es = 0 /\ lowMemory = <<>> /\ eax = [f \in Files |-> 0]
  /\ e820 = <<>>
  /\ loading = 1 /\ mapped = {} /\ ram = <<>>

Stop == booting' = <<booting[1], "stopped">>

-----------------------------------------------------------------------------
(* ReadFile. *)

\* The root directory's first cluster: of number 2, in the media here.
RootCluster == 2

\* FindName: the place of the first entry with the name, or of the one that ends the
\* directory; 0 if there is neither.
EntryOf(entries, file) ==
  SelectInSeq(entries, LAMBDA e : e.name = file \/ e.name = "end")

\* RootDirReadContinue and FindName.  At the end of a cluster that is not the last the
\* root directory is read again, from its first cluster.
FindName ==
  LET file == booting[1]
      entries == medium.root[1]
      i == EntryOf(entries, file)
  IN
    /\ booting[2] = "find"
    /\ IF RootCluster \in medium.bad \/ (i = 0 /\ Len(medium.root) = 1) \/ (i # 0 /\ entries[i].name = "end")
       THEN Stop /\ UNCHANGED readVars
       ELSE IF i = 0 THEN UNCHANGED <<booting, readVars>>
       ELSE /\ booting' = <<file, "read">>
            /\ esi' = entries[i].first /\ es' = StartOf(file)
            /\ eax' = [eax EXCEPT ![file] = entries[i].size]
            /\ UNCHANGED lowMemory
    /\ UNCHANGED <<medium, e820, elfVars>>

\* Where setup goes on, unless the processor has no long mode.
AfterFile(file) ==
  IF file = "loader" THEN IF medium.longMode THEN <<"kernel", "find">> ELSE <<"setup", "stopped">>
  ELSE <<"memmap", "ask">>

\* A defect: the chain is left one cluster early.
IsLastNext(next) == next >= LastCluster \/ (next \in DOMAIN medium.fat /\ medium.fat[next] >= LastCluster)

\* cmp esi, 0FFFFFF8h
IsLast(next) == next >= LastCluster

\* ReadCluster, as FileReadContinue calls it.  A file that reaches the stack overwrites
\* the return address.
ReadCluster ==
  LET file == booting[1] IN
    /\ booting[2] = "read"
    /\ IF esi \in medium.bad \/ es >= LoaderRoom + KernelRoom
       THEN Stop /\ UNCHANGED readVars
       ELSE /\ lowMemory' = [a \in DOMAIN lowMemory \cup {es} |-> IF a = es THEN esi ELSE lowMemory[a]]
            /\ es' = es + 1
            /\ esi' = medium.fat[esi]
            /\ booting' = IF IsLast(esi') THEN AfterFile(file) ELSE booting
            /\ UNCHANGED eax
    /\ UNCHANGED <<medium, e820, elfVars>>

-----------------------------------------------------------------------------
\* One call of the BIOS in load_memmap; with the last entry the processor goes to long
\* mode.  The 65th entry is where the tables are built: if its base has a high half, the
\* first entry of the tables keeps it.
LoadMemmap ==
  LET n == Len(e820) + 1 IN
    /\ booting = <<"memmap", "ask">>
    /\ e820' = Append(e820, medium.regions[n])
    /\ IF n < Len(medium.regions) THEN UNCHANGED booting
       ELSE booting' = IF n > MapRoom /\ e820'[MapRoom + 1] = "high"
                       THEN <<"long mode", "stopped">> ELSE <<"elf", "check">>
    /\ UNCHANGED <<medium, readVars, elfVars>>

-----------------------------------------------------------------------------
(* elf_check and elf_load. *)

ElfCheck ==
  /\ booting = <<"elf", "check">>
  /\ booting' = IF medium.elf.executable THEN <<"elf", "load">> ELSE <<"elf", "stopped">>
  /\ UNCHANGED <<medium, readVars, e820, elfVars>>

Pages(addresses) == {a \div PageBytes : a \in addresses}
Bytes(s) == s.vaddr .. s.vaddr + s.memsz - 1

\* One page for every PageBytes of the segment, from its first byte.
PagesOf(s) == Pages({s.vaddr + j * PageBytes : j \in 0 .. ((s.memsz + PageBytes - 1) \div PageBytes) - 1})

\* One program header, whatever its type.  A byte without a page is a fault, and so is
\* the underflow of the length to clear.
ElfLoad ==
  LET s == medium.elf.segments[loading]
      pages == mapped \cup PagesOf(s)
  IN
    /\ booting = <<"elf", "load">> /\ loading <= Len(medium.elf.segments)
    /\ mapped' = pages
    /\ IF s.filesz > s.memsz \/ ~(Pages(Bytes(s)) \subseteq pages)
       THEN Stop /\ UNCHANGED <<loading, ram>>
       ELSE /\ ram' = [a \in DOMAIN ram \cup Bytes(s) |->
                         IF a \notin Bytes(s) THEN ram[a]
                         ELSE IF a < s.vaddr + s.filesz THEN <<loading, a - s.vaddr>> ELSE <<0, 0>>]
            /\ loading' = loading + 1
            /\ UNCHANGED booting
    /\ UNCHANGED <<medium, readVars, e820>>

\* e_entry is called.
ElfEntry ==
  /\ booting = <<"elf", "load">> /\ loading > Len(medium.elf.segments)
  /\ booting' = <<"kernel", "entered">>
  /\ UNCHANGED <<medium, readVars, e820, elfVars>>

BootNext == FindName \/ ReadCluster \/ LoadMemmap \/ ElfCheck \/ ElfLoad \/ ElfEntry

-----------------------------------------------------------------------------
(* What a medium holds, read at leisure. *)

\* The clusters of a file, as far as they can be counted without going round.
Chain(first) ==
  LET step[c \in Seq(0 .. LastCluster)] ==
        LET next == medium.fat[Last(c)] IN
          IF next >= LastCluster \/ next \in ToSet(c) \/ next \notin DOMAIN medium.fat THEN c ELSE step[Append(c, next)]
  IN step[<<first>>]

Entries == FlattenSeq(medium.root)
Named(file) == {i \in DOMAIN Entries : Entries[i].name = file}
EntryNamed(file) == Entries[CHOOSE i \in Named(file) : \A j \in Named(file) : i <= j]
FileChain(file) == Chain(EntryNamed(file).first)
Whole(file) ==
  LET c == FileChain(file) IN
    /\ medium.fat[Last(c)] = LastCluster /\ ToSet(c) \cap medium.bad = {}
    /\ StartOf(file) + Len(c) <= LoaderRoom + KernelRoom

\* Both names must be in the first cluster of the root directory, before its end.
Findable(file) ==
  LET first == medium.root[1] IN
    \E i \in DOMAIN first : first[i].name = file /\ \A j \in 1 .. i : first[j].name # "end"

Counted(s) ==
  LET first == s.vaddr \div PageBytes IN first .. first + ((s.memsz + PageBytes - 1) \div PageBytes) - 1

\* A segment that starts within a page must not reach one page further than its length
\* has (elf.cpp:41), unless a segment before it has brought that page.
Fits(n) ==
  LET s == medium.elf.segments[n] IN
    /\ s.filesz <= s.memsz
    /\ Pages(Bytes(s)) \subseteq UNION {Counted(medium.elf.segments[k]) : k \in 1 .. n}

Bootable ==
  /\ RootCluster \notin medium.bad /\ \A f \in Files : Findable(f) /\ Whole(f)
  /\ medium.longMode
  /\ Len(medium.regions) > MapRoom => medium.regions[MapRoom + 1] # "high"
  /\ medium.elf.executable /\ \A n \in DOMAIN medium.elf.segments : Fits(n)

Holds(place, cluster) == place \in DOMAIN lowMemory /\ lowMemory[place] = cluster

\* The kernel is entered with its file in memory as it is on the medium, whatever chain
\* it has; with the loader's too, unless that reaches to where the kernel is put
\* (bootsector.asm:86, 47-58); and every byte of a segment, of the last that has it, is
\* the file's or zero (elf.cpp:39-59).
BootedWhole ==
  booting = <<"kernel", "entered">> =>
    /\ \A f \in Files : eax[f] = EntryNamed(f).size
    /\ \A i \in DOMAIN FileChain("kernel") : Holds(LoaderRoom + i - 1, FileChain("kernel")[i])
    /\ (\A i \in DOMAIN FileChain("loader") : Holds(i - 1, FileChain("loader")[i]))
         <=> Len(FileChain("loader")) <= LoaderRoom
    /\ \A n \in DOMAIN medium.elf.segments : LET s == medium.elf.segments[n] IN
         \A a \in Bytes(s) \ UNION {Bytes(medium.elf.segments[k]) : k \in n + 1 .. Len(medium.elf.segments)} :
           ram[a] = IF a - s.vaddr < s.filesz THEN <<n, a - s.vaddr>> ELSE <<0, 0>>

\* The kernel is entered exactly if both files are found in the first cluster of the
\* root directory, though RootDirReadContinue is there to go on to the next
\* (bootsector.asm:73-116); can be read; and fit, and so do the map and the segments.
Boots ==
  /\ Bootable ~> booting = <<"kernel", "entered">>
  /\ ~Bootable => [](booting # <<"kernel", "entered">>)
=============================================================================
