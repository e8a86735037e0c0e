------------------------------- MODULE MCBoot -------------------------------
(* Media for BootSector: a good one, and those with one thing changed. *)
EXTENDS BootSector

E(name, first, size) == [name |-> name, first |-> first, size |-> size]
Loader == E("loader", 3, 2)
KernelEntry == E("kernel", 6, 3)
Other == E("other", 5, 1)
TheEnd == E("end", 0, 0)

\* The files are 3 -> 4 and 6 -> 8 -> 7; 5 is bad, 9 leads to itself.
Fat == [c \in 0 .. LastCluster - 1 |->
          CASE c = 3 -> 4 [] c = 6 -> 8 [] c = 8 -> 7 [] c = 9 -> 9 [] c = 10 -> 3 [] c = 11 -> 98 [] OTHER -> LastCluster]

S(vaddr, filesz, memsz) == [vaddr |-> vaddr, filesz |-> filesz, memsz |-> memsz]
Elf(segments) == [executable |-> TRUE, segments |-> segments]
GoodElf == Elf(<<S(0, 3, 3), S(4, 2, 7)>>)

GoodMedium == [root |-> <<<<Other, Loader, KernelEntry, TheEnd>>>>, fat |-> Fat, bad |-> {5, 98},
         regions |-> <<"low", "low", "high">>, longMode |-> TRUE, elf |-> GoodElf]

MCMedia ==
  {GoodMedium}
  \cup {[GoodMedium EXCEPT !.root = r] : r \in {
          <<<<KernelEntry, Other, Loader>>, <<Other>>>>,                  \* found before the end of a cluster
          <<<<Loader, Other>>, <<KernelEntry, TheEnd>>>>,                 \* in the second cluster
          <<<<Loader, Other>>>>, <<<<TheEnd, Loader, KernelEntry>>>>,     \* not there
          <<<<Loader, E("kernel", 7, 1), KernelEntry>>>>,                 \* twice
          <<<<E("loader", 10, 3), KernelEntry>>>>,                        \* a long loader
          <<<<Loader, E("kernel", 9, 9)>>>>, <<<<Loader, E("kernel", 5, 1)>>>>,
          <<<<Loader, E("kernel", 11, 2)>>>>, <<<<Loader, E("kernel", 0, 0)>>>>}}
  \cup {[GoodMedium EXCEPT !.bad = b] : b \in {{RootCluster}, {4}, {8}}}
  \cup {[GoodMedium EXCEPT !.longMode = FALSE]}
  \cup {[GoodMedium EXCEPT !.regions = r] : r \in {<<"low">>, <<"low", "low", "low", "high">>, <<"low", "low", "low", "low", "high">>}}
  \cup {[GoodMedium EXCEPT !.elf = e] : e \in {
          [GoodElf EXCEPT !.executable = FALSE], Elf(<<>>),
          Elf(<<S(2, 2, 2), S(6, 1, 3)>>), Elf(<<S(8, 1, 2), S(6, 1, 3)>>),
          Elf(<<S(0, 4, 4), S(2, 3, 4)>>), Elf(<<S(0, 3, 2)>>)}}
=============================================================================
