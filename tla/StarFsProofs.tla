----------------------------- MODULE StarFsProofs -----------------------------
(***************************************************************************)
(* StarFS (module StarFs): no block belongs to two files, and no inode is  *)
(* given away that has a name or is open.  For disks, tables and blocks of *)
(* any size, and any number of calls: for the second, of fewer calls than  *)
(* a linkcount can count.                                                  *)
(***************************************************************************)
EXTENDS StarFs, SequenceTheorems, WellFoundedInduction, TLAPS

-----------------------------------------------------------------------------
(***************************************************************************)
(* The invariant.                                                          *)
(***************************************************************************)

\* Every inode but that of the free extent.
Others == Inodes \ {Free}

InodeRecords ==
  [flags : SUBSET {"system", "dir"}, links : Nat, size : Nat, start : Nat \cup {NoBlock}, len : Nat]

\* What may be in a cell: no entry with a name that clients use is of the free extent.
CellValues ==
  [kind : {"header"}, count : Nat] \cup [kind : {"entry"}, ino : Others, name : Names]
  \cup [kind : {"entry"}, ino : Inodes, name : Range(SystemNames)]
  \cup [kind : {"data"}, call : Nat] \cup [kind : {"unset"}]

TypeOK ==
  /\ inodes \in [Inodes -> InodeRecords]
  /\ \A a \in DOMAIN disk : disk[a] \in CellValues
  /\ newino \in Others \cup {NoInode}
  /\ calls \in Nat

\* The free extent keeps its link and is not open, so that alloc_inode does not find it.
FreeOK == inodes[Free].links # 0 /\ opens \in [Inodes -> Int] /\ opens[Free] = 0

\* Two extents that share no block.
Apart(i, j) ==
  i.start # NoBlock /\ j.start # NoBlock =>
    i.start + i.len <= j.start \/ j.start + j.len <= i.start \/ i.len = 0 \/ j.len = 0

\* The blocks in use are before the free ones, and each is in one extent.
EndsBy(n, block) == inodes[n].start # NoBlock => inodes[n].start + inodes[n].len <= block
ExtentsOK ==
  /\ inodes[Free].start # NoBlock /\ inodes[Free].start + inodes[Free].len <= Blocks
  /\ \A n \in Others : EndsBy(n, inodes[Free].start)
  /\ \A m, n \in Others : m # n => Apart(inodes[m], inodes[n])

\* The steps a call can have before it, by what they need.
NameSteps ==
  [op : {"add_to_dir"}, dir : Others, name : Names, must : BOOLEAN]
  \cup [op : {"make_file", "make_directory"}]
OtherSteps ==
  [op : {"store"}, ino : Others, buf : Seq(CellValues)]
  \cup [op : {"remove_from_dir"}, dir : Others, name : Names]
  \cup [op : {"unref"}, ino : Others]
  \cup [op : {"unlink"}, path : Paths]
PlainSteps == IF newino = NoInode THEN OtherSteps ELSE NameSteps \cup OtherSteps
ResizeSteps == [op : {"resize"}, ino : Others, size : Nat]

\* A file without blocks grows beyond what it has: it gets the new chunk.
TakesChunk(s) == s.size > inodes[s.ino].len * Cells /\ inodes[s.ino].start = NoBlock

\* The new chunk is behind all extents in use and before the free one.
ChunkFor(size) ==
  /\ chunk \in Nat /\ chunk + BlocksFor(size) <= inodes[Free].start
  /\ \A n \in Others : EndsBy(n, chunk)

\* alloc_inode comes first, and alloc_space and the change of the extent without
\* anything in between.
AtAllocInode == Now = [op |-> "alloc_inode"] /\ Rest \in Seq(NameSteps \cup OtherSteps)
AtAllocSpace ==
  /\ Rest # <<>> /\ Head(Rest) \in ResizeSteps /\ Tail(Rest) \in Seq(PlainSteps)
  /\ Now = [op |-> "alloc_space", blocks |-> BlocksFor(Head(Rest).size)]
AtResize == 
  /\ Now \in ResizeSteps /\ Rest \in Seq(PlainSteps)
  /\ "outgrown" \notin spoiled /\ TakesChunk(Now) => ChunkFor(Now.size)
AtPlain == Now \in PlainSteps /\ Rest \in Seq(PlainSteps)

TodoOK ==
  /\ todo # <<>> => result = "running"
  /\ todo # <<>> /\ spoiled = {} => AtAllocInode \/ AtAllocSpace \/ AtResize \/ AtPlain

\* What clients see is there.
SeenOK ==
  result = "seen" => \A p \in Paths : seen[p] # Absent => GetInode(p) \in Others

IInv ==
  /\ TypeOK /\ FreeOK /\ TodoOK /\ SeenOK
  /\ "outgrown" \notin spoiled => ExtentsOK

-----------------------------------------------------------------------------
(***************************************************************************)
(* Numbers, paths and lists of steps.                                      *)
(***************************************************************************)

LEMMA Bounds ==
  /\ Cells \in Nat /\ Cells > 6 /\ InodeCount \in Nat /\ InodeCount > 5
  /\ Blocks \in Nat /\ TableBlocks \in Nat /\ RootBlock + 1 < Blocks /\ LinkWrap \in Nat /\ LinkWrap > 2
  /\ Free \in Inodes /\ Root \in Others /\ NoInode \notin Inodes /\ RootBlock \in Nat
<1>1. Len(SystemNames) = 6 BY DEF SystemNames
<1>2. /\ Cells \in Nat /\ Cells > 6 /\ InodeCount \in Nat /\ InodeCount > 5
      /\ Blocks \in Nat /\ RootBlock + 1 < Blocks /\ LinkWrap \in Nat /\ LinkWrap > 2
  BY <1>1, StarFsAssumption
<1>3. Cells \div CellsPerInode \in Nat /\ Cells \div CellsPerInode > 0
  BY <1>2 DEF CellsPerInode
<1>4. \A a, b \in Nat : b > 0 => (a + b - 1) \div b \in Nat OBVIOUS
<1>5. TableBlocks \in Nat BY <1>2, <1>3, <1>4 DEF TableBlocks
<1> QED BY <1>2, <1>5 DEF Free, Root, Others, Inodes, NoInode, RootBlock

\* The least of a set of numbers is one of them.
LEMMA FirstIn ==
  ASSUME NEW S \in SUBSET Nat, S # {}
  PROVE  First(S) \in S
<1>1. PICK i \in S : \A j \in S : ~ (<<j, i>> \in OpToRel(<, Nat))
  BY NatLessThanWellFounded, WFMin
<1>2. \A j \in S : ~ (j < i) BY <1>1 DEF OpToRel
<1>3. \A j \in S : i <= j BY <1>2
<1> QED BY <1>3 DEF First

LEMMA BlocksForNat ==
  ASSUME NEW size \in Nat
  PROVE  BlocksFor(size) \in Nat
<1>1. \A a, b \in Nat : b > 0 => (a + b - 1) \div b \in Nat OBVIOUS
<1> QED BY <1>1, Bounds DEF BlocksFor

\* What a list of steps begins with, and what is left of it then.
LEMMA Rests ==
  ASSUME NEW S, NEW r \in Seq(S)
  PROVE  /\ r # <<>> => Head(r) \in S /\ Tail(r) \in Seq(S)
         /\ \A b \in S : <<b>> \o r \in Seq(S)
         /\ \A b \in S : <<b>> \o r # <<>> /\ Head(<<b>> \o r) = b /\ Tail(<<b>> \o r) = r
<1>1. r # <<>> => Head(r) \in S /\ Tail(r) \in Seq(S) BY HeadTailProperties
<1>2. ASSUME NEW b \in S PROVE <<b>> \o r \in Seq(S) BY ConcatProperties
<1>3. ASSUME NEW b \in S PROVE <<b>> \o r # <<>> /\ Head(<<b>> \o r) = b /\ Tail(<<b>> \o r) = r
  OBVIOUS
<1> QED BY <1>1, <1>2, <1>3

\* A function on 1 .. n is a sequence.
LEMMA FunctionIsSeq ==
  ASSUME NEW S, NEW n \in Nat, NEW f \in [1 .. n -> S]
  PROVE  f \in Seq(S) /\ Len(f) = n
OBVIOUS

\* getinode goes through one directory for each name.
LookupsAre ==
  /\ GetInode(<<>>) = Root
  /\ \A a : GetInode(<<a>>) = FindInDir(Root, a)
  /\ \A a, b : GetInode(<<a, b>>) = FindInDir(FindInDir(Root, a), b)
LEMMA Lookups == LookupsAre
<1>1. GetInode(<<>>) = Root
  <2> DEFINE at == CHOOSE f : f = [k \in 0 .. 0 |-> IF k = 0 THEN Root ELSE FindInDir(f[k - 1], <<>>[k])]
             w == [k \in 0 .. 0 |-> Root]
  <2>1. w = [k \in 0 .. 0 |-> IF k = 0 THEN Root ELSE FindInDir(w[k - 1], <<>>[k])] OBVIOUS
  <2>2. at = [k \in 0 .. 0 |-> IF k = 0 THEN Root ELSE FindInDir(at[k - 1], <<>>[k])]
    <3> HIDE DEF w
    <3> QED BY <2>1
  <2>3. at[0] = Root BY <2>2
  <2>4. Len(<<>>) = 0 OBVIOUS
  <2> QED BY <2>3, <2>4 DEF GetInode
<1>2. ASSUME NEW a PROVE GetInode(<<a>>) = FindInDir(Root, a)
  <2> DEFINE at == CHOOSE f : f = [k \in 0 .. 1 |-> IF k = 0 THEN Root ELSE FindInDir(f[k - 1], <<a>>[k])]
             w == [k \in 0 .. 1 |-> IF k = 0 THEN Root ELSE FindInDir(Root, a)]
  <2>1. w = [k \in 0 .. 1 |-> IF k = 0 THEN Root ELSE FindInDir(w[k - 1], <<a>>[k])]
    <3>1. \A k \in 0 .. 1 : k = 0 \/ k = 1 OBVIOUS
    <3>2. w[0] = Root /\ <<a>>[1] = a OBVIOUS
    <3> QED BY <3>1, <3>2
  <2>2. at = [k \in 0 .. 1 |-> IF k = 0 THEN Root ELSE FindInDir(at[k - 1], <<a>>[k])]
    <3> HIDE DEF w
    <3> QED BY <2>1
  <2> HIDE DEF at
  <2>3. at[0] = Root BY <2>2
  <2>4. at[1] = FindInDir(at[0], <<a>>[1]) BY <2>2
  <2>5. Len(<<a>>) = 1 /\ <<a>>[1] = a OBVIOUS
  <2> QED BY <2>3, <2>4, <2>5 DEF GetInode, at
<1>3. ASSUME NEW a, NEW b PROVE GetInode(<<a, b>>) = FindInDir(FindInDir(Root, a), b)
  <2> DEFINE at == CHOOSE f : f = [k \in 0 .. 2 |-> IF k = 0 THEN Root ELSE FindInDir(f[k - 1], <<a, b>>[k])]
             w == [k \in 0 .. 2 |-> IF k = 0 THEN Root ELSE IF k = 1 THEN FindInDir(Root, a)
                                   ELSE FindInDir(FindInDir(Root, a), b)]
  <2>1. w = [k \in 0 .. 2 |-> IF k = 0 THEN Root ELSE FindInDir(w[k - 1], <<a, b>>[k])]
    <3>1. \A k \in 0 .. 2 : k = 0 \/ k = 1 \/ k = 2 OBVIOUS
    <3>2. w[0] = Root /\ w[1] = FindInDir(Root, a) /\ <<a, b>>[1] = a /\ <<a, b>>[2] = b OBVIOUS
    <3> QED BY <3>1, <3>2
  <2>2. at = [k \in 0 .. 2 |-> IF k = 0 THEN Root ELSE FindInDir(at[k - 1], <<a, b>>[k])]
    <3> HIDE DEF w
    <3> QED BY <2>1
  <2> HIDE DEF at
  <2>3. at[0] = Root BY <2>2
  <2>4. at[1] = FindInDir(at[0], <<a, b>>[1]) BY <2>2
  <2>5. at[2] = FindInDir(at[1], <<a, b>>[2]) BY <2>2
  <2>6. Len(<<a, b>>) = 2 /\ <<a, b>>[1] = a /\ <<a, b>>[2] = b OBVIOUS
  <2> QED BY <2>3, <2>4, <2>5, <2>6 DEF GetInode, at
<1> QED BY <1>1, <1>2, <1>3 DEF LookupsAre

\* The parent of a path of two names.
LEMMA FrontOfTwo ==
  ASSUME NEW a, NEW b
  PROVE  Front(<<a, b>>) = <<a>>
<1> DEFINE s == SubSeq(<<a, b>>, 1, 1)
           t == <<a>>
           S == {a, b}
<1>1. t \in Seq(S) /\ Len(t) = 1 /\ t[1] = a OBVIOUS
<1>2. \A i \in 1 .. 1 : <<a, b>>[i] \in S OBVIOUS
<1>3. s \in Seq(S) /\ Len(s) = 1 /\ \A i \in 1 .. 1 : s[i] = <<a, b>>[1 + i - 1]
  BY <1>2, SubSeqProperties
<1>4. s[1] = a BY <1>3
<1>5. \A i \in 1 .. Len(s) : s[i] = t[i] BY <1>1, <1>3, <1>4
<1>6. s = t
  <2>1. s \in Seq(S) /\ t \in Seq(S) /\ Len(s) = Len(t) BY <1>1, <1>3
  <2> HIDE DEF s, t, S
  <2> QED BY <1>5, <2>1, SeqEqual
<1>7. Len(<<a, b>>) - 1 = 1 OBVIOUS
<1> QED BY <1>6, <1>7 DEF Front

\* What is at a path is found in its parent.
LEMMA ParentFinds ==
  ASSUME NEW p \in Paths
  PROVE  /\ Last(p) \in Names /\ (Front(p) = <<>> \/ Front(p) \in Paths)
         /\ GetInode(p) = FindInDir(GetParent(p), Last(p))
<1>1. CASE \E a \in Names : p = <<a>>
  <2>1. PICK a \in Names : p = <<a>> BY <1>1
  <2>2. Front(p) = <<>> /\ Last(p) = a BY <2>1 DEF Front, Last
  <2> QED BY <2>1, <2>2, Lookups DEF GetParent, LookupsAre
<1>2. CASE \E a, b \in Names : p = <<a, b>>
  <2>1. PICK a, b \in Names : p = <<a, b>> BY <1>2
  <2>2. Front(p) = <<a>> /\ Last(p) = b BY <2>1, FrontOfTwo DEF Last
  <2>3. <<a>> \in Paths BY DEF Paths
  <2> QED BY <2>1, <2>2, <2>3, Lookups DEF GetParent, LookupsAre
<1> QED BY <1>1, <1>2 DEF Paths

\* readinode returns cells of the disk.
LEMMA ContentOK ==
  ASSUME TypeOK, NEW n \in Inodes
  PROVE  Content(n) \in Seq(CellValues) /\ Len(Content(n)) = inodes[n].size
<1>1. inodes[n].size \in Nat BY DEF TypeOK, InodeRecords
<1>2. Unset \in CellValues BY DEF Unset, CellValues
<1>3. Content(n) \in [1 .. inodes[n].size -> CellValues] BY <1>1, <1>2 DEF TypeOK, Content
<1> QED BY <1>1, <1>3, FunctionIsSeq

\* No name that clients use leads to the free extent.
LEMMA FoundIsOther ==
  ASSUME TypeOK, NEW n \in Others \cup {NoInode}, NEW name \in Names
  PROVE  /\ FindInDir(n, name) \in Others \cup {NoInode}
         /\ n = NoInode => FindInDir(n, name) = NoInode
<1>1. CASE n = NoInode BY <1>1 DEF FindInDir
<1>2. CASE n # NoInode
  <2> DEFINE buf == Content(n)
             found == Matches(buf, 1, name)
  <2>1. n \in Inodes BY <1>2 DEF Others
  <2>2. buf \in Seq(CellValues) BY <2>1, ContentOK
  <2> HIDE DEF buf
  <2>3. CASE found = {} BY <2>3 DEF FindInDir, buf
  <2>4. CASE found # {}
    <3>1. found \subseteq EntriesOf(buf) /\ EntriesOf(buf) \subseteq 1 .. Len(buf) - 1
      BY DEF Matches, EntriesOf
    <3>2. Len(buf) \in Nat BY <2>2
    <3>3. found \in SUBSET Nat BY <3>1, <3>2
    <3>4. First(found) \in found BY <2>4, <3>3, FirstIn
    <3>5. buf[First(found) + 1] \in CellValues
      <4>1. First(found) + 1 \in 1 .. Len(buf) BY <3>1, <3>2, <3>4
      <4> HIDE DEF found
      <4> QED BY <2>2, <4>1, ElementOfSeq
    <3>6. buf[First(found) + 1].kind = "entry" /\ buf[First(found) + 1].name = name
      BY <3>4 DEF Matches, EntriesOf
    <3> DEFINE c == buf[First(found) + 1]
    <3> HIDE DEF c
    <3>7. c \in CellValues /\ c.kind = "entry" /\ c.name \in Names BY <3>5, <3>6 DEF c
    <3>8. c.ino \in Others BY <3>7, StarFsAssumption DEF CellValues
    <3> QED BY <2>4, <3>8 DEF FindInDir, c, buf
  <2> QED BY <2>3, <2>4
<1> QED BY <1>1, <1>2

LEMMA LookupIsOther ==
  ASSUME TypeOK, NEW p \in Paths
  PROVE  /\ GetInode(p) \in Others \cup {NoInode} /\ GetParent(p) \in Others \cup {NoInode}
         /\ GetInode(p) # NoInode => GetParent(p) # NoInode
<1>1. Root \in Others BY Bounds
<1>2. GetParent(p) \in Others \cup {NoInode}
  <2>1. CASE \E a \in Names : p = <<a>>
    <3>1. Front(p) = <<>> BY <2>1 DEF Front
    <3> QED BY <1>1, <3>1, Lookups DEF GetParent, LookupsAre
  <2>2. CASE \E a, b \in Names : p = <<a, b>>
    <3>1. PICK a, b \in Names : p = <<a, b>> BY <2>2
    <3>2. Front(p) = <<a>> BY <3>1, FrontOfTwo
    <3>3. GetParent(p) = FindInDir(Root, a) BY <3>2, Lookups DEF GetParent, LookupsAre
    <3> QED BY <1>1, <3>3, FoundIsOther
  <2> QED BY <2>1, <2>2 DEF Paths
<1> QED BY <1>2, ParentFinds, FoundIsOther

\* Who only opens a file or takes a link changes nothing that is found.
LEMMA SameLookup ==
  ASSUME UNCHANGED disk, NEW p \in Paths, TypeOK,
         \A n \in Inodes : /\ inodes'[n].flags = inodes[n].flags
                           /\ inodes'[n].size = inodes[n].size /\ inodes'[n].start = inodes[n].start
  PROVE  GetInode(p)' = GetInode(p)
<1>1. ASSUME NEW n \in Others \cup {NoInode}, NEW name
      PROVE  FindInDir(n, name)' = FindInDir(n, name)
  <2>1. CASE n = NoInode BY <2>1 DEF FindInDir
  <2>2. CASE n # NoInode
    <3>1. n \in Inodes BY <2>2 DEF Others
    <3>2. Content(n)' = Content(n) /\ IsDir(n)' = IsDir(n) BY <3>1 DEF Content, IsDir
    <3> QED BY <3>2 DEF FindInDir, Formatted
  <2> QED BY <2>1, <2>2
<1>2. /\ \A a : GetInode(<<a>>)' = FindInDir(Root, a)'
      /\ \A a, b : GetInode(<<a, b>>)' = FindInDir(FindInDir(Root, a), b)'
  <2>1. LookupsAre' BY Lookups, PTL
  <2> QED BY <2>1 DEF LookupsAre
<1>3. Root \in Others BY Bounds
<1>4. CASE \E a \in Names : p = <<a>> BY <1>1, <1>2, <1>3, <1>4, Lookups DEF LookupsAre
<1>5. CASE \E a, b \in Names : p = <<a, b>>
  <2>1. PICK a, b \in Names : p = <<a, b>> BY <1>5
  <2>2. FindInDir(Root, a)' = FindInDir(Root, a) BY <1>1, <1>3
  <2>3. FindInDir(Root, a) \in Others \cup {NoInode} BY <1>3, FoundIsOther
  <2>4. FindInDir(FindInDir(Root, a), b)' = FindInDir(FindInDir(Root, a), b) BY <1>1, <2>2, <2>3
  <2> QED BY <1>2, <2>1, <2>4, Lookups DEF LookupsAre
<1> QED BY <1>4, <1>5 DEF Paths

LEMMA TwoIsConcat ==
  ASSUME NEW a, NEW b
  PROVE  <<a, b>> = <<a>> \o <<b>> /\ <<>> \o <<a, b>> = <<a>> \o <<b>>
<1> DEFINE s == <<a>> \o <<b>>
           t == <<a, b>>
           S == {a, b}
<1>1. t \in Seq(S) /\ Len(t) = 2 /\ t[1] = a /\ t[2] = b OBVIOUS
<1>2. <<a>> \in Seq(S) /\ <<b>> \in Seq(S) OBVIOUS
<1>3. Len(<<a>>) = 1 /\ <<a>>[1] = a /\ <<b>>[1] = b /\ Len(<<b>>) = 1 OBVIOUS
<1>4. /\ s \in Seq(S) /\ Len(s) = Len(<<a>>) + Len(<<b>>)
      /\ \A i \in 1 .. Len(<<a>>) + Len(<<b>>) :
           s[i] = IF i <= Len(<<a>>) THEN <<a>>[i] ELSE <<b>>[i - Len(<<a>>)]
  BY <1>2, ConcatProperties
<1>5. Len(s) = 2 /\ s[1] = a /\ s[2] = b
  <2> HIDE DEF s
  <2> QED BY <1>3, <1>4
<1>6. s = t
  <2>1. \A i \in 1 .. Len(s) : s[i] = t[i] BY <1>1, <1>5
  <2>2. Len(s) = Len(t) /\ s \in Seq(S) /\ t \in Seq(S) BY <1>1, <1>4, <1>5
  <2> HIDE DEF s, t, S
  <2> QED BY <2>1, <2>2, SeqEqual
<1>7. <<>> \o t = t
  <2> HIDE DEF t, S
  <2> QED BY <1>1, ConcatEmptySeq
<1> QED BY <1>6, <1>7

\* The lists of writeinode, with what comes after it.
LEMMA WriteInodeSteps ==
  ASSUME NEW S, NEW n, NEW buf, NEW r \in Seq(S),
         NEW w, w = WriteInode(n, buf) \o r \/ (w = WriteInode(n, buf) /\ r = <<>>),
         [op |-> "store", ino |-> n, buf |-> buf] \in S
  PROVE  LET resize == [op |-> "resize", ino |-> n, size |-> Len(buf)] IN
         /\ w # <<>>
         /\ IF Len(buf) > inodes[n].len * Cells /\ inodes[n].start = NoBlock
            THEN /\ Head(w) = [op |-> "alloc_space", blocks |-> BlocksFor(Len(buf))]
                 /\ Tail(w) # <<>> /\ Head(Tail(w)) = resize /\ Tail(Tail(w)) \in Seq(S)
            ELSE Head(w) = resize /\ Tail(w) \in Seq(S)
<1> DEFINE resize == [op |-> "resize", ino |-> n, size |-> Len(buf)]
           store == [op |-> "store", ino |-> n, buf |-> buf]
           alloc == [op |-> "alloc_space", blocks |-> BlocksFor(Len(buf))]
           takes == Len(buf) > inodes[n].len * Cells /\ inodes[n].start = NoBlock
<1> HIDE DEF resize, store, alloc, takes
<1>1. WriteInode(n, buf) = (IF takes THEN <<alloc>> ELSE <<>>) \o <<resize, store>>
  BY DEF WriteInode, resize, store, alloc, takes
<1>2. <<store>> \o r \in Seq(S) /\ <<store>> \in Seq(S) BY Rests DEF store
<1>3. CASE takes
  <2>1. \/ w = (<<alloc>> \o <<resize, store>>) \o r
        \/ w = <<alloc>> \o <<resize, store>>
    BY <1>1, <1>3
  <2>2. /\ (<<alloc>> \o <<resize, store>>) \o r = <<alloc>> \o (<<resize>> \o (<<store>> \o r))
        /\ <<alloc>> \o <<resize, store>> = <<alloc>> \o (<<resize>> \o <<store>>)
    <3> DEFINE T == {alloc, resize, store} \cup S
    <3>1. <<alloc>> \in Seq(T) /\ <<resize>> \in Seq(T) /\ <<store>> \in Seq(T) OBVIOUS
    <3>2. r \in Seq(T) BY SeqMonotonic
    <3>3. <<resize, store>> = <<resize>> \o <<store>> BY TwoIsConcat
    <3> HIDE DEF T
    <3>4. /\ <<alloc>> \o (<<resize>> \o <<store>>) = (<<alloc>> \o <<resize>>) \o <<store>>
          /\ ((<<alloc>> \o <<resize>>) \o <<store>>) \o r = (<<alloc>> \o <<resize>>) \o (<<store>> \o r)
          /\ (<<alloc>> \o <<resize>>) \o (<<store>> \o r) = <<alloc>> \o (<<resize>> \o (<<store>> \o r))
      BY <3>1, <3>2, ConcatAssociative, ConcatProperties
    <3> QED BY <3>3, <3>4
  <2>3. ASSUME NEW t \in Seq(S)
        PROVE  LET v == <<alloc>> \o (<<resize>> \o t) IN
               v # <<>> /\ Head(v) = alloc /\ Tail(v) # <<>> /\ Head(Tail(v)) = resize /\ Tail(Tail(v)) = t
    <3> DEFINE T == {alloc, resize} \cup S
               u == <<resize>> \o t
    <3>1. t \in Seq(T) BY SeqMonotonic
    <3>2. u \in Seq(T) /\ u # <<>> /\ Head(u) = resize /\ Tail(u) = t
      <4> HIDE DEF T
      <4>1. resize \in T BY DEF T
      <4> QED BY <3>1, <4>1, Rests
    <3>3. <<alloc>> \o u # <<>> /\ Head(<<alloc>> \o u) = alloc /\ Tail(<<alloc>> \o u) = u
      <4>1. alloc \in T OBVIOUS
      <4> HIDE DEF T, u
      <4> QED BY <3>2, <4>1, Rests
    <3> QED BY <3>2, <3>3
  <2>4. PICK t \in Seq(S) : w = <<alloc>> \o (<<resize>> \o t) BY <1>2, <2>1, <2>2
  <2>5. w # <<>> /\ Head(w) = alloc /\ Tail(w) # <<>> /\ Head(Tail(w)) = resize /\ Tail(Tail(w)) \in Seq(S)
    BY <2>3, <2>4
  <2> QED BY <1>3, <2>5 DEF resize, alloc, takes
<1>4. CASE ~takes
  <2>1. w = (<<>> \o <<resize, store>>) \o r \/ w = <<>> \o <<resize, store>> BY <1>1, <1>4
  <2>2. /\ (<<>> \o <<resize, store>>) \o r = <<resize>> \o (<<store>> \o r)
        /\ <<>> \o <<resize, store>> = <<resize>> \o <<store>>
    <3> DEFINE T == {resize, store} \cup S
    <3>1. <<resize>> \in Seq(T) /\ <<store>> \in Seq(T) OBVIOUS
    <3>2. r \in Seq(T) BY SeqMonotonic
    <3>3. <<>> \o <<resize, store>> = <<resize>> \o <<store>> BY TwoIsConcat
    <3> HIDE DEF T
    <3>4. (<<resize>> \o <<store>>) \o r = <<resize>> \o (<<store>> \o r)
      BY <3>1, <3>2, ConcatAssociative
    <3> QED BY <3>3, <3>4
  <2>3. ASSUME NEW t \in Seq(S)
        PROVE  <<resize>> \o t # <<>> /\ Head(<<resize>> \o t) = resize /\ Tail(<<resize>> \o t) = t
    <3> DEFINE T == {resize} \cup S
    <3>1. t \in Seq(T) /\ resize \in T BY SeqMonotonic
    <3> HIDE DEF T
    <3> QED BY <3>1, Rests
  <2> QED BY <1>2, <1>4, <2>1, <2>2, <2>3 DEF resize, alloc, takes
<1> QED BY <1>3, <1>4

-----------------------------------------------------------------------------
(***************************************************************************)
(* Steps of a call.                                                        *)
(***************************************************************************)

\* What is known of a step that is reached.
LEMMA Reached ==
  ASSUME IInv, NEW op, At(op)
  PROVE  /\ todo # <<>> /\ spoiled = {} /\ result = "running" /\ Now.op = op
         /\ op = "alloc_inode" => AtAllocInode
         /\ op = "alloc_space" => AtAllocSpace
         /\ op = "resize" => AtResize
         /\ op \notin {"alloc_inode", "alloc_space", "resize"} => Rest \in Seq(PlainSteps)
         /\ op \in {"add_to_dir", "make_file", "make_directory"} => newino \in Others
         /\ op = "store" => Now.ino \in Others /\ Now.buf \in Seq(CellValues)
         /\ op \in {"add_to_dir", "remove_from_dir"} => Now.dir \in Others /\ Now.name \in Names
         /\ op = "unref" => Now.ino \in Others
         /\ op = "unlink" => Now.path \in Paths
<1>1. todo # <<>> /\ spoiled = {} /\ result = "running" /\ Now.op = op /\ TypeOK
  BY DEF At, IInv, TodoOK
<1>2. AtAllocInode \/ AtAllocSpace \/ AtResize \/ AtPlain BY <1>1 DEF IInv, TodoOK
<1>3. AtAllocInode => Now.op = "alloc_inode" BY DEF AtAllocInode
<1>4. AtAllocSpace => Now.op = "alloc_space" BY DEF AtAllocSpace
<1>5. AtResize => Now.op = "resize" BY DEF AtResize, ResizeSteps
<1>6. AtPlain => Now \in PlainSteps /\ Rest \in Seq(PlainSteps) BY DEF AtPlain
<1>7. Now \in PlainSteps =>
        /\ op \notin {"alloc_inode", "alloc_space", "resize"}
        /\ op \in {"add_to_dir", "make_file", "make_directory"} => newino # NoInode
        /\ op = "store" => Now.ino \in Others /\ Now.buf \in Seq(CellValues)
        /\ op \in {"add_to_dir", "remove_from_dir"} => Now.dir \in Others /\ Now.name \in Names
        /\ op = "unref" => Now.ino \in Others
        /\ op = "unlink" => Now.path \in Paths
  <2> DEFINE s == Now
  <2>1. s.op = op BY <1>1
  <2> HIDE DEF s
  <2>2. s \in NameSteps => /\ op \in {"add_to_dir", "make_file", "make_directory"}
                           /\ op = "add_to_dir" => s.dir \in Others /\ s.name \in Names
    BY <2>1 DEF NameSteps
  <2>3. s \in OtherSteps =>
        /\ op \in {"store", "remove_from_dir", "unref", "unlink"}
        /\ op = "store" => s.ino \in Others /\ s.buf \in Seq(CellValues)
        /\ op = "remove_from_dir" => s.dir \in Others /\ s.name \in Names
        /\ op = "unref" => s.ino \in Others
        /\ op = "unlink" => s.path \in Paths
    BY <2>1 DEF OtherSteps
  <2>4. s \in PlainSteps => s \in OtherSteps \/ (newino # NoInode /\ s \in NameSteps)
    BY DEF PlainSteps
  <2> QED BY <2>2, <2>3, <2>4 DEF s
<1> QED BY <1>1, <1>2, <1>3, <1>4, <1>5, <1>6, <1>7 DEF TypeOK

\* The call goes on with plain steps, or is over.
LEMMA GoOn ==
  ASSUME result = "running", NEW steps \in Seq(PlainSteps'), Continue(steps)
  PROVE  TodoOK' /\ result' # "seen"
<1>1. todo' = steps /\ result' = IF steps = <<>> THEN "ok" ELSE "running" BY DEF Continue
<1>2. todo' # <<>> => AtPlain'
  <2>1. SUFFICES ASSUME todo' # <<>> PROVE Head(todo') \in PlainSteps' /\ Tail(todo') \in Seq(PlainSteps')
    BY DEF AtPlain, Now, Rest
  <2> DEFINE S == PlainSteps'
  <2>2. steps \in Seq(S) /\ steps # <<>> BY <1>1, <2>1
  <2> HIDE DEF S
  <2>3. Head(steps) \in S /\ Tail(steps) \in Seq(S) BY <2>2, HeadTailProperties
  <2> QED BY <1>1, <2>3 DEF S
<1> QED BY <1>1, <1>2 DEF TodoOK

LEMMA SamePlainSteps == newino' = newino => PlainSteps' = PlainSteps
BY DEF PlainSteps, NameSteps, OtherSteps, Others, CellValues

\* The call goes on with writeinode.
LEMMA WriteGoesOn ==
  ASSUME NEW n \in Others, NEW buf \in Seq(CellValues), NEW r \in Seq(PlainSteps'),
         todo' = WriteInode(n, buf) \o r \/ (todo' = WriteInode(n, buf) /\ r = <<>>),
         result' = "running",
         inodes'[n].start = inodes[n].start, inodes'[n].len = inodes[n].len
  PROVE  TodoOK'
<1> DEFINE store == [op |-> "store", ino |-> n, buf |-> buf]
           resize == [op |-> "resize", ino |-> n, size |-> Len(buf)]
           S == PlainSteps'
<1>1. store \in S BY DEF PlainSteps, OtherSteps, Others, CellValues
<1>2. resize \in ResizeSteps /\ resize.size = Len(buf) /\ resize.ino = n
  <2>1. Len(buf) \in Nat BY LenProperties
  <2> QED BY <2>1 DEF ResizeSteps
<1>3. /\ todo' # <<>>
      /\ IF Len(buf) > inodes[n].len * Cells /\ inodes[n].start = NoBlock
         THEN /\ Head(todo') = [op |-> "alloc_space", blocks |-> BlocksFor(Len(buf))]
              /\ Tail(todo') # <<>> /\ Head(Tail(todo')) = resize /\ Tail(Tail(todo')) \in Seq(S)
         ELSE Head(todo') = resize /\ Tail(todo') \in Seq(S)
  <2>1. r \in Seq(S) OBVIOUS
  <2> HIDE DEF S
  <2> QED BY <1>1, <2>1, WriteInodeSteps
<1> HIDE DEF resize, S
<1>4. CASE Len(buf) > inodes[n].len * Cells /\ inodes[n].start = NoBlock
  <2>1. AtAllocSpace' BY <1>2, <1>3, <1>4 DEF AtAllocSpace, Now, Rest, BlocksFor, ResizeSteps, Others, S
  <2> QED BY <2>1 DEF TodoOK
<1>5. CASE ~(Len(buf) > inodes[n].len * Cells /\ inodes[n].start = NoBlock)
  <2>1. Now' = resize /\ Rest' \in Seq(PlainSteps') BY <1>3, <1>5 DEF S, Now, Rest
  <2>2. ~TakesChunk(Now)' BY <1>2, <1>5, <2>1 DEF TakesChunk
  <2>3. AtResize' BY <1>2, <2>1, <2>2 DEF AtResize, ResizeSteps, Others
  <2> QED BY <2>3 DEF TodoOK
<1> QED BY <1>4, <1>5

\* The program is killed: nothing of the disk changes.
LEMMA KilledInv ==
  ASSUME IInv, Killed, UNCHANGED <<inodes, disk, newino, chunk, calls>>
  PROVE  IInv'
<1>1. /\ todo' = <<>> /\ result' = "crash" /\ opens' = [n \in Inodes |-> 0]
      /\ "outgrown" \notin spoiled' => "outgrown" \notin spoiled
  BY DEF Killed, Done
<1>2. TypeOK' BY DEF IInv, TypeOK
<1>3. FreeOK' BY <1>1, Bounds DEF IInv, FreeOK
<1>4. TodoOK' /\ SeenOK' BY <1>1 DEF TodoOK, SeenOK
<1>5. "outgrown" \notin spoiled' => ExtentsOK'
  BY <1>1 DEF IInv, ExtentsOK, EndsBy, Apart
<1> QED BY <1>2, <1>3, <1>4, <1>5 DEF IInv

\* Steps that leave size and extent of every inode alone.
LEMMA SameExtents ==
  ASSUME ExtentsOK,
         \A n \in Inodes : inodes'[n].start = inodes[n].start /\ inodes'[n].len = inodes[n].len
  PROVE  ExtentsOK'
<1>1. Free \in Inodes /\ Others \subseteq Inodes BY Bounds DEF Others
<1>2. /\ inodes'[Free].start = inodes[Free].start /\ inodes'[Free].len = inodes[Free].len
      /\ \A n \in Others : inodes'[n].start = inodes[n].start /\ inodes'[n].len = inodes[n].len
  BY <1>1
<1>3. \A n \in Others : EndsBy(n, inodes[Free].start)' BY <1>2 DEF ExtentsOK, EndsBy
<1>4. \A m, n \in Others : m # n => Apart(inodes[m], inodes[n])' BY <1>2 DEF ExtentsOK, Apart
<1> QED BY <1>2, <1>3, <1>4 DEF ExtentsOK

\* alloc_inode takes an inode without links, which is not that of the free extent.
LEMMA AllocInodeInv ==
  ASSUME IInv, AllocInode
  PROVE  IInv'
<1> DEFINE unlinked == {n \in Inodes : inodes[n].links = 0}
<1>1. TypeOK /\ FreeOK BY DEF IInv
<1>2. /\ spoiled = {} /\ result = "running" /\ Rest \in Seq(NameSteps \cup OtherSteps)
      /\ Continue(Rest) /\ disk' = disk /\ calls' = calls /\ opens' = opens /\ ExtentsOK
  BY Reached DEF AllocInode, AtAllocInode, IInv
<1>3. CASE unlinked = {}
  <2>1. /\ spoiled' = {"full"} /\ inodes' = inodes /\ newino' = newino
    BY <1>2, <1>3 DEF AllocInode
  <2>2. TodoOK' /\ result' # "seen" BY <1>2, <2>1 DEF TodoOK, Continue
  <2>3. TypeOK' /\ FreeOK' BY <1>1, <1>2, <2>1 DEF TypeOK, FreeOK
  <2>4. ExtentsOK' BY <1>2, <2>1, SameExtents
  <2> QED BY <2>2, <2>3, <2>4 DEF IInv, SeenOK
<1>4. CASE unlinked # {}
  <2> DEFINE n == First(unlinked)
             new == Inode({}, 1, 0, NoBlock, 0)
  <2>1. /\ newino' = n /\ inodes' = [inodes EXCEPT ![n] = new]
        /\ "outgrown" \notin spoiled'
    BY <1>2, <1>4 DEF AllocInode
  <2>2. n \in unlinked
    <3>1. unlinked \in SUBSET Nat BY Bounds DEF Inodes
    <3> HIDE DEF unlinked
    <3> QED BY <1>4, <3>1, FirstIn
  <2>3. n \in Others /\ n # NoInode BY <1>1, <2>2, Bounds DEF FreeOK, Others
  <2> HIDE DEF n, unlinked
  <2>4. new \in InodeRecords /\ new.start = NoBlock /\ new.links = 1 BY DEF Inode, InodeRecords
  <2> HIDE DEF new
  <2>5. /\ inodes' \in [Inodes -> InodeRecords] /\ inodes'[n] = new
        /\ \A m \in Inodes : m # n => inodes'[m] = inodes[m]
    BY <1>1, <2>1, <2>3, <2>4 DEF TypeOK, Others
  <2>6. TypeOK' BY <1>1, <1>2, <2>1, <2>3, <2>5 DEF TypeOK
  <2>7. Free \in Inodes /\ Free # n BY <2>3, Bounds DEF Others
  <2>8. FreeOK' BY <1>1, <1>2, <2>5, <2>7 DEF FreeOK
  <2>9. TodoOK' /\ result' # "seen"
    <3>1. PlainSteps' = NameSteps \cup OtherSteps
      BY <2>1, <2>3 DEF PlainSteps, NameSteps, OtherSteps, Others, CellValues
    <3> QED BY <1>2, <3>1, GoOn
  <2>10. ExtentsOK'
    <3>1. inodes'[Free] = inodes[Free] BY <2>5, <2>7
    <3>2. \A m \in Others : m \in Inodes BY DEF Others
    <3>3. ASSUME NEW m \in Others PROVE EndsBy(m, inodes[Free].start)'
      BY <1>2, <2>4, <2>5, <3>1, <3>2 DEF EndsBy, ExtentsOK
    <3>4. ASSUME NEW k \in Others, NEW m \in Others, k # m PROVE Apart(inodes[k], inodes[m])'
      <4>1. CASE k = n \/ m = n BY <2>4, <2>5, <4>1 DEF Apart
      <4>2. CASE k # n /\ m # n
        <5>1. inodes'[k] = inodes[k] /\ inodes'[m] = inodes[m] BY <2>5, <3>2, <4>2
        <5> QED BY <1>2, <3>4, <5>1 DEF ExtentsOK, Apart
      <4> QED BY <4>1, <4>2
    <3> QED BY <1>2, <3>1, <3>3, <3>4 DEF ExtentsOK
  <2> QED BY <2>6, <2>8, <2>9, <2>10 DEF IInv, SeenOK
<1> QED BY <1>3, <1>4

\* alloc_space puts the new chunk between the extents in use and the free one.
LEMMA AllocSpaceInv ==
  ASSUME IInv, AllocSpace
  PROVE  IInv'
<1>1. /\ TypeOK /\ FreeOK /\ ExtentsOK /\ spoiled = {} /\ result = "running" /\ todo # <<>>
      /\ AtAllocSpace /\ disk' = disk /\ newino' = newino /\ calls' = calls
  BY Reached DEF AllocSpace, IInv
<1> DEFINE resize == Head(Rest)
           b == Now.blocks
<1>2. /\ Rest # <<>> /\ resize \in ResizeSteps /\ resize.size \in Nat /\ b = BlocksFor(resize.size)
      /\ Tail(Rest) \in Seq(PlainSteps')
  BY <1>1, SamePlainSteps DEF AtAllocSpace, ResizeSteps
<1>3. b \in Nat BY <1>2, BlocksForNat
<1>4. Free \in Inodes /\ inodes[Free] \in InodeRecords /\ inodes[Free].start \in Nat /\ inodes[Free].len \in Nat
  BY <1>1, Bounds DEF TypeOK, InodeRecords, ExtentsOK
<1>5. CASE /\ inodes[Free].len > b
           /\ chunk' = inodes[Free].start
           /\ inodes' = [inodes EXCEPT ![Free].start = @ + b, ![Free].len = @ - b]
           /\ Continue(Rest)
           /\ UNCHANGED <<opens, spoiled>>
  <2>1. /\ inodes' \in [Inodes -> InodeRecords]
        /\ inodes'[Free].start = inodes[Free].start + b /\ inodes'[Free].len = inodes[Free].len - b
        /\ inodes'[Free].links = inodes[Free].links
        /\ \A n \in Others : inodes'[n] = inodes[n]
    <3>1. /\ inodes[Free].start + b \in Nat \cup {NoBlock} /\ inodes[Free].len - b \in Nat
      BY <1>3, <1>4, <1>5
    <3> HIDE DEF b
    <3> QED BY <1>1, <1>4, <1>5, <3>1 DEF TypeOK, InodeRecords, Others
  <2>2. TypeOK' /\ FreeOK' BY <1>1, <1>5, <2>1 DEF TypeOK, FreeOK
  <2>3. ExtentsOK'
    <3>1. inodes'[Free].start # NoBlock BY <1>3, <1>4, <2>1 DEF NoBlock
    <3>2. inodes'[Free].start + inodes'[Free].len <= Blocks
      BY <1>1, <1>3, <1>4, <2>1, Bounds DEF ExtentsOK
    <3>3. ASSUME NEW n \in Others PROVE EndsBy(n, inodes[Free].start)'
      <4>1. EndsBy(n, inodes[Free].start) /\ n \in Inodes BY <1>1 DEF ExtentsOK, Others
      <4>2. inodes[n].start \in Nat \cup {NoBlock} /\ inodes[n].len \in Nat
        BY <1>1, <4>1 DEF TypeOK, InodeRecords
      <4> QED BY <1>3, <1>4, <2>1, <4>1, <4>2 DEF EndsBy, NoBlock
    <3>4. \A m, n \in Others : m # n => Apart(inodes[m], inodes[n])'
      BY <1>1, <2>1 DEF ExtentsOK, Apart
    <3> QED BY <3>1, <3>2, <3>3, <3>4 DEF ExtentsOK
  <2>4. PICK size \in Nat : size = resize.size BY <1>2
  <2>7. ChunkFor(size)'
    <3>1. chunk' + b <= inodes'[Free].start BY <1>3, <1>4, <1>5, <2>1
    <3>2. \A n \in Others : EndsBy(n, chunk)' BY <1>1, <1>5, <2>1 DEF EndsBy, ExtentsOK
    <3>3. chunk' \in Nat BY <1>4, <1>5
    <3>4. b = BlocksFor(size) BY <1>2, <2>4
    <3> HIDE DEF b
    <3> QED BY <3>1, <3>2, <3>3, <3>4 DEF ChunkFor, BlocksFor, Others
  <2>5. /\ todo' = Rest /\ result' = "running" BY <1>1, <1>2, <1>5 DEF Continue
  <2>6. AtResize'
    <3>1. Now' = resize /\ Rest' = Tail(Rest) BY <2>5 DEF Now, Rest
    <3>2. Now'.size = size /\ Now' \in ResizeSteps' BY <1>2, <2>4, <3>1 DEF ResizeSteps, Others
    <3>3. Rest' \in Seq(PlainSteps') BY <1>2, <3>1
    <3>4. ChunkFor(Now.size)' BY <2>7, <3>2 DEF ChunkFor
    <3> QED BY <3>2, <3>3, <3>4 DEF AtResize
  <2> QED BY <1>1, <2>2, <2>3, <2>5, <2>6 DEF IInv, TodoOK, SeenOK
<1>6. CASE Killed /\ UNCHANGED <<inodes, chunk>> BY <1>1, <1>6, KilledInv
<1>7. CASE /\ spoiled' = spoiled \cup {"full"}
           /\ Continue(Rest)
           /\ UNCHANGED <<inodes, opens>>
  <2>1. TypeOK' /\ FreeOK' BY <1>1, <1>7 DEF TypeOK, FreeOK
  <2>2. TodoOK' /\ result' # "seen" BY <1>1, <1>7 DEF TodoOK, Continue
  <2>3. ExtentsOK' BY <1>1, <1>7, SameExtents
  <2> QED BY <2>1, <2>2, <2>3 DEF IInv, SeenOK
<1> QED BY <1>5, <1>6, <1>7 DEF AllocSpace

\* The extent a file gets.
LEMMA ExtentIs ==
  ASSUME IInv, At("resize")
  PROVE  LET i == inodes[Now.ino]
             e == Extent(i, Now.size)
         IN /\ e.start \in Nat \cup {NoBlock} /\ e.len \in Nat
            /\ \/ e.start = NoBlock
               \/ e.start = i.start
               \/ e.start = chunk /\ e.len = BlocksFor(Now.size) /\ TakesChunk(Now)
<1> DEFINE i == inodes[Now.ino]
           size == Now.size
           e == Extent(i, size)
<1>1. TypeOK /\ AtResize /\ spoiled = {} BY Reached DEF IInv
<1>2. Now.ino \in Inodes /\ size \in Nat BY <1>1 DEF AtResize, ResizeSteps, Others
<1>3. i.start \in Nat \cup {NoBlock} /\ i.len \in Nat BY <1>1, <1>2 DEF TypeOK, InodeRecords
<1>4. BlocksFor(size) \in Nat BY <1>2, BlocksForNat
<1>5. TakesChunk(Now) => chunk \in Nat BY <1>1 DEF AtResize, ChunkFor
<1>6. TakesChunk(Now) <=> (size > i.len * Cells /\ i.start = NoBlock) BY DEF TakesChunk
<1> HIDE DEF i, size
<1>7. CASE size = 0 /\ i.size > 0
  <2>1. ~(size > i.len * Cells)
    <3>1. i.len * Cells \in Nat BY <1>3, Bounds
    <3> QED BY <1>7, <3>1
  <2>2. e = [start |-> NoBlock, len |-> 0] BY <1>7, <2>1 DEF Extent
  <2> QED BY <2>2 DEF i, size
<1>8. CASE ~(size = 0 /\ i.size > 0) /\ size > i.len * Cells /\ i.start = NoBlock
  <2>1. e = [start |-> chunk, len |-> BlocksFor(size)] BY <1>8 DEF Extent
  <2> QED BY <1>4, <1>5, <1>6, <1>8, <2>1 DEF i, size
<1>9. CASE ~(size = 0 /\ i.size > 0) /\ size > i.len * Cells /\ i.start # NoBlock
  <2>1. e = [start |-> i.start, len |-> BlocksFor(size)] BY <1>9 DEF Extent
  <2> QED BY <1>3, <1>4, <2>1 DEF i, size
<1>10. CASE ~(size = 0 /\ i.size > 0) /\ ~(size > i.len * Cells)
  <2>1. e = [start |-> i.start, len |-> i.len] BY <1>10 DEF Extent
  <2> QED BY <1>3, <2>1 DEF i, size
<1> QED BY <1>7, <1>8, <1>9, <1>10

\* An inode gets its size and extent.
LEMMA ResizeInv ==
  ASSUME IInv, Resize
  PROVE  IInv'
<1> DEFINE n == Now.ino
           i == inodes[n]
           e == Extent(i, Now.size)
<1>1. /\ TypeOK /\ FreeOK /\ ExtentsOK /\ spoiled = {} /\ result = "running" /\ AtResize
      /\ disk' = disk /\ newino' = newino /\ calls' = calls /\ opens' = opens
      /\ Continue(Rest)
      /\ spoiled' = IF i.start # NoBlock /\ e.len > i.len THEN {"outgrown"} ELSE {}
  BY Reached DEF Resize, IInv
<1>2. /\ n \in Others /\ n \in Inodes /\ n # Free /\ Now.size \in Nat /\ Rest \in Seq(PlainSteps')
      /\ TakesChunk(Now) => ChunkFor(Now.size)
  BY <1>1, SamePlainSteps DEF AtResize, ResizeSteps, Others
<1>3. i \in InodeRecords /\ i.start \in Nat \cup {NoBlock} /\ i.len \in Nat
  BY <1>1, <1>2 DEF TypeOK, InodeRecords
<1>4. /\ e.start \in Nat \cup {NoBlock} /\ e.len \in Nat
      /\ \/ e.start = NoBlock
         \/ e.start = i.start
         \/ e.start = chunk /\ e.len = BlocksFor(Now.size) /\ TakesChunk(Now)
  BY ExtentIs DEF Resize
<1>5. inodes' = [inodes EXCEPT ![n].size = Now.size, ![n].start = e.start, ![n].len = e.len]
  BY DEF Resize
<1> HIDE DEF n, i, e
<1>6. /\ inodes' \in [Inodes -> InodeRecords]
      /\ inodes'[n].start = e.start /\ inodes'[n].len = e.len
      /\ \A m \in Inodes : m # n => inodes'[m] = inodes[m]
  BY <1>1, <1>2, <1>4, <1>5 DEF TypeOK, InodeRecords
<1>7. Free \in Inodes /\ inodes'[Free] = inodes[Free] BY <1>2, <1>6, Bounds
<1>8. TypeOK' /\ FreeOK' BY <1>1, <1>6, <1>7 DEF TypeOK, FreeOK
<1>9. TodoOK' /\ result' # "seen" BY <1>1, <1>2, GoOn
<1>10. "outgrown" \notin spoiled' => ExtentsOK'
  <2>1. SUFFICES ASSUME ~(i.start # NoBlock /\ e.len > i.len) PROVE ExtentsOK'
    BY <1>1
  <2> DEFINE free == inodes[Free].start
  <2>2. free \in Nat /\ free # NoBlock
    BY <1>1, <1>7 DEF TypeOK, InodeRecords, ExtentsOK
  <2>3. \A m \in Others : m \in Inodes BY DEF Others
  <2>4. \/ e.start = NoBlock
        \/ i.start # NoBlock /\ e.start = i.start /\ e.len <= i.len
        \/ ChunkFor(Now.size) /\ e.start = chunk /\ e.len = BlocksFor(Now.size) /\ chunk \in Nat
    BY <1>2, <1>3, <1>4, <2>1 DEF ChunkFor
  <2>5. i = inodes[n] BY DEF i
  <2>6. ASSUME NEW m \in Others PROVE EndsBy(m, inodes[Free].start)'
    <3>1. CASE m # n
      <4>1. inodes'[m] = inodes[m] BY <1>6, <2>3, <3>1
      <4> QED BY <1>1, <1>7, <4>1 DEF EndsBy, ExtentsOK
    <3>2. CASE m = n
      <4>1. EndsBy(n, free) BY <1>1, <1>2 DEF ExtentsOK
      <4>2. i.start # NoBlock => i.start + i.len <= free BY <2>5, <4>1 DEF EndsBy
      <4>3. ChunkFor(Now.size) => chunk + BlocksFor(Now.size) <= free BY DEF ChunkFor
      <4> HIDE DEF free
      <4>4. e.start # NoBlock => e.start + e.len <= free BY <1>3, <1>4, <2>2, <2>4, <4>2, <4>3
      <4> QED BY <1>6, <1>7, <3>2, <4>4 DEF EndsBy, free
    <3> QED BY <3>1, <3>2
  <2>7. ASSUME NEW m \in Others, m # n
        PROVE  Apart(inodes'[m], inodes'[n]) /\ Apart(inodes'[n], inodes'[m])
    <3> DEFINE j == inodes[m]
    <3>1. inodes'[m] = j BY <1>6, <2>3, <2>7
    <3>2. Apart(i, j) BY <1>1, <1>2, <2>5, <2>7 DEF ExtentsOK
    <3>3. j.start \in Nat \cup {NoBlock} /\ j.len \in Nat BY <1>1, <2>3 DEF TypeOK, InodeRecords
    <3>4. ChunkFor(Now.size) /\ j.start # NoBlock => j.start + j.len <= chunk
      BY DEF ChunkFor, EndsBy
    <3>5. j.start # NoBlock /\ i.start # NoBlock =>
            i.start + i.len <= j.start \/ j.start + j.len <= i.start \/ i.len = 0 \/ j.len = 0
      BY <3>2 DEF Apart
    <3> HIDE DEF j
    <3>6. e.start # NoBlock /\ j.start # NoBlock =>
            e.start + e.len <= j.start \/ j.start + j.len <= e.start \/ e.len = 0 \/ j.len = 0
      BY <1>3, <1>4, <2>4, <3>3, <3>4, <3>5
    <3> QED BY <1>6, <3>1, <3>6 DEF Apart
  <2>8. ASSUME NEW k \in Others, NEW m \in Others, k # m PROVE Apart(inodes[k], inodes[m])'
    <3>1. CASE k = n BY <2>7, <2>8, <3>1
    <3>2. CASE m = n BY <2>7, <2>8, <3>2
    <3>3. CASE k # n /\ m # n
      <4>1. inodes'[k] = inodes[k] /\ inodes'[m] = inodes[m] BY <1>6, <2>3, <3>3
      <4> QED BY <1>1, <2>8, <4>1 DEF ExtentsOK, Apart
    <3> QED BY <3>1, <3>2, <3>3
  <2> QED BY <1>1, <1>7, <2>6, <2>8 DEF ExtentsOK
<1> QED BY <1>8, <1>9, <1>10 DEF IInv, SeenOK

\* The content goes where the inode says.
LEMMA StoreInv ==
  ASSUME IInv, Store
  PROVE  IInv'
<1>1. /\ TypeOK /\ FreeOK /\ ExtentsOK /\ spoiled = {} /\ result = "running"
      /\ Now.ino \in Others /\ Now.buf \in Seq(CellValues) /\ Rest \in Seq(PlainSteps)
      /\ inodes' = inodes /\ newino' = newino /\ calls' = calls /\ opens' = opens
      /\ spoiled' = spoiled /\ Continue(Rest)
  BY Reached DEF Store, IInv
<1>2. TodoOK' /\ result' # "seen" BY <1>1, SamePlainSteps, GoOn
<1>3. TypeOK'
  <2> DEFINE buf == Now.buf
             at == inodes[Now.ino].start * Cells
  <2>1. at \in Int
    <3>1. Now.ino \in Inodes BY <1>1 DEF Others
    <3>2. inodes[Now.ino].start \in Nat \cup {NoBlock} BY <1>1, <3>1 DEF TypeOK, InodeRecords
    <3> QED BY <3>2, Bounds DEF NoBlock
  <2>2. disk' = Written(disk, at, buf) BY DEF Store
  <2>3. buf \in Seq(CellValues) /\ Len(buf) \in Nat /\ DOMAIN buf = 1 .. Len(buf) BY <1>1
  <2> HIDE DEF at, buf
  <2>4. ASSUME NEW a \in DOMAIN disk' PROVE disk'[a] \in CellValues
    <3>1. /\ a \in DOMAIN disk \/ a \in at .. at + Len(buf) - 1
          /\ disk'[a] = IF a - at + 1 \in DOMAIN buf THEN buf[a - at + 1] ELSE disk[a]
      BY <2>2, <2>4 DEF Written
    <3>2. CASE a - at + 1 \in DOMAIN buf
      <4>1. buf[a - at + 1] \in CellValues BY <2>3, <3>2
      <4> QED BY <3>1, <3>2, <4>1
    <3>3. CASE a - at + 1 \notin DOMAIN buf
      <4>1. a \notin at .. at + Len(buf) - 1 BY <2>1, <2>3, <3>3
      <4> QED BY <1>1, <3>1, <3>3, <4>1 DEF TypeOK
    <3> QED BY <3>2, <3>3
  <2> QED BY <1>1, <2>4 DEF TypeOK
<1>4. FreeOK' /\ ExtentsOK' BY <1>1, SameExtents DEF FreeOK
<1> QED BY <1>2, <1>3, <1>4 DEF IInv, SeenOK

\* Steps that change flags and links of an inode other than that of the free extent.
LEMMA OneInode ==
  ASSUME TypeOK, FreeOK, NEW n \in Others, NEW r \in InodeRecords,
         inodes' = [inodes EXCEPT ![n] = r],
         r.size = inodes[n].size, r.start = inodes[n].start, r.len = inodes[n].len
  PROVE  /\ inodes' \in [Inodes -> InodeRecords] /\ inodes'[Free].links # 0
         /\ \A m \in Inodes : /\ inodes'[m].size = inodes[m].size /\ inodes'[m].start = inodes[m].start
                              /\ inodes'[m].len = inodes[m].len
<1>1. n \in Inodes /\ n # Free /\ Free \in Inodes BY Bounds DEF Others
<1>2. inodes'[n] = r /\ \A m \in Inodes : m # n => inodes'[m] = inodes[m] BY <1>1 DEF TypeOK
<1> QED BY <1>1, <1>2 DEF TypeOK, FreeOK

LEMMA SetLinks ==
  ASSUME TypeOK, FreeOK, NEW n \in Others, NEW k \in Nat,
         inodes' = [inodes EXCEPT ![n].links = k]
  PROVE  /\ inodes' \in [Inodes -> InodeRecords] /\ inodes'[Free].links # 0
         /\ \A m \in Inodes : /\ inodes'[m].size = inodes[m].size /\ inodes'[m].start = inodes[m].start
                              /\ inodes'[m].len = inodes[m].len /\ inodes'[m].flags = inodes[m].flags
<1> DEFINE r == [inodes[n] EXCEPT !.links = k]
<1>1. n \in Inodes /\ inodes[n] \in InodeRecords BY DEF TypeOK, Others
<1>2. r \in InodeRecords /\ r.flags = inodes[n].flags BY <1>1 DEF InodeRecords
<1>3. r.size = inodes[n].size /\ r.start = inodes[n].start /\ r.len = inodes[n].len
  BY <1>1 DEF InodeRecords
<1>4. inodes' = [inodes EXCEPT ![n] = r] BY <1>1 DEF TypeOK
<1>5. \A m \in Inodes : inodes'[m].flags = inodes[m].flags
  <2> HIDE DEF r
  <2> QED BY <1>1, <1>2, <1>4 DEF TypeOK
<1> HIDE DEF r
<1> QED BY <1>2, <1>3, <1>4, <1>5, OneInode

LEMMA LinkCounts ==
  ASSUME NEW k \in Nat
  PROVE  (k + LinkWrap - 1) % LinkWrap \in Nat /\ (k + 1) % LinkWrap \in Nat
<1>1. \A a, b \in Nat : b > 0 => a % b \in Nat OBVIOUS
<1>2. k + LinkWrap - 1 \in Nat /\ k + 1 \in Nat /\ LinkWrap \in Nat /\ LinkWrap > 0 BY Bounds
<1> QED BY <1>1, <1>2

\* A directory loses a link.
LEMMA UnrefInv ==
  ASSUME IInv, Unref
  PROVE  IInv'
<1>1. /\ TypeOK /\ FreeOK /\ ExtentsOK /\ spoiled = {} /\ result = "running"
      /\ Now.ino \in Others /\ Rest \in Seq(PlainSteps)
      /\ disk' = disk /\ newino' = newino /\ calls' = calls /\ opens' = opens
      /\ spoiled' = spoiled /\ Continue(Rest)
  BY Reached DEF Unref, IInv
<1>2. TodoOK' /\ result' # "seen" BY <1>1, SamePlainSteps, GoOn
<1>3. PICK k \in Nat : inodes' = [inodes EXCEPT ![Now.ino].links = k]
  <2>1. inodes[Now.ino].links \in Nat BY <1>1 DEF TypeOK, InodeRecords, Others
  <2> QED BY <2>1, LinkCounts DEF Unref
<1>4. /\ inodes' \in [Inodes -> InodeRecords] /\ inodes'[Free].links # 0
      /\ \A m \in Inodes : inodes'[m].start = inodes[m].start /\ inodes'[m].len = inodes[m].len
  BY <1>1, <1>3, SetLinks
<1>5. TypeOK' /\ FreeOK' BY <1>1, <1>4 DEF TypeOK, FreeOK
<1>6. ExtentsOK' BY <1>1, <1>4, SameExtents
<1> QED BY <1>2, <1>5, <1>6 DEF IInv, SeenOK

\* The new inode becomes an open file.
LEMMA MakeFileInv ==
  ASSUME IInv, MakeFile
  PROVE  IInv'
<1>1. /\ TypeOK /\ FreeOK /\ ExtentsOK /\ spoiled = {} /\ result = "running"
      /\ newino \in Others /\ Rest \in Seq(PlainSteps)
      /\ disk' = disk /\ newino' = newino /\ calls' = calls
      /\ opens' = [opens EXCEPT ![newino] = @ + 1]
      /\ spoiled' = spoiled /\ Continue(Rest)
  BY Reached DEF MakeFile, IInv
<1>2. TodoOK' /\ result' # "seen" BY <1>1, SamePlainSteps, GoOn
<1>3. newino \in Inodes /\ newino # Free /\ inodes[newino] \in InodeRecords /\ inodes[newino].links \in Nat
  BY <1>1 DEF TypeOK, InodeRecords, Others
<1> DEFINE k == (inodes[newino].links + 1) % LinkWrap
           r == [inodes[newino] EXCEPT !.flags = {}, !.links = k]
<1>4. k \in Nat BY <1>3, LinkCounts
<1>5. inodes' = [inodes EXCEPT ![newino] = r] BY <1>1, <1>3 DEF MakeFile, TypeOK
<1> HIDE DEF k
<1>6. r \in InodeRecords BY <1>3, <1>4 DEF InodeRecords
<1>7. r.size = inodes[newino].size /\ r.start = inodes[newino].start /\ r.len = inodes[newino].len
  BY <1>3 DEF InodeRecords
<1> HIDE DEF r
<1>8. /\ inodes' \in [Inodes -> InodeRecords] /\ inodes'[Free].links # 0
      /\ \A m \in Inodes : inodes'[m].start = inodes[m].start /\ inodes'[m].len = inodes[m].len
  BY <1>1, <1>5, <1>6, <1>7, OneInode
<1>9. opens' \in [Inodes -> Int] /\ opens'[Free] = 0 BY <1>1, <1>3, Bounds DEF FreeOK
<1>10. TypeOK' /\ FreeOK' BY <1>1, <1>8, <1>9 DEF TypeOK, FreeOK
<1>11. ExtentsOK' BY <1>1, <1>8, SameExtents
<1> QED BY <1>2, <1>10, <1>11 DEF IInv, SeenOK

\* The new inode becomes a directory, and gets a header.
LEMMA MakeDirectoryInv ==
  ASSUME IInv, MakeDirectory
  PROVE  IInv'
<1> DEFINE buf == <<Header(0)>>
           r == [inodes[newino] EXCEPT !.flags = {"dir"}]
<1>1. /\ TypeOK /\ FreeOK /\ ExtentsOK /\ spoiled = {} /\ result = "running" /\ newino \in Others
      /\ disk' = disk /\ newino' = newino /\ calls' = calls /\ opens' = opens
      /\ spoiled' = spoiled /\ Continue(WriteInode(newino, buf))
  BY Reached DEF MakeDirectory, IInv
<1>2. newino \in Inodes /\ inodes[newino] \in InodeRecords BY <1>1 DEF TypeOK, Others
<1>3. inodes' = [inodes EXCEPT ![newino] = r] BY <1>2 DEF MakeDirectory, TypeOK
<1>4. r \in InodeRecords BY <1>2 DEF InodeRecords
<1>5. r.size = inodes[newino].size /\ r.start = inodes[newino].start /\ r.len = inodes[newino].len
  BY <1>2 DEF InodeRecords
<1> HIDE DEF r
<1>6. /\ inodes' \in [Inodes -> InodeRecords] /\ inodes'[Free].links # 0
      /\ \A m \in Inodes : inodes'[m].start = inodes[m].start /\ inodes'[m].len = inodes[m].len
  BY <1>1, <1>3, <1>4, <1>5, OneInode
<1>7. TypeOK' /\ FreeOK' BY <1>1, <1>6 DEF TypeOK, FreeOK
<1>8. ExtentsOK' BY <1>1, <1>6, SameExtents
<1>9. buf \in Seq(CellValues)
  <2>1. Header(0) \in CellValues BY DEF Header, CellValues
  <2> QED BY <2>1
<1>10. TodoOK' /\ result' = "running"
  <2>1. todo' = WriteInode(newino, buf) BY <1>1 DEF Continue
  <2>2. <<>> \in Seq(PlainSteps') OBVIOUS
  <2> DEFINE n == newino
  <2>3. inodes'[n].start = inodes[n].start /\ inodes'[n].len = inodes[n].len BY <1>2, <1>6
  <2>4. todo' # <<>>
    <3>1. [op |-> "store", ino |-> n, buf |-> buf] \in OtherSteps BY <1>1, <1>9 DEF OtherSteps
    <3>2. <<>> \in Seq(OtherSteps) OBVIOUS
    <3> HIDE DEF buf, n
    <3> QED BY <2>1, <3>1, <3>2, WriteInodeSteps DEF n
  <2>5. result' = "running" BY <1>1, <2>1, <2>4 DEF Continue
  <2> HIDE DEF buf
  <2> QED BY <1>1, <1>9, <2>1, <2>2, <2>3, <2>5, WriteGoesOn
<1> QED BY <1>7, <1>8, <1>10 DEF IInv, SeenOK

\* Steps that only say how the call goes on.
LEMMA SameDisk ==
  ASSUME IInv, UNCHANGED <<inodes, disk, newino, calls, opens>>,
         "outgrown" \notin spoiled' => "outgrown" \notin spoiled, TodoOK', SeenOK'
  PROVE  IInv'
<1>1. TypeOK' /\ FreeOK' BY DEF IInv, TypeOK, FreeOK
<1>2. "outgrown" \notin spoiled' => ExtentsOK' BY SameExtents DEF IInv
<1> QED BY <1>1, <1>2 DEF IInv

\* A directory with an entry more is one.
LEMMA WithEntryOK ==
  ASSUME NEW buf \in Seq(CellValues), buf # <<>>, buf[1].kind = "header",
         NEW n \in Others, NEW name \in Names
  PROVE  WithEntry(buf, n, name) \in Seq(CellValues)
<1> DEFINE h == [buf[1] EXCEPT !.count = @ + 1]
           e == Entry(n, name)
<1>1. 1 \in 1 .. Len(buf) /\ DOMAIN buf = 1 .. Len(buf) OBVIOUS
<1>2. buf[1] \in CellValues BY <1>1
<1>3. buf[1] \in [kind : {"header"}, count : Nat] BY <1>2 DEF CellValues
<1>4. buf[1].count + 1 \in Nat BY <1>3
<1>5. h \in CellValues BY <1>3, <1>4 DEF CellValues
<1>6. e \in CellValues BY DEF Entry, CellValues
<1>7. [buf EXCEPT ![1].count = @ + 1] = [buf EXCEPT ![1] = h] BY <1>1
<1> HIDE DEF h, e
<1>8. [buf EXCEPT ![1] = h] \in Seq(CellValues) BY <1>1, <1>5, ExceptSeq
<1>9. Append([buf EXCEPT ![1] = h], e) \in Seq(CellValues) BY <1>6, <1>8, AppendProperties
<1> QED BY <1>7, <1>9 DEF WithEntry, e

\* One with an entry less, too.
LEMMA WithoutEntryOK ==
  ASSUME NEW buf \in Seq(CellValues), NEW i \in 1 .. Len(buf)
  PROVE  WithoutEntry(buf, i) \in Seq(CellValues)
<1>1. Len(buf) \in Nat /\ i \in Int /\ i + 2 \in Int /\ \A j \in 1 .. Len(buf) : buf[j] \in CellValues
  OBVIOUS
<1>2. SubSeq(buf, 1, i) \in Seq(CellValues)
  <2>1. \A j \in 1 .. i : buf[j] \in CellValues BY <1>1
  <2> QED BY <1>1, <2>1, SubSeqProperties
<1>3. SubSeq(buf, i + 2, Len(buf)) \in Seq(CellValues)
  <2>1. \A j \in i + 2 .. Len(buf) : buf[j] \in CellValues BY <1>1
  <2> QED BY <1>1, <2>1, SubSeqProperties
<1> QED BY <1>2, <1>3, ConcatProperties DEF WithoutEntry

\* writeinode, another step, and what is left.
LEMMA WriteAndMore ==
  ASSUME NEW n, NEW buf, NEW S, NEW s \in S, NEW r \in Seq(S)
  PROVE  WriteInode(n, buf) \o <<s>> \o r = WriteInode(n, buf) \o (<<s>> \o r)
<1> DEFINE alloc == [op |-> "alloc_space", blocks |-> BlocksFor(Len(buf))]
           resize == [op |-> "resize", ino |-> n, size |-> Len(buf)]
           store == [op |-> "store", ino |-> n, buf |-> buf]
           T == {alloc, resize, store} \cup S
           w == WriteInode(n, buf)
<1>1. <<resize, store>> \in Seq(T) /\ <<alloc>> \in Seq(T) /\ <<>> \in Seq(T) /\ <<s>> \in Seq(T) OBVIOUS
<1>2. r \in Seq(T) BY SeqMonotonic
<1>3. w = <<alloc>> \o <<resize, store>> \/ w = <<>> \o <<resize, store>> BY DEF WriteInode
<1> HIDE DEF alloc, resize, store, w
<1>4. w \in Seq(T)
  <2> HIDE DEF T
  <2> QED BY <1>1, <1>3, ConcatProperties
<1>5. (w \o <<s>>) \o r = w \o (<<s>> \o r)
  <2> HIDE DEF T
  <2> QED BY <1>1, <1>2, <1>4, ConcatAssociative
<1> QED BY <1>5 DEF w

LEMMA AddToDirInv ==
  ASSUME IInv, AddToDir
  PROVE  IInv'
<1> DEFINE d == Now.dir
           buf == Content(d)
           new == WithEntry(buf, newino, Now.name)
<1>1. /\ TypeOK /\ spoiled = {} /\ result = "running" /\ newino \in Others
      /\ d \in Others /\ d \in Inodes /\ Now.name \in Names /\ Rest \in Seq(PlainSteps')
      /\ UNCHANGED <<inodes, disk, newino, calls, opens>>
      /\ "outgrown" \notin spoiled
  BY Reached, SamePlainSteps DEF AddToDir, IInv, Others
<1>2. TodoOK' /\ result' # "seen"
  <2>1. CASE Formatted(d) /\ Matches(buf, 2, Now.name) = {}
    <3>1. Continue(WriteInode(d, new) \o Rest) BY <2>1 DEF AddToDir
    <3>2. buf \in Seq(CellValues) /\ buf # <<>> /\ buf[1].kind = "header"
      BY <1>1, <2>1, ContentOK DEF Formatted
    <3> HIDE DEF buf, d
    <3>3. new \in Seq(CellValues) BY <1>1, <3>2, WithEntryOK
    <3> HIDE DEF new
    <3>4. todo' = WriteInode(d, new) \o Rest /\ todo' # <<>>
      <4>1. todo' = WriteInode(d, new) \o Rest BY <3>1 DEF Continue
      <4>2. [op |-> "store", ino |-> d, buf |-> new] \in PlainSteps'
        BY <1>1, <3>3 DEF PlainSteps, OtherSteps, Others, CellValues
      <4> DEFINE S == PlainSteps'
      <4>3. Rest \in Seq(S) /\ [op |-> "store", ino |-> d, buf |-> new] \in S BY <1>1, <4>2
      <4> HIDE DEF S
      <4> QED BY <4>1, <4>3, WriteInodeSteps
    <3>5. result' = "running" BY <1>1, <3>1, <3>4 DEF Continue
    <3>6. TodoOK'
      <4>1. inodes'[d].start = inodes[d].start /\ inodes'[d].len = inodes[d].len BY <1>1
      <4> QED BY <1>1, <3>3, <3>4, <3>5, <4>1, WriteGoesOn
    <3> QED BY <3>5, <3>6
  <2>2. CASE Done("fail") BY <2>2 DEF Done, TodoOK
  <2>3. CASE Continue(Rest) BY <1>1, <2>3, GoOn
  <2> QED BY <2>1, <2>2, <2>3 DEF AddToDir
<1>3. "outgrown" \notin spoiled' BY <1>1 DEF AddToDir
<1> QED BY <1>1, <1>2, <1>3, SameDisk DEF SeenOK

LEMMA RemoveFromDirInv ==
  ASSUME IInv, RemoveFromDir
  PROVE  IInv'
<1> DEFINE d == Now.dir
           buf == Content(d)
           found == IF Formatted(d) THEN Matches(buf, 2, Now.name) ELSE {}
           new == WithoutEntry(buf, First(found))
           unref == [op |-> "unref", ino |-> d]
<1>1. /\ TypeOK /\ spoiled = {} /\ result = "running"
      /\ d \in Others /\ d \in Inodes /\ Rest \in Seq(PlainSteps')
      /\ UNCHANGED <<inodes, disk, newino, calls, opens>>
      /\ "outgrown" \notin spoiled
  BY Reached, SamePlainSteps DEF RemoveFromDir, IInv, Others
<1>2. CASE found = {}
  <2>1. Continue(Rest) /\ "outgrown" \notin spoiled' BY <1>1, <1>2 DEF RemoveFromDir
  <2>2. TodoOK' /\ result' # "seen" BY <1>1, <2>1, GoOn
  <2> QED BY <1>1, <2>1, <2>2, SameDisk DEF SeenOK
<1>3. CASE found # {}
  <2>1. Continue(WriteInode(d, new) \o <<unref>> \o Rest) /\ spoiled' = spoiled
    BY <1>3 DEF RemoveFromDir
  <2>2. buf \in Seq(CellValues) BY <1>1, ContentOK
  <2>3. found \in SUBSET Nat /\ found \subseteq 1 .. Len(buf) - 1
    <3>1. found \subseteq EntriesOf(buf) BY DEF Matches
    <3>2. EntriesOf(buf) \subseteq 1 .. Len(buf) - 1 BY DEF EntriesOf
    <3>3. 1 .. Len(buf) - 1 \in SUBSET Nat BY <2>2
    <3> QED BY <3>1, <3>2, <3>3
  <2>4. First(found) \in 1 .. Len(buf)
    <3> HIDE DEF found, buf
    <3>1. First(found) \in found BY <1>3, <2>3, FirstIn
    <3>2. First(found) \in 1 .. Len(buf) - 1 BY <2>3, <3>1
    <3>3. Len(buf) \in Nat BY <2>2
    <3> QED BY <3>2, <3>3
  <2> HIDE DEF found, buf, d
  <2>5. new \in Seq(CellValues) BY <2>2, <2>4, WithoutEntryOK
  <2> HIDE DEF new
  <2> DEFINE S == PlainSteps'
  <2>6. unref \in S /\ [op |-> "store", ino |-> d, buf |-> new] \in S
    BY <1>1, <2>5 DEF PlainSteps, OtherSteps, Others, CellValues
  <2> HIDE DEF S
  <2>7. Rest \in Seq(S) BY <1>1 DEF S
  <2> HIDE DEF unref
  <2>8. <<unref>> \o Rest \in Seq(S) BY <2>6, <2>7, Rests
  <2>9. todo' = WriteInode(d, new) \o (<<unref>> \o Rest)
    <3>1. todo' = WriteInode(d, new) \o <<unref>> \o Rest BY <2>1 DEF Continue
    <3> QED BY <2>6, <2>7, <3>1, WriteAndMore
  <2>10. todo' # <<>> BY <2>6, <2>8, <2>9, WriteInodeSteps
  <2>11. result' = "running" BY <1>1, <2>1, <2>9, <2>10 DEF Continue
  <2>12. TodoOK'
    <3>1. inodes'[d].start = inodes[d].start /\ inodes'[d].len = inodes[d].len BY <1>1
    <3>2. <<unref>> \o Rest \in Seq(PlainSteps') BY <2>8 DEF S
    <3> QED BY <1>1, <2>5, <2>9, <2>11, <3>1, <3>2, WriteGoesOn
  <2> QED BY <1>1, <2>1, <2>11, <2>12, SameDisk DEF SeenOK
<1> QED BY <1>2, <1>3

\* rename takes away the name that link has left, or finds it gone.
LEMMA UnlinkRenamedInv ==
  ASSUME IInv, UnlinkRenamed
  PROVE  IInv'
<1> DEFINE p == Now.path
           remove == [op |-> "remove_from_dir", dir |-> GetParent(p), name |-> Last(p)]
<1>1. /\ TypeOK /\ spoiled = {} /\ result = "running" /\ p \in Paths
      /\ UNCHANGED <<inodes, disk, newino, chunk, calls>>
  BY Reached DEF UnlinkRenamed, IInv
<1>2. \/ Killed
      \/ UNCHANGED <<opens, spoiled>> /\ \E r \in {"ok", "fail"} : Done(r)
      \/ UNCHANGED <<opens, spoiled>> /\ GetInode(p) # NoInode /\ Continue(<<remove>>)
  BY DEF UnlinkRenamed
<1>3. CASE Killed BY <1>1, <1>3, KilledInv
<1>4. CASE UNCHANGED <<opens, spoiled>> /\ \E r \in {"ok", "fail"} : Done(r)
  <2>1. todo' = <<>> /\ result' # "seen" BY <1>4 DEF Done
  <2> QED BY <1>1, <1>4, <2>1, SameDisk DEF SeenOK, TodoOK
<1>5. CASE UNCHANGED <<opens, spoiled>> /\ GetInode(p) # NoInode /\ Continue(<<remove>>)
  <2>1. GetParent(p) \in Others /\ Last(p) \in Names
    BY <1>1, <1>5, LookupIsOther, ParentFinds
  <2>2. remove \in PlainSteps' BY <2>1 DEF PlainSteps, OtherSteps, Others
  <2>3. <<remove>> \in Seq(PlainSteps') BY <2>2
  <2>4. TodoOK' /\ result' # "seen"
    <3> HIDE DEF remove
    <3> QED BY <1>1, <1>5, <2>3, GoOn
  <2> QED BY <1>1, <1>5, <2>4, SameDisk DEF SeenOK
<1> QED BY <1>2, <1>3, <1>4, <1>5

-----------------------------------------------------------------------------
(***************************************************************************)
(* The calls.                                                              *)
(***************************************************************************)

\* Nothing changes that the invariant is about, but how often there were calls, and what
\* the call answered.
LEMMA KeptInv ==
  ASSUME IInv, UNCHANGED <<inodes, disk, todo, newino, chunk, opens, seen, spoiled>>,
         calls' \in Nat, result' = result \/ result = "seen"
  PROVE  IInv'
<1>1. TypeOK' /\ FreeOK' BY DEF IInv, TypeOK, FreeOK
<1>2. "outgrown" \notin spoiled' => ExtentsOK' BY SameExtents DEF IInv
<1>3. TodoOK'
  <2>1. todo # <<>> => result' = "running" BY DEF IInv, TodoOK
  <2>2. Now' = Now /\ Rest' = Rest /\ PlainSteps' = PlainSteps BY SamePlainSteps DEF Now, Rest
  <2>3. AtAllocInode => AtAllocInode' BY <2>2 DEF AtAllocInode, NameSteps, OtherSteps, Others, CellValues
  <2>4. AtAllocSpace => AtAllocSpace' BY <2>2 DEF AtAllocSpace, ResizeSteps, Others
  <2>5. AtResize => AtResize'
    BY <2>2 DEF AtResize, ResizeSteps, Others, TakesChunk, ChunkFor, EndsBy
  <2>6. AtPlain => AtPlain' BY <2>2 DEF AtPlain
  <2> QED BY <2>1, <2>3, <2>4, <2>5, <2>6 DEF IInv, TodoOK
<1>4. SeenOK'
  <2>1. SUFFICES ASSUME result' = "seen", NEW p \in Paths, seen'[p] # Absent
                 PROVE  GetInode(p)' \in Others
    BY DEF SeenOK, Others
  <2>2. GetInode(p) \in Others BY <2>1 DEF IInv, SeenOK
  <2>3. GetInode(p)' = GetInode(p) BY SameLookup DEF IInv
  <2> QED BY <2>2, <2>3
<1> QED BY <1>1, <1>2, <1>3, <1>4 DEF IInv

\* The kernel looks a path up.
LEMMA LookInv ==
  ASSUME IInv, Look
  PROVE  IInv'
<1>1. /\ TypeOK /\ todo' = <<>> /\ seen' = Tree
      /\ UNCHANGED <<inodes, disk, newino, opens, calls, spoiled>>
  BY DEF Look, IInv
<1>2. SeenOK'
  <2>1. SUFFICES ASSUME NEW p \in Paths, Tree[p] # Absent PROVE GetInode(p)' \in Others
    BY <1>1 DEF SeenOK, Others
  <2>2. GetInode(p) # NoInode BY <2>1 DEF Tree
  <2>3. GetInode(p) \in Others BY <1>1, <2>2, LookupIsOther
  <2>4. GetInode(p)' = GetInode(p) BY <1>1, SameLookup
  <2> QED BY <2>3, <2>4
<1>3. TodoOK' BY <1>1 DEF TodoOK
<1> QED BY <1>1, <1>2, <1>3, SameDisk

\* What a client knows of a path, when it calls.
LEMMA ClientSees ==
  ASSUME IInv, Ready, NEW p \in Paths
  PROVE  /\ Exists(p) => GetInode(p) \in Others /\ GetParent(p) \in Others
         /\ AtFile(p) => Exists(p)
         /\ seen[p].kind = "dir" => Exists(p)
         /\ ParentIsDir(p) => GetParent(p) \in Others
         /\ Last(p) \in Names
<1>1. TypeOK /\ result = "seen" /\ SeenOK BY DEF IInv, Ready
<1>2. ASSUME NEW q \in Paths, Exists(q) PROVE GetInode(q) \in Others
  BY <1>1, <1>2 DEF SeenOK, Exists
<1>3. Exists(p) => GetParent(p) \in Others
  <2>1. GetInode(p) \in Others => GetInode(p) # NoInode BY Bounds DEF Others
  <2> QED BY <1>1, <1>2, <2>1, LookupIsOther
<1>4. \A q \in Paths : seen[q].kind \in {"file", "dir"} => Exists(q)
  BY DEF Exists, Absent
<1>5. ParentIsDir(p) => GetParent(p) \in Others
  <2>1. CASE Front(p) = <<>> BY <2>1, Bounds, Lookups DEF GetParent, LookupsAre
  <2>2. CASE Front(p) # <<>>
    <3>1. Front(p) \in Paths BY <2>2, ParentFinds
    <3>2. ParentIsDir(p) => Exists(Front(p)) BY <1>4, <2>2, <3>1 DEF ParentIsDir, AtDir
    <3> QED BY <1>2, <3>1, <3>2 DEF GetParent
  <2> QED BY <2>1, <2>2
<1> QED BY <1>2, <1>3, <1>4, <1>5, ParentFinds DEF AtFile

\* A call begins.
LEMMA StartInv ==
  ASSUME IInv, NEW op, NEW path, NEW arg, NEW ino, ino \in Others \cup {NoInode}, NEW steps,
         Start(op, path, arg, ino, steps), TodoOK'
  PROVE  IInv'
<1>1. /\ newino' = ino /\ calls' = calls + 1 /\ result' = "running"
      /\ UNCHANGED <<inodes, disk, opens, spoiled>>
  BY DEF Start
<1>2. TypeOK' /\ FreeOK' BY <1>1 DEF IInv, TypeOK, FreeOK
<1>3. "outgrown" \notin spoiled' => ExtentsOK' BY <1>1, SameExtents DEF IInv
<1> QED BY <1>1, <1>2, <1>3 DEF IInv, SeenOK

LEMMA PlainStart ==
  ASSUME IInv, NEW op, NEW path, NEW arg, NEW ino, ino \in Others \cup {NoInode}, NEW steps,
         Start(op, path, arg, ino, steps), steps \in Seq(PlainSteps'), steps # <<>>
  PROVE  IInv'
<1>1. todo' = steps /\ result' = "running" BY DEF Start
<1>2. AtPlain'
  <2> DEFINE S == PlainSteps'
  <2>1. steps \in Seq(S) OBVIOUS
  <2> HIDE DEF S
  <2>2. Head(steps) \in S /\ Tail(steps) \in Seq(S) BY <2>1, HeadTailProperties
  <2> QED BY <1>1, <2>2 DEF AtPlain, Now, Rest, S
<1> QED BY <1>1, <1>2, StartInv DEF TodoOK

LEMMA NewInodeStart ==
  ASSUME IInv, NEW op, NEW path \in Paths, NEW rest, Ready, ParentIsDir(path),
         rest \in {"make_file", "make_directory"},
         Start(op, path, <<>>, NoInode, <<[op |-> "alloc_inode"], AddStep(path, TRUE), [op |-> rest]>>)
  PROVE  IInv'
<1> DEFINE add == AddStep(path, TRUE)
           make == [op |-> rest]
           alloc == [op |-> "alloc_inode"]
<1>1. todo' = <<alloc, add, make>> /\ result' = "running" BY DEF Start
<1>2. add \in NameSteps' /\ make \in NameSteps'
  BY ClientSees DEF AddStep, NameSteps, Others
<1> HIDE DEF add, make, alloc
<1>3. Head(todo') = alloc BY <1>1
<1>4. Tail(todo') \in Seq(NameSteps' \cup OtherSteps')
  <2>1. ASSUME NEW S, NEW a, NEW b \in S, NEW c \in S PROVE Tail(<<a, b, c>>) \in Seq(S)
    <3> DEFINE t == Tail(<<a, b, c>>)
    <3>1. Len(t) = 2 /\ DOMAIN t = 1 .. 2 /\ t[1] = b /\ t[2] = c OBVIOUS
    <3>2. t \in [1 .. 2 -> S] OBVIOUS
    <3> QED BY <3>2
  <2> QED BY <1>1, <1>2, <2>1
<1>5. AtAllocInode' BY <1>3, <1>4 DEF AtAllocInode, Now, Rest, alloc
<1> QED BY <1>1, <1>5, StartInv DEF TodoOK

\* A file gets a new content.
LEMMA ContentStart ==
  ASSUME IInv, NEW op, NEW path, NEW arg, NEW n \in Others, NEW buf \in Seq(CellValues),
         Start(op, path, arg, NoInode, WriteInode(n, buf))
  PROVE  IInv'
<1>1. /\ todo' = WriteInode(n, buf) /\ result' = "running"
      /\ inodes'[n].start = inodes[n].start /\ inodes'[n].len = inodes[n].len
  BY DEF Start
<1>2. <<>> \in Seq(PlainSteps') OBVIOUS
<1>3. TodoOK' BY <1>1, <1>2, WriteGoesOn
<1> QED BY <1>3, StartInv

LEMMA WriteInv ==
  ASSUME IInv, NEW p \in Paths, NEW w \in Writes, Write(p, w)
  PROVE  IInv'
<1> DEFINE n == GetInode(p)
           old == Content(n)
           value == Data(calls + 1)
           buf == Overwritten(old, w, value)
<1>1. n \in Others /\ n \in Inodes BY ClientSees DEF Write, IsOpen, Others
<1>2. Start("write", p, w, NoInode, WriteInode(n, buf)) BY DEF Write
<1>3. old \in Seq(CellValues) BY <1>1, ContentOK DEF IInv
<1>4. value \in CellValues
  <2>1. calls + 1 \in Nat BY DEF IInv, TypeOK
  <2> QED BY <2>1 DEF Data, CellValues
<1>5. Unset \in CellValues BY DEF Unset, CellValues
<1>6. w.offset \in Nat /\ w.size \in Nat BY StarFsAssumption
<1> HIDE DEF old, value, n
<1>7. buf \in Seq(CellValues)
  <2> DEFINE k == IF Len(old) > w.offset + w.size THEN Len(old) ELSE w.offset + w.size
  <2>1. k \in Nat /\ Len(old) \in Nat BY <1>3, <1>6
  <2>2. \A i \in 1 .. Len(old) : old[i] \in CellValues BY <1>3
  <2>3. buf = [i \in 1 .. k |-> IF i > w.offset /\ i <= w.offset + w.size THEN value
                                 ELSE IF i <= Len(old) THEN old[i] ELSE Unset]
    BY DEF Overwritten
  <2> HIDE DEF k, buf
  <2>4. buf \in [1 .. k -> CellValues] BY <1>4, <1>5, <2>1, <2>2, <2>3
  <2> QED BY <2>1, <2>4, FunctionIsSeq
<1> HIDE DEF buf
<1> QED BY <1>1, <1>2, <1>7, ContentStart

LEMMA TruncateInv ==
  ASSUME IInv, NEW p \in Paths, NEW size \in 0 .. 1, Truncate(p, size)
  PROVE  IInv'
<1> DEFINE n == GetInode(p)
           old == Content(n)
           buf == SubSeq(old, 1, size)
<1>1. n \in Others /\ n \in Inodes BY ClientSees DEF Truncate, Others
<1>2. Start("truncate", p, size, NoInode, WriteInode(n, buf)) /\ size < inodes[n].size BY DEF Truncate
<1>3. old \in Seq(CellValues) /\ Len(old) = inodes[n].size BY <1>1, ContentOK DEF IInv
<1> HIDE DEF old, n
<1>4. \A i \in 1 .. size : old[i] \in CellValues BY <1>2, <1>3
<1>5. buf \in Seq(CellValues) BY <1>4, SubSeqProperties
<1> HIDE DEF buf
<1> QED BY <1>1, <1>2, <1>5, ContentStart

\* An entry is removed by unlink and rmdir.
LEMMA RemoveInv ==
  ASSUME IInv, NEW p \in Paths, Unlink(p) \/ Rmdir(p)
  PROVE  IInv'
<1> DEFINE remove == RemoveStep(p)
<1>1. PICK op \in {"unlink", "rmdir"} : Start(op, p, <<>>, NoInode, <<remove>>)
  BY DEF Unlink, Rmdir
<1>2. remove \in PlainSteps'
  BY ClientSees DEF Unlink, Rmdir, RemoveStep, PlainSteps, OtherSteps, Others
<1> HIDE DEF remove
<1>3. <<remove>> \in Seq(PlainSteps') /\ <<remove>> # <<>> BY <1>2
<1> QED BY <1>1, <1>3, PlainStart

\* The steps of link.
LEMMA LinkStepsArePlain ==
  ASSUME IInv, Ready, NEW from \in Paths, NEW to \in Paths, Exists(from), ParentIsDir(to),
         newino' = GetInode(from)
  PROVE  LinkSteps(from, to) \in Seq(PlainSteps') /\ LinkSteps(from, to) # <<>> /\ newino' \in Others
<1>1. /\ GetParent(from) \in Others /\ GetParent(to) \in Others /\ newino' \in Others
      /\ Last(from) \in Names /\ Last(to) \in Names
  BY ClientSees
<1>2. PlainSteps' = NameSteps' \cup OtherSteps'
  BY <1>1, Bounds DEF PlainSteps, Others
<1>3. /\ RemoveStep(from) \in OtherSteps' /\ RemoveStep(to) \in OtherSteps'
      /\ AddStep(to, FALSE) \in NameSteps'
  BY <1>1 DEF RemoveStep, AddStep, OtherSteps, NameSteps, Others
<1>4. ASSUME NEW S, NEW a \in S, NEW b \in S, NEW c \in S PROVE <<a, b, c>> \in Seq(S) /\ <<a, b, c>> # <<>>
  OBVIOUS
<1> QED BY <1>1, <1>2, <1>3, <1>4 DEF LinkSteps

LEMMA LinkInv ==
  ASSUME IInv, NEW from \in Paths, NEW to \in Paths, Link(from, to)
  PROVE  IInv'
<1>1. /\ Ready /\ ParentIsDir(to) /\ AtFile(from)
      /\ Start("link", from, to, GetInode(from), LinkSteps(from, to))
  BY DEF Link
<1>2. Exists(from) BY <1>1, ClientSees
<1>3. newino' = GetInode(from) BY <1>1 DEF Start
<1>4. LinkSteps(from, to) \in Seq(PlainSteps') /\ LinkSteps(from, to) # <<>> /\ newino' \in Others
  BY <1>1, <1>2, <1>3, LinkStepsArePlain
<1> QED BY <1>1, <1>3, <1>4, PlainStart

LEMMA RenameInv ==
  ASSUME IInv, NEW from \in Paths, NEW to \in Paths, Rename(from, to)
  PROVE  IInv'
<1> DEFINE links == LinkSteps(from, to)
           unlink == [op |-> "unlink", path |-> from]
           steps == links \o <<unlink>>
           S == PlainSteps'
<1>1. /\ Ready /\ ParentIsDir(to) /\ Exists(from)
      /\ Start("rename", from, to, GetInode(from), steps)
  BY DEF Rename
<1>2. newino' = GetInode(from) BY <1>1 DEF Start
<1>3. links \in Seq(S) /\ links # <<>> /\ newino' \in Others
  BY <1>1, <1>2, LinkStepsArePlain
<1>4. unlink \in S BY DEF PlainSteps, OtherSteps
<1>5. steps \in Seq(S) /\ steps # <<>>
  <2> HIDE DEF links, unlink, S
  <2>1. <<unlink>> \in Seq(S) /\ Len(<<unlink>>) = 1 BY <1>4
  <2>2. steps \in Seq(S) /\ Len(steps) = Len(links) + 1 BY <1>3, <2>1, ConcatProperties
  <2>3. Len(links) \in Nat BY <1>3
  <2> QED BY <2>2, <2>3
<1> HIDE DEF steps
<1> QED BY <1>1, <1>2, <1>3, <1>5, PlainStart

\* A file is opened or released.
LEMMA OpenOrRelease ==
  ASSUME IInv, Ready, NEW n \in Others, NEW k \in Nat,
         inodes' = [inodes EXCEPT ![n].links = k],
         opens' = [opens EXCEPT ![n] = @ + 1] \/ opens' = [opens EXCEPT ![n] = @ - 1],
         UNCHANGED <<disk, todo, newino, result, seen, spoiled>>, calls' \in Nat
  PROVE  IInv'
<1>1. TypeOK /\ FreeOK /\ result = "seen" /\ todo = <<>>
  BY DEF IInv, Ready, TodoOK
<1>2. /\ inodes' \in [Inodes -> InodeRecords] /\ inodes'[Free].links # 0
      /\ \A m \in Inodes : /\ inodes'[m].size = inodes[m].size /\ inodes'[m].start = inodes[m].start
                           /\ inodes'[m].len = inodes[m].len /\ inodes'[m].flags = inodes[m].flags
  BY <1>1, SetLinks
<1>3. opens' \in [Inodes -> Int] /\ opens'[Free] = 0
  BY <1>1, Bounds DEF FreeOK, Others
<1>4. TypeOK' /\ FreeOK' BY <1>1, <1>2, <1>3 DEF TypeOK, FreeOK
<1>5. "outgrown" \notin spoiled' => ExtentsOK' BY <1>2, SameExtents DEF IInv
<1>6. SeenOK'
  <2>1. SUFFICES ASSUME NEW p \in Paths, seen'[p] # Absent
                 PROVE  GetInode(p)' \in Others
    BY DEF SeenOK, Others
  <2>2. GetInode(p) \in Others BY <1>1, <2>1 DEF IInv, SeenOK
  <2>3. GetInode(p)' = GetInode(p) BY <1>1, <1>2, SameLookup
  <2> QED BY <2>2, <2>3
<1>7. TodoOK' BY <1>1 DEF TodoOK
<1> QED BY <1>4, <1>5, <1>6, <1>7 DEF IInv

LEMMA OpenInv ==
  ASSUME IInv, NEW p \in Paths, Open(p)
  PROVE  IInv'
<1> DEFINE n == GetInode(p)
<1>1. Ready /\ n \in Others BY ClientSees DEF Open
<1>2. inodes[n].links \in Nat /\ calls \in Nat BY <1>1 DEF IInv, TypeOK, InodeRecords, Others
<1>3. (inodes[n].links + 1) % LinkWrap \in Nat BY <1>2, LinkCounts
<1>4. PICK k \in Nat : inodes' = [inodes EXCEPT ![n].links = k]
  BY <1>1, <1>3 DEF Open, IInv, TypeOK, Others
<1>5. opens' = [opens EXCEPT ![n] = @ + 1] /\ calls' \in Nat
      /\ UNCHANGED <<disk, todo, newino, result, seen, spoiled>>
  BY <1>2 DEF Open
<1> HIDE DEF n
<1> QED BY <1>1, <1>4, <1>5, OpenOrRelease

LEMMA ReleaseInv ==
  ASSUME IInv, NEW n \in Inodes, Release(n)
  PROVE  IInv'
<1>1. Ready /\ n \in Others BY DEF Release, IInv, FreeOK, Others
<1>2. inodes[n].links \in Nat /\ calls \in Nat /\ opens \in [Inodes -> Int]
  BY DEF IInv, TypeOK, InodeRecords, FreeOK
<1>3. (inodes[n].links + LinkWrap - 1) % LinkWrap \in Nat BY <1>2, LinkCounts
<1>4. PICK k \in Nat : inodes' = [inodes EXCEPT ![n].links = k]
  BY <1>3 DEF Release, IInv, TypeOK
<1>5. /\ opens' = [opens EXCEPT ![n] = @ - 1] /\ calls' \in Nat
      /\ UNCHANGED <<disk, todo, newino, result, seen, spoiled>>
  BY <1>2 DEF Release
<1> QED BY <1>1, <1>4, <1>5, OpenOrRelease

\* The calls that change nothing on the disk.
LEMMA OtherCallsInv ==
  ASSUME IInv,
         (\E answer : NoEffect(answer)) \/ (\E p : OpenDir(p)) \/ ReadDir \/ ReleaseDir
  PROVE  IInv'
<1>1. calls + 1 \in Nat /\ calls \in Nat BY DEF IInv, TypeOK
<1>2. calls' \in Nat /\ (result' = result \/ result = "seen")
  BY <1>1 DEF NoEffect, OpenDir, ReadDir, ReleaseDir, Ready
<1>3. UNCHANGED <<inodes, disk, todo, newino, chunk, opens, seen, spoiled>>
  BY DEF NoEffect, OpenDir, ReadDir, ReleaseDir
<1> QED BY <1>2, <1>3, KeptInv

LEMMA CallsInv ==
  ASSUME IInv, Calls
  PROVE  IInv'
<1>1. CASE \E op \in DOMAIN Says : \E answer \in Says[op] : NoEffect(answer)
  BY <1>1, OtherCallsInv
<1>2. CASE \E p \in Paths : Create(p)
  <2>1. PICK p \in Paths : Create(p) BY <1>2
  <2> QED BY <2>1, NewInodeStart DEF Create
<1>3. CASE \E p \in Paths : Mkdir(p)
  <2>1. PICK p \in Paths : Mkdir(p) BY <1>3
  <2> QED BY <2>1, NewInodeStart DEF Mkdir
<1>4. CASE \E p \in Paths : Unlink(p) \/ Rmdir(p) BY <1>4, RemoveInv
<1>5. CASE \E p \in Paths : Open(p) BY <1>5, OpenInv
<1>6. CASE \E p \in Paths, w \in Writes : Write(p, w) BY <1>6, WriteInv
<1>7. CASE \E p \in Paths, n \in 0 .. 1 : Truncate(p, n) BY <1>7, TruncateInv
<1>8. CASE \E p, q \in Paths : Link(p, q) BY <1>8, LinkInv
<1>9. CASE \E p, q \in Paths : Rename(p, q) BY <1>9, RenameInv
<1>10. CASE \E n \in Inodes : Release(n) BY <1>10, ReleaseInv
<1> QED BY <1>1, <1>2, <1>3, <1>4, <1>5, <1>6, <1>7, <1>8, <1>9, <1>10 DEF Calls

-----------------------------------------------------------------------------
(***************************************************************************)
(* The theorems.                                                           *)
(***************************************************************************)

\* What mkfs_starfs makes of an inode.
LEMMA MadeIs ==
  ASSUME NEW n \in Inodes
  PROVE  /\ Made(n) \in InodeRecords
         /\ n = Free => /\ Made(n).start = RootBlock + 1 /\ Made(n).len = Blocks - RootBlock - 1
                        /\ Made(n).links = 1
         /\ n = 0 => Made(n).start = 0 /\ Made(n).len = 8
         /\ n = 1 => Made(n).start = 8 /\ Made(n).len = 1
         /\ n = 2 => Made(n).start = 9 /\ Made(n).len = TableBlocks
         /\ n = Root => Made(n).start = RootBlock /\ Made(n).len = 1
         /\ n > 4 => Made(n).len = 0
<1>1. n \in Nat BY Bounds DEF Inodes
<1>2. /\ 8 * Cells \in Nat /\ InodeCount * CellsPerInode \in Nat /\ TableBlocks \in Nat
      /\ Blocks - RootBlock - 1 \in Nat /\ RootBlock \in Nat
  BY Bounds DEF CellsPerInode
<1>3. \A a, b \in Nat : a * b \in Nat OBVIOUS
<1>4. (Blocks - RootBlock - 1) * Cells \in Nat BY <1>2, <1>3, Bounds
<1>5. Len(SystemNames) + 1 \in Nat /\ Cells \in Nat BY Bounds DEF SystemNames
<1>6. /\ {"system"} \in SUBSET {"system", "dir"} /\ {"dir"} \in SUBSET {"system", "dir"}
      /\ {} \in SUBSET {"system", "dir"}
  OBVIOUS
<1>7. ASSUME NEW f \in SUBSET {"system", "dir"}, NEW l \in Nat, NEW s \in Nat,
             NEW at \in Nat \cup {NoBlock}, NEW k \in Nat
      PROVE  /\ Inode(f, l, s, at, k) \in InodeRecords /\ Inode(f, l, s, at, k).start = at
             /\ Inode(f, l, s, at, k).len = k /\ Inode(f, l, s, at, k).links = l
  BY DEF Inode, InodeRecords
<1>8. CASE n = 0
  <2>1. Made(n) = Inode({"system"}, 1, 8 * Cells, 0, 8) BY <1>8 DEF Made, System, Root, Free
  <2> QED BY <1>2, <1>6, <1>7, <1>8, <2>1 DEF Free, Root
<1>9. CASE n = 1
  <2>1. Made(n) = Inode({"system"}, 1, Cells, 8, 1) BY <1>9 DEF Made, System, Root, Free
  <2> QED BY <1>5, <1>6, <1>7, <1>9, <2>1 DEF Free, Root
<1>10. CASE n = 2
  <2>1. Made(n) = Inode({"system"}, 1, InodeCount * CellsPerInode, 9, TableBlocks)
    BY <1>10 DEF Made, System, Root, Free
  <2> QED BY <1>2, <1>6, <1>7, <1>10, <2>1 DEF Free, Root
<1>11. CASE n = Root
  <2>1. Made(n) = Inode({"dir"}, 1, Len(SystemNames) + 1, RootBlock, 1)
    BY <1>11 DEF Made, System, Root, Free
  <2> QED BY <1>2, <1>5, <1>6, <1>7, <1>11, <2>1 DEF Free, Root
<1>12. CASE n = Free
  <2>1. Made(n) = Inode({"system"}, 1, (Blocks - RootBlock - 1) * Cells, RootBlock + 1, Blocks - RootBlock - 1)
    BY <1>12 DEF Made, System, Root, Free
  <2>2. RootBlock + 1 \in Nat BY <1>2
  <2> QED BY <1>2, <1>4, <1>6, <1>7, <1>12, <2>1, <2>2 DEF Free, Root
<1>13. CASE n = 5
  <2>1. Made(n) = Inode({"system"}, 1, 0, NoBlock, 0) BY <1>13 DEF Made, System, Root, Free
  <2>2. Inode({"system"}, 1, 0, NoBlock, 0) \in InodeRecords /\ Inode({"system"}, 1, 0, NoBlock, 0).len = 0
    BY DEF Inode, InodeRecords
  <2> QED BY <1>13, <2>1, <2>2 DEF Free, Root
<1>14. CASE n > 5
  <2>1. Made(n) = Inode({}, 0, 0, 0, 0) BY <1>14 DEF Made, Root, Free
  <2> QED BY <1>6, <1>7, <1>14, <2>1 DEF Free, Root
<1> QED BY <1>1, <1>8, <1>9, <1>10, <1>11, <1>12, <1>13, <1>14 DEF Root, Free

LEMMA InitInv == Init => IInv
<1> SUFFICES ASSUME Init PROVE IInv OBVIOUS
<1>1. /\ inodes = [n \in Inodes |-> Made(n)] /\ disk = Written(<<>>, RootBlock * Cells, RootDirectory)
      /\ todo = <<>> /\ newino = NoInode /\ opens = [n \in Inodes |-> 0] /\ calls = 0
      /\ seen = [p \in Paths |-> Absent]
  BY DEF Init
<1>2. inodes \in [Inodes -> InodeRecords] BY <1>1, MadeIs
<1>3. \A a \in DOMAIN disk : disk[a] \in CellValues
  <2> DEFINE h == Header(Len(SystemNames))
             entries == [i \in DOMAIN SystemNames |-> Entry(i - 1, SystemNames[i])]
             at == RootBlock * Cells
             buf == RootDirectory
  <2>1. DOMAIN SystemNames = 1 .. 6 /\ Len(SystemNames) = 6 BY DEF SystemNames
  <2>2. h \in CellValues BY <2>1 DEF Header, CellValues
  <2>3. entries \in [1 .. 6 -> CellValues]
    <3>1. ASSUME NEW i \in 1 .. 6 PROVE Entry(i - 1, SystemNames[i]) \in CellValues
      <4>1. SystemNames[i] \in Range(SystemNames) BY <2>1 DEF Range
      <4>2. i - 1 \in Inodes BY Bounds DEF Inodes
      <4> QED BY <4>1, <4>2 DEF Entry, CellValues
    <3> QED BY <2>1, <3>1
  <2> HIDE DEF h, entries
  <2>4. <<h>> \in Seq(CellValues) /\ entries \in Seq(CellValues)
    <3>1. <<h>> \in Seq(CellValues) BY <2>2
    <3>2. entries \in Seq(CellValues)
      <4>1. 6 \in Nat OBVIOUS
      <4> QED BY <2>3, <4>1, FunctionIsSeq
    <3> QED BY <3>1, <3>2
  <2>5. buf \in Seq(CellValues)
    <3>1. buf = <<h>> \o entries BY DEF RootDirectory, h, entries
    <3> HIDE DEF buf
    <3> QED BY <2>4, <3>1, ConcatProperties
  <2>6. at \in Nat
    <3>1. \A a, b \in Nat : a * b \in Nat OBVIOUS
    <3> QED BY <3>1, Bounds
  <2>7. disk = Written(<<>>, at, buf) BY <1>1
  <2> HIDE DEF buf, at
  <2> SUFFICES ASSUME NEW a \in DOMAIN disk PROVE disk[a] \in CellValues OBVIOUS
  <2>8. DOMAIN disk = at .. at + Len(buf) - 1 BY <2>7 DEF Written
  <2>9. Len(buf) \in Nat /\ DOMAIN buf = 1 .. Len(buf) /\ \A i \in 1 .. Len(buf) : buf[i] \in CellValues
    BY <2>5
  <2>10. a - at + 1 \in 1 .. Len(buf) BY <2>6, <2>8, <2>9
  <2>11. disk[a] = buf[a - at + 1]
    <3>1. disk[a] = IF a - at + 1 \in DOMAIN buf THEN buf[a - at + 1] ELSE <<>>[a]
      BY <2>7 DEF Written
    <3> QED BY <2>9, <2>10, <3>1
  <2> QED BY <2>9, <2>10, <2>11
<1>4. TypeOK BY <1>1, <1>2, <1>3 DEF TypeOK
<1>5. FreeOK BY <1>1, MadeIs, Bounds DEF FreeOK
<1>6. TodoOK /\ SeenOK BY <1>1 DEF TodoOK, SeenOK
<1>7. ExtentsOK
  <2>1. /\ inodes[Free].start = RootBlock + 1 /\ inodes[Free].len = Blocks - RootBlock - 1
        /\ RootBlock \in Nat /\ Blocks \in Nat /\ RootBlock = 9 + TableBlocks /\ TableBlocks \in Nat
    BY <1>1, MadeIs, Bounds DEF RootBlock
  <2>2. ASSUME NEW n \in Others
        PROVE  LET i == inodes[n] IN
               /\ n \in Nat
               /\ \/ n = 0 /\ i.start = 0 /\ i.len = 8
                  \/ n = 1 /\ i.start = 8 /\ i.len = 1
                  \/ n = 2 /\ i.start = 9 /\ i.len = TableBlocks
                  \/ n = 3 /\ i.start = RootBlock /\ i.len = 1
                  \/ i.start \in {0, NoBlock} /\ i.len = 0
    <3>1. n \in Inodes /\ n \in Nat /\ n # 4 BY Bounds DEF Others, Inodes, Free
    <3>2. inodes[n] = Made(n) BY <1>1, <3>1
    <3>3. n > 4 => Made(n).start \in {0, NoBlock} /\ Made(n).len = 0
      BY <3>1 DEF Made, Inode, System, Root, Free
    <3> QED BY <3>1, <3>2, <3>3, MadeIs DEF Root
  <2>3. \A n \in Others : EndsBy(n, inodes[Free].start)
    <3>1. ASSUME NEW n \in Others PROVE inodes[n].start # NoBlock => inodes[n].start + inodes[n].len <= RootBlock + 1
      BY <2>1, <2>2
    <3> QED BY <2>1, <3>1 DEF EndsBy
  <2>4. ASSUME NEW m \in Others, NEW n \in Others, m # n PROVE Apart(inodes[m], inodes[n])
    <3> DEFINE i == inodes[m]
               j == inodes[n]
    <3>1. /\ m \in Nat
          /\ \/ m = 0 /\ i.start = 0 /\ i.len = 8
             \/ m = 1 /\ i.start = 8 /\ i.len = 1
             \/ m = 2 /\ i.start = 9 /\ i.len = TableBlocks
             \/ m = 3 /\ i.start = RootBlock /\ i.len = 1
             \/ i.len = 0
      BY <2>2
    <3>2. /\ n \in Nat
          /\ \/ n = 0 /\ j.start = 0 /\ j.len = 8
             \/ n = 1 /\ j.start = 8 /\ j.len = 1
             \/ n = 2 /\ j.start = 9 /\ j.len = TableBlocks
             \/ n = 3 /\ j.start = RootBlock /\ j.len = 1
             \/ j.len = 0
      BY <2>2
    <3> HIDE DEF i, j
    <3>3. i.start + i.len <= j.start \/ j.start + j.len <= i.start \/ i.len = 0 \/ j.len = 0
      BY <2>1, <2>4, <3>1, <3>2
    <3> QED BY <3>3 DEF Apart, i, j
  <2>5. inodes[Free].start # NoBlock /\ inodes[Free].start + inodes[Free].len <= Blocks
    BY <2>1 DEF NoBlock
  <2> QED BY <2>3, <2>4, <2>5 DEF ExtentsOK
<1> QED BY <1>4, <1>5, <1>6, <1>7 DEF IInv

LEMMA NextInv == IInv /\ [Next]_vars => IInv'
<1> SUFFICES ASSUME IInv, [Next]_vars PROVE IInv' OBVIOUS
<1>1. CASE Look BY <1>1, LookInv
<1>2. CASE Calls BY <1>2, CallsInv
<1>3. CASE Step
  BY <1>3, AllocInodeInv, AllocSpaceInv, ResizeInv, StoreInv, AddToDirInv, RemoveFromDirInv, UnrefInv,
     MakeDirectoryInv, MakeFileInv, UnlinkRenamedInv
  DEF Step
<1>4. CASE Crash BY <1>4, KilledInv DEF Crash
<1>5. CASE (\E p : OpenDir(p)) \/ ReadDir \/ ReleaseDir BY <1>5, OtherCallsInv
<1>6. CASE UNCHANGED vars
  <2>1. calls' \in Nat /\ result' = result BY <1>6 DEF vars, IInv, TypeOK
  <2>2. UNCHANGED <<inodes, disk, todo, newino, chunk, opens, seen, spoiled>> BY <1>6 DEF vars
  <2> QED BY <2>1, <2>2, KeptInv
<1> QED BY <1>1, <1>2, <1>3, <1>4, <1>5, <1>6 DEF Next

\* The invariant holds whatever clients call, and wherever the program is killed.
THEOREM StarFsInvariant == Spec => []IInv
<1> QED BY InitInv, NextInv, PTL DEF Spec

LEMMA ExtentsAreApart == IInv => OwnBlocksUntilOutgrown
<1> SUFFICES ASSUME IInv, "outgrown" \notin spoiled, NEW m \in Inodes, NEW n \in Inodes, m # n
             PROVE  BlocksOf(m) \cap BlocksOf(n) = {} /\ BlocksOf(m) \subseteq 0 .. Blocks - 1
  BY DEF OwnBlocksUntilOutgrown, OwnBlocks
<1> DEFINE i == inodes[m]
           j == inodes[n]
           free == inodes[Free].start
<1>1. ExtentsOK /\ TypeOK BY DEF IInv
<1>2. /\ i.start \in Nat \cup {NoBlock} /\ i.len \in Nat /\ j.start \in Nat \cup {NoBlock} /\ j.len \in Nat
      /\ Free \in Inodes
  BY <1>1, Bounds DEF TypeOK, InodeRecords
<1>3. free \in Nat /\ free + inodes[Free].len <= Blocks /\ Blocks \in Nat /\ inodes[Free].len \in Nat
  BY <1>1, <1>2, Bounds DEF ExtentsOK, TypeOK, InodeRecords
<1>4. m # Free => EndsBy(m, free) BY <1>1 DEF ExtentsOK, Others
<1>5. n # Free => EndsBy(n, free) BY <1>1 DEF ExtentsOK, Others
<1>6. m # Free => (i.start # NoBlock => i.start + i.len <= free) BY <1>4 DEF EndsBy
<1>7. n # Free => (j.start # NoBlock => j.start + j.len <= free) BY <1>5 DEF EndsBy
<1>8. m = Free => i.start = free /\ i.start + i.len <= Blocks BY <1>3
<1>9. n = Free => j.start = free BY <1>3
<1>10. m # Free /\ n # Free => Apart(i, j) BY <1>1 DEF ExtentsOK, Others
<1>11. /\ BlocksOf(m) = IF i.start = NoBlock THEN {} ELSE i.start .. i.start + i.len - 1
       /\ BlocksOf(n) = IF j.start = NoBlock THEN {} ELSE j.start .. j.start + j.len - 1
  BY DEF BlocksOf
<1> HIDE DEF i, j, free
<1>12. BlocksOf(m) \cap BlocksOf(n) = {}
  <2>1. CASE m # Free /\ n # Free BY <1>2, <1>10, <1>11, <2>1 DEF Apart
  <2>2. CASE m = Free BY <1>2, <1>3, <1>7, <1>8, <1>11, <2>2
  <2>3. CASE n = Free BY <1>2, <1>3, <1>6, <1>9, <1>11, <2>3
  <2> QED BY <2>1, <2>2, <2>3
<1>13. BlocksOf(m) \subseteq 0 .. Blocks - 1
  <2>1. i.start # NoBlock => i.start \in Nat /\ i.start + i.len <= Blocks
    BY <1>2, <1>3, <1>6, <1>8
  <2> QED BY <1>2, <1>3, <1>11, <2>1
<1> QED BY <1>12, <1>13

\* No block belongs to two files, or to a file and the free extent, at any moment and
\* after any kill, until a file outgrows the blocks it was first given (main.c:94-124,
\* 169-203).
THEOREM BlocksStayOwn == Spec => []OwnBlocksUntilOutgrown
<1> QED BY StarFsInvariant, ExtentsAreApart, PTL

-----------------------------------------------------------------------------
(***************************************************************************)
(* Links: the second invariant.                                            *)
(***************************************************************************)

\* Who has a name has a link for it, and one for each time it is open.
Held(n) == inodes[n].links >= 1 + opens[n]
AllHeld(buf) == \A i \in EntriesOf(buf) : Held(buf[i + 1].ino)

\* The header counts the entries that are there.
Counted(buf) == buf # <<>> => buf[1].kind = "header" /\ buf[1].count = Len(buf) - 1

\* What LinksCover asks for.
CoverOK ==
  /\ \A n \in Inodes : opens[n] >= 0 /\ inodes[n].links >= opens[n]
  /\ \A d \in Inodes : Formatted(d) => AllHeld(Content(d))

\* The directories.  One whose size is new and whose content is not counts an entry less.
BeingStored(d) == todo # <<>> /\ Now.op = "store" /\ Now.ino = d
DirOK(d) ==
  /\ inodes[d].links > 0 /\ opens[d] = 0 /\ d # Free
  /\ inodes[d].size <= inodes[d].len * Cells
  /\ BeingStored(d) \/ Counted(Content(d))
DirsOK == IsDir(Root) /\ \A d \in Inodes : IsDir(d) => DirOK(d)

\* There are no more links than calls that made one.
CountsOK ==
  /\ calls <= MaxCalls
  /\ \A n \in Inodes : inodes[n].links <= 1 + calls
  /\ \A n \in Others : inodes[n].start = NoBlock => inodes[n].len = 0

\* The new inode, before it is a file or a directory.
Blank(n) == inodes[n] = Inode({}, 1, 0, NoBlock, 0) /\ opens[n] = 0 /\ calls > 0
MayMake == newino # NoInode /\ Blank(newino)

\* What may come at the end of a call: the new inode is made, or names are added and
\* removed; what is added has a link.
AddSteps == {s \in NameSteps : s.op = "add_to_dir" /\ IsDir(s.dir)}
MakeSteps == [op : {"make_file", "make_directory"}]
LaterSteps ==
  (IF newino # NoInode /\ Held(newino) THEN AddSteps ELSE {})
    \cup {s \in OtherSteps : s.op \in {"remove_from_dir", "unlink"}}
IsEnd(steps) ==
  steps \in Seq(LaterSteps) \/ (MayMake /\ \E make \in MakeSteps : steps = <<make>>)

\* What is about to be written to a directory is one, with all that was there.
Sound(buf) == buf # <<>> /\ Counted(buf) /\ AllHeld(buf)
Lands(n, buf) ==
  IsDir(n) => Sound(buf) /\ Len(buf) >= inodes[n].size /\ (inodes[n].size = 0 => Len(buf) = 1)

\* The steps of writeinode, but for alloc_space.
Writing(steps) ==
  /\ steps # <<>> /\ Tail(steps) # <<>> /\ Head(steps).op = "resize"
  /\ LET n == Head(steps).ino
         store == Head(Tail(steps))
     IN /\ store.op = "store" /\ store.ino = n /\ Head(steps).size = Len(store.buf)
        /\ Lands(n, store.buf)
        /\ IsEnd(Tail(Tail(steps))) /\ (Tail(Tail(steps)) # <<>> => IsDir(n))

AtNew ==
  /\ Now.op = "alloc_inode" /\ calls > 0
  /\ Rest # <<>> /\ Head(Rest) \in AddSteps /\ \E make \in MakeSteps : Tail(Rest) = <<make>>
AtEnd ==
  \/ Now \in LaterSteps /\ IsEnd(Rest)
  \/ Now \in MakeSteps /\ Rest = <<>> /\ MayMake
AtWrite == Writing(todo) \/ (Now.op = "alloc_space" /\ Writing(Rest))
AtStore ==
  /\ Now.op = "store" /\ IsEnd(Rest) /\ (Rest # <<>> => IsDir(Now.ino))
  /\ inodes[Now.ino].size = Len(Now.buf) /\ Len(Now.buf) <= inodes[Now.ino].len * Cells
  /\ IsDir(Now.ino) => Sound(Now.buf)
InPlan == todo # <<>> => AtNew \/ AtEnd \/ AtWrite \/ AtStore

PlanOK == CountsOK /\ DirsOK /\ InPlan

\* What clients see is a directory where they see one.
KindsOK ==
  result = "seen" =>
    /\ spoiled = {}
    /\ \A p \in Paths : seen[p] # Absent =>
         seen[p].kind = IF IsDir(GetInode(p)) THEN "dir" ELSE "file"

NamesInv ==
  /\ KindsOK
  /\ removed = {} => "reused" \notin spoiled /\ CoverOK /\ (spoiled = {} => PlanOK)

-----------------------------------------------------------------------------
(***************************************************************************)
(* Lemmas about what the invariant is made of.                             *)
(***************************************************************************)

LEMMA SameSteps ==
  /\ NameSteps' = NameSteps /\ OtherSteps' = OtherSteps /\ MakeSteps' = MakeSteps
  /\ Others' = Others /\ CellValues' = CellValues
BY DEF NameSteps, OtherSteps, MakeSteps, Others, CellValues

\* An entry is of an inode.
LEMMA EntryIs ==
  ASSUME NEW buf \in Seq(CellValues), NEW i \in EntriesOf(buf)
  PROVE  /\ i \in 1 .. Len(buf) - 1 /\ i <= buf[1].count
         /\ buf[i + 1].kind = "entry" /\ buf[i + 1].ino \in Inodes
<1>1. i \in 1 .. Len(buf) - 1 /\ i <= buf[1].count /\ buf[i + 1].kind = "entry" BY DEF EntriesOf
<1>2. i + 1 \in 1 .. Len(buf) BY <1>1
<1> DEFINE c == buf[i + 1]
<1>3. c \in CellValues BY <1>2, ElementOfSeq
<1>4. c.kind = "entry" BY <1>1
<1> HIDE DEF c
<1>5. c.ino \in Inodes BY <1>3, <1>4 DEF CellValues, Others
<1> QED BY <1>1, <1>5 DEF c

LEMMA OpensInt ==
  ASSUME IInv, NEW n \in Inodes
  PROVE  opens[n] \in Int /\ inodes[n] \in InodeRecords /\ inodes[n].links \in Nat
         /\ inodes[n].size \in Nat /\ inodes[n].len \in Nat /\ inodes[n].start \in Nat \cup {NoBlock}
BY DEF IInv, TypeOK, FreeOK, InodeRecords

\* That is enough for LinksCover.
LEMMA CoverIsEnough ==
  ASSUME IInv, CoverOK, NEW n \in Inodes
  PROVE  inodes[n].links >= (IF n \in Named THEN 1 ELSE 0) + opens[n]
<1>1. inodes[n].links >= opens[n] /\ opens[n] \in Int /\ inodes[n].links \in Nat
  BY OpensInt DEF CoverOK
<1>2. ASSUME n \in Named PROVE Held(n)
  <2>1. PICK d \in Directories : n \in Range(NamedIn(d)) BY <1>2 DEF Named
  <2>2. d \in Inodes /\ Formatted(d) BY <2>1 DEF Directories
  <2>3. PICK i \in EntriesOf(Content(d)) : n = Content(d)[i + 1].ino
    BY <2>1 DEF NamedIn, Range
  <2> QED BY <2>2, <2>3 DEF CoverOK, AllHeld
<1> QED BY <1>1, <1>2 DEF Held

\* An inode that is found has a name.
LEMMA FoundIsHeld ==
  ASSUME IInv, CoverOK, NEW n \in Others \cup {NoInode}, NEW name, FindInDir(n, name) # NoInode
  PROVE  Held(FindInDir(n, name))
<1> DEFINE buf == Content(n)
           found == Matches(buf, 1, name)
<1>1. n # NoInode /\ Formatted(n) /\ found # {} /\ FindInDir(n, name) = buf[First(found) + 1].ino
  BY DEF FindInDir
<1>2. n \in Inodes BY <1>1 DEF Others
<1>3. found \subseteq EntriesOf(buf) BY DEF Matches
<1>4. EntriesOf(buf) \in SUBSET Nat
  <2>1. buf \in Seq(CellValues) BY <1>2, ContentOK DEF IInv
  <2> HIDE DEF buf
  <2>2. \A i \in EntriesOf(buf) : i \in 1 .. Len(buf) - 1 BY DEF EntriesOf
  <2>3. Len(buf) \in Nat BY <2>1
  <2> QED BY <2>2, <2>3
<1>5. First(found) \in EntriesOf(buf)
  <2> HIDE DEF found, buf
  <2> QED BY <1>1, <1>3, <1>4, FirstIn
<1> QED BY <1>1, <1>2, <1>5 DEF CoverOK, AllHeld

LEMMA EndGoesOn ==
  ASSUME IsEnd(todo)'
  PROVE  InPlan'
<1>1. SUFFICES ASSUME todo' # <<>> PROVE AtEnd' BY DEF InPlan
<1> DEFINE S == LaterSteps'
           steps == todo'
           T == Tail(steps)
<1>2. steps \in Seq(S) \/ (MayMake' /\ \E m \in MakeSteps : steps = <<m>>)
  BY SameSteps DEF IsEnd
<1>3. Now' = Head(steps) /\ Rest' = T BY DEF Now, Rest
<1> HIDE DEF S, steps
<1>4. CASE steps \in Seq(S)
  <2>1. Head(steps) \in S /\ T \in Seq(S) BY <1>1, <1>4, HeadTailProperties DEF steps
  <2>2. IsEnd(Rest)' BY <1>3, <2>1 DEF IsEnd, S
  <2> QED BY <1>3, <2>1, <2>2 DEF AtEnd, S
<1>5. CASE MayMake' /\ \E m \in MakeSteps : steps = <<m>>
  <2>1. Head(steps) \in MakeSteps' /\ T = <<>> BY <1>5, SameSteps
  <2> QED BY <1>3, <1>5, <2>1 DEF AtEnd
<1> QED BY <1>2, <1>4, <1>5

\* An end stays one while the directories and the new inode are what they were.
LEMMA EndStays ==
  ASSUME NEW steps, IsEnd(steps), newino' = newino,
         \A n \in Inodes : IsDir(n) => IsDir(n)',
         newino # NoInode /\ Held(newino) => Held(newino)',
         MayMake => MayMake' \/ steps = <<>>
  PROVE  /\ steps \in Seq(LaterSteps') \/ (MayMake' /\ \E make \in MakeSteps' : steps = <<make>>)
         /\ LaterSteps \subseteq LaterSteps'
<1>1. LaterSteps \subseteq LaterSteps'
  <2>1. AddSteps \subseteq AddSteps'
    <3>1. \A s \in NameSteps : s.op = "add_to_dir" => s.dir \in Inodes BY DEF NameSteps, Others
    <3> QED BY <3>1, SameSteps DEF AddSteps
  <2> QED BY <2>1, SameSteps DEF LaterSteps
<1>2. steps \in Seq(LaterSteps) => steps \in Seq(LaterSteps') BY <1>1, SeqMonotonic
<1>3. steps = <<>> => steps \in Seq(LaterSteps') OBVIOUS
<1> QED BY <1>1, <1>2, <1>3, SameSteps DEF IsEnd

\* A file that keeps its flags, its size and its place has the content it had.
LEMMA SameContent ==
  ASSUME NEW n \in Inodes, disk' = disk, inodes'[n].flags = inodes[n].flags,
         inodes'[n].size = inodes[n].size, inodes'[n].start = inodes[n].start
  PROVE  Content(n)' = Content(n) /\ IsDir(n)' = IsDir(n) /\ Formatted(n)' = Formatted(n)
<1>1. Content(n)' = Content(n) /\ IsDir(n)' = IsDir(n) BY DEF Content, IsDir
<1> QED BY <1>1 DEF Formatted

LEMMA SameEntries ==
  ASSUME NEW buf
  PROVE  /\ EntriesOf(buf)' = EntriesOf(buf) /\ Counted(buf)' = Counted(buf)
         /\ (\A n \in Inodes : Held(n) => Held(n)') /\ buf \in Seq(CellValues) /\ AllHeld(buf) => AllHeld(buf)'
<1>1. EntriesOf(buf)' = EntriesOf(buf) /\ Counted(buf)' = Counted(buf) BY DEF EntriesOf, Counted
<1>2. ASSUME \A n \in Inodes : Held(n) => Held(n)', buf \in Seq(CellValues), AllHeld(buf)
      PROVE  AllHeld(buf)'
  <2>1. \A i \in EntriesOf(buf) : buf[i + 1].ino \in Inodes BY <1>2, EntryIs
  <2> QED BY <1>1, <1>2, <2>1 DEF AllHeld
<1> QED BY <1>1, <1>2

\* Links and open files change together, and nothing else does.
LEMMA SameCover ==
  ASSUME IInv, CoverOK, disk' = disk,
         \A n \in Inodes : /\ inodes'[n].flags = inodes[n].flags
                           /\ inodes'[n].size = inodes[n].size /\ inodes'[n].start = inodes[n].start
                           /\ opens'[n] \in Nat /\ inodes'[n].links \in Nat
                           /\ inodes'[n].links - opens'[n] >= inodes[n].links - opens[n]
  PROVE  CoverOK' /\ \A n \in Inodes : Held(n) => Held(n)'
<1>1. \A n \in Inodes : Held(n) => Held(n)' BY OpensInt DEF Held
<1>2. ASSUME NEW n \in Inodes PROVE opens'[n] >= 0 /\ inodes'[n].links >= opens'[n]
  BY OpensInt DEF CoverOK
<1>3. ASSUME NEW d \in Inodes, Formatted(d)' PROVE AllHeld(Content(d))'
  <2>1. Content(d)' = Content(d) /\ Formatted(d) BY <1>3, SameContent
  <2>2. AllHeld(Content(d)) /\ Content(d) \in Seq(CellValues) BY <2>1, ContentOK DEF CoverOK, IInv
  <2> DEFINE buf == Content(d)
  <2>3. EntriesOf(buf) = EntriesOf(Content(d)') BY <2>1
  <2>4. ASSUME NEW i \in EntriesOf(buf) PROVE Held(buf[i + 1].ino)'
    <3>1. buf[i + 1].ino \in Inodes BY <2>2, EntryIs
    <3>2. Held(buf[i + 1].ino) BY <2>2 DEF AllHeld
    <3> DEFINE n == buf[i + 1].ino
    <3>3. inodes'[n].links >= 1 + opens'[n] BY <3>1, <3>2, OpensInt DEF Held
    <3>4. buf[i + 1].ino' = buf[i + 1].ino BY <2>1
    <3> QED BY <3>3, <3>4 DEF Held
  <2> QED BY <2>1, <2>4 DEF AllHeld, EntriesOf
<1> QED BY <1>1, <1>2, <1>3 DEF CoverOK

\* A step that leaves the disk alone.
LEMMA SamePlan ==
  ASSUME IInv, CoverOK, CountsOK, DirsOK, UNCHANGED <<inodes, disk>>,
         opens' = opens \/ opens' = [n \in Inodes |-> 0],
         \A d \in Inodes : IsDir(d) => ~BeingStored(d),
         calls' \in Nat, calls' >= calls, calls' <= MaxCalls
  PROVE  /\ CoverOK' /\ CountsOK' /\ DirsOK'
         /\ \A n \in Inodes : /\ Held(n) => Held(n)'
                              /\ IsDir(n)' = IsDir(n) /\ (Blank(n) => Blank(n)')
<1>1. \A n \in Inodes : opens'[n] \in Nat /\ opens'[n] <= opens[n] /\ (opens[n] = 0 => opens'[n] = 0)
  <2>1. \A n \in Inodes : opens[n] \in Nat BY OpensInt DEF CoverOK
  <2> QED BY <2>1
<1>2. CoverOK' /\ \A n \in Inodes : Held(n) => Held(n)'
  <2>1. ASSUME NEW n \in Inodes PROVE inodes'[n].links - opens'[n] >= inodes[n].links - opens[n]
    BY <1>1, OpensInt
  <2> QED BY <1>1, <2>1, OpensInt, SameCover
<1>3. \A n \in Inodes : IsDir(n)' = IsDir(n) /\ Content(n)' = Content(n) BY SameContent
<1>4. CountsOK'
  <2>1. ASSUME NEW n \in Inodes PROVE inodes'[n].links <= 1 + calls'
    <3>1. inodes[n].links <= 1 + calls /\ inodes[n].links \in Nat /\ calls \in Nat
      BY OpensInt DEF CountsOK, IInv, TypeOK
    <3> QED BY <3>1
  <2> QED BY <2>1 DEF CountsOK, Others
<1>5. DirsOK'
  <2>1. Root \in Inodes BY Bounds DEF Others
  <2>2. ASSUME NEW d \in Inodes, IsDir(d)' PROVE DirOK(d)'
    <3>1. IsDir(d) /\ DirOK(d) /\ ~BeingStored(d) BY <1>3, <2>2 DEF DirsOK
    <3>2. Counted(Content(d))' BY <1>3, <3>1 DEF DirOK, Counted
    <3> QED BY <1>1, <3>1, <3>2 DEF DirOK
  <2> QED BY <1>3, <2>1, <2>2 DEF DirsOK
<1>6. ASSUME NEW n \in Inodes, Blank(n) PROVE Blank(n)'
  <2>1. calls \in Nat BY DEF IInv, TypeOK
  <2> QED BY <1>1, <1>6, <2>1 DEF Blank
<1> QED BY <1>2, <1>3, <1>4, <1>5, <1>6

\* What is known of a step that is reached.
LEMMA PlanReached ==
  ASSUME IInv, PlanOK, NEW op, At(op)
  PROVE  /\ op = "alloc_inode" => AtNew
         /\ op = "alloc_space" => Writing(Rest)
         /\ op = "resize" => Writing(todo)
         /\ op = "store" => AtStore
         /\ op = "add_to_dir" => /\ Now \in AddSteps /\ newino # NoInode /\ Held(newino)
                                 /\ IsEnd(Rest)
         /\ op \in {"remove_from_dir", "unlink"} => IsEnd(Rest)
         /\ op \in {"make_file", "make_directory"} => Rest = <<>> /\ MayMake
         /\ op # "unref"
         /\ op # "store" => \A d \in Inodes : ~BeingStored(d)
<1>1. todo # <<>> /\ Now.op = op BY DEF At
<1>2. AtNew \/ AtEnd \/ AtWrite \/ AtStore BY <1>1 DEF PlanOK, InPlan
<1>3. AtNew => op = "alloc_inode" BY <1>1 DEF AtNew
<1>4. AtStore => op = "store" BY <1>1 DEF AtStore
<1>5. AtWrite => (op = "resize" /\ Writing(todo)) \/ (op = "alloc_space" /\ Writing(Rest))
  BY <1>1 DEF AtWrite, Writing, Now
<1>6. AtEnd =>
        \/ /\ op = "add_to_dir" /\ Now \in AddSteps /\ newino # NoInode /\ Held(newino) /\ IsEnd(Rest)
        \/ op \in {"remove_from_dir", "unlink"} /\ IsEnd(Rest)
        \/ op \in {"make_file", "make_directory"} /\ Rest = <<>> /\ MayMake
  <2>1. Now \in MakeSteps => op \in {"make_file", "make_directory"} BY <1>1 DEF MakeSteps
  <2>2. Now \in LaterSteps =>
          \/ Now \in AddSteps /\ newino # NoInode /\ Held(newino)
          \/ op \in {"remove_from_dir", "unlink"}
    BY <1>1 DEF LaterSteps
  <2>3. Now \in AddSteps => op = "add_to_dir" BY <1>1 DEF AddSteps
  <2> QED BY <2>1, <2>2, <2>3 DEF AtEnd
<1>7. op # "store" => \A d \in Inodes : ~BeingStored(d) BY <1>1 DEF BeingStored
<1> QED BY <1>2, <1>3, <1>4, <1>5, <1>6, <1>7

\* What a step leaves of a call that goes on.
LEMMA RestGoesOn ==
  ASSUME IInv, IsEnd(Rest), newino' = newino, Continue(Rest),
         \A n \in Inodes : IsDir(n) => IsDir(n)',
         \A n \in Inodes : Held(n) => Held(n)',
         MayMake => MayMake' \/ Rest = <<>>
  PROVE  InPlan'
<1> DEFINE steps == Rest
           S == LaterSteps'
<1>1. newino # NoInode => newino \in Inodes BY DEF IInv, TypeOK, Others
<1>2. steps \in Seq(S) \/ (MayMake' /\ \E make \in MakeSteps' : steps = <<make>>)
  <2>1. newino # NoInode /\ Held(newino) => Held(newino)' BY <1>1 DEF Held
  <2> QED BY <2>1, EndStays
<1>3. todo' = steps BY DEF Continue
<1> HIDE DEF steps
<1>4. IsEnd(todo)' BY <1>2, <1>3 DEF IsEnd
<1> QED BY <1>4, EndGoesOn

-----------------------------------------------------------------------------
(***************************************************************************)
(* Steps of a call, and the links.                                         *)
(***************************************************************************)

\* The list of writeinode, with what comes after it, one by one.
WritesThen(t, n, buf, r) ==
  /\ t # <<>> /\ Head(t) = [op |-> "resize", ino |-> n, size |-> Len(buf)] /\ Tail(t) # <<>>
  /\ Head(Tail(t)) = [op |-> "store", ino |-> n, buf |-> buf] /\ Tail(Tail(t)) = r
LEMMA WriteInodeList ==
  ASSUME NEW S, NEW n, NEW buf, NEW r \in Seq(S),
         NEW w, w = WriteInode(n, buf) \o r \/ (w = WriteInode(n, buf) /\ r = <<>>)
  PROVE  /\ w # <<>>
         /\ \/ WritesThen(w, n, buf, r)
            \/ Head(w).op = "alloc_space" /\ WritesThen(Tail(w), n, buf, r)
<1> DEFINE alloc == [op |-> "alloc_space", blocks |-> BlocksFor(Len(buf))]
           resize == [op |-> "resize", ino |-> n, size |-> Len(buf)]
           store == [op |-> "store", ino |-> n, buf |-> buf]
           T == {alloc, resize, store} \cup S
           u == <<store>> \o r
           t == <<resize>> \o u
           v == <<alloc>> \o t
           pair == <<resize, store>>
<1>1. r \in Seq(T) BY SeqMonotonic
<1>2. WriteInode(n, buf) = <<alloc>> \o pair \/ WriteInode(n, buf) = <<>> \o pair
  BY DEF WriteInode
<1>3. alloc \in T /\ resize \in T /\ store \in T OBVIOUS
<1>4. pair = <<resize>> \o <<store>> /\ <<>> \o pair = <<resize>> \o <<store>>
  <2> HIDE DEF resize, store
  <2> QED BY TwoIsConcat
<1> HIDE DEF alloc, resize, store, T, pair
<1>5. <<alloc>> \in Seq(T) /\ <<resize>> \in Seq(T) /\ <<store>> \in Seq(T) BY <1>3
<1>6. u \in Seq(T) /\ u # <<>> /\ Head(u) = store /\ Tail(u) = r BY <1>1, <1>3, Rests
<1> HIDE DEF u
<1>7. t \in Seq(T) /\ t # <<>> /\ Head(t) = resize /\ Tail(t) = u BY <1>3, <1>6, Rests
<1> HIDE DEF t
<1>8. v # <<>> /\ Head(v) = alloc /\ Tail(v) = t BY <1>3, <1>7, Rests
<1> HIDE DEF v
<1>9. (<<resize>> \o <<store>>) \o r = t BY <1>1, <1>5, ConcatAssociative DEF t, u
<1>10. (<<alloc>> \o (<<resize>> \o <<store>>)) \o r = v
  <2> DEFINE s == <<resize>> \o <<store>>
  <2>1. s \in Seq(T) BY <1>5, ConcatProperties
  <2>2. s \o r = t BY <1>9
  <2> HIDE DEF s
  <2>3. (<<alloc>> \o s) \o r = <<alloc>> \o (s \o r) BY <1>1, <1>5, <2>1, ConcatAssociative
  <2>4. (<<alloc>> \o s) \o r = v BY <2>2, <2>3 DEF v
  <2> QED BY <2>4 DEF s
<1>11. r = <<>> => (<<resize>> \o <<store>>) = t /\ (<<alloc>> \o (<<resize>> \o <<store>>)) = v
  <2>1. r = <<>> => u = <<store>> BY <1>5, ConcatEmptySeq DEF u
  <2> QED BY <2>1 DEF t, v
<1>12. w = t \/ w = v BY <1>2, <1>4, <1>9, <1>10, <1>11
<1>13. alloc.op = "alloc_space" BY DEF alloc
<1> QED BY <1>6, <1>7, <1>8, <1>12, <1>13 DEF resize, store, WritesThen

\* The call goes on with writeinode, and is in plan.
LEMMA WriteIsPlanned ==
  ASSUME NEW S, NEW n, NEW buf, NEW r \in Seq(S),
         todo' = WriteInode(n, buf) \o r \/ (todo' = WriteInode(n, buf) /\ r = <<>>),
         r \in Seq(LaterSteps') \/ (MayMake' /\ \E make \in MakeSteps' : r = <<make>>),
         r # <<>> => IsDir(n)',
         IsDir(n)' => /\ buf # <<>> /\ Counted(buf) /\ AllHeld(buf)'
                      /\ Len(buf) >= inodes'[n].size /\ (inodes'[n].size = 0 => Len(buf) = 1)
  PROVE  InPlan'
<1> DEFINE w == todo'
<1>1. w # <<>> /\ (WritesThen(w, n, buf, r) \/ (Head(w).op = "alloc_space" /\ WritesThen(Tail(w), n, buf, r)))
  <2>1. w = WriteInode(n, buf) \o r \/ (w = WriteInode(n, buf) /\ r = <<>>) OBVIOUS
  <2> HIDE DEF w
  <2> QED BY <2>1, WriteInodeList
<1>2. Lands(n, buf)'
  <2>1. Counted(buf)' = Counted(buf) BY DEF Counted
  <2> QED BY <2>1 DEF Lands, Sound
<1>3. IsEnd(r)' BY DEF IsEnd
<1>4. ASSUME NEW t, WritesThen(t, n, buf, r)
      PROVE  /\ t # <<>> /\ Tail(t) # <<>> /\ Head(t).op = "resize" /\ Head(t).ino = n
             /\ Head(t).size = Len(buf) /\ Head(Tail(t)).op = "store" /\ Head(Tail(t)).ino = n
             /\ Head(Tail(t)).buf = buf /\ Tail(Tail(t)) = r
  BY <1>4 DEF WritesThen
<1>5. CASE WritesThen(w, n, buf, r)
  <2>1. Writing(todo)' BY <1>2, <1>3, <1>4, <1>5 DEF Writing
  <2> QED BY <2>1 DEF InPlan, AtWrite
<1>6. CASE Head(w).op = "alloc_space" /\ WritesThen(Tail(w), n, buf, r)
  <2>1. Rest' = Tail(w) /\ Now'.op = "alloc_space" BY <1>6 DEF Rest, Now
  <2>2. WritesThen(Rest', n, buf, r) BY <1>6, <2>1
  <2>3. Writing(Rest)' BY <1>2, <1>3, <1>4, <2>2 DEF Writing
  <2> QED BY <2>1, <2>3 DEF InPlan, AtWrite
<1> QED BY <1>1, <1>5, <1>6

\* What a directory is with an entry more.
LEMMA WithEntryIs ==
  ASSUME NEW buf \in Seq(CellValues), buf # <<>>, Counted(buf), NEW n \in Others, NEW name \in Names
  PROVE  LET new == WithEntry(buf, n, name) IN
         /\ new \in Seq(CellValues) /\ Len(new) = Len(buf) + 1 /\ Counted(new)
         /\ \A i \in EntriesOf(new) :
              new[i + 1].ino = n \/ (i \in EntriesOf(buf) /\ new[i + 1] = buf[i + 1])
<1> DEFINE h == [buf[1] EXCEPT !.count = @ + 1]
           head == [buf EXCEPT ![1] = h]
           e == Entry(n, name)
           new == WithEntry(buf, n, name)
<1>1. Len(buf) \in Nat /\ Len(buf) > 0 /\ DOMAIN buf = 1 .. Len(buf) /\ 1 \in 1 .. Len(buf) OBVIOUS
<1>2. buf[1].kind = "header" /\ buf[1].count = Len(buf) - 1 BY DEF Counted
<1>3. new \in Seq(CellValues) BY <1>2, WithEntryOK
<1>4. buf[1] \in CellValues BY <1>1
<1>5. buf[1] \in [kind : {"header"}, count : Nat] BY <1>2, <1>4 DEF CellValues
<1>6. h.count = Len(buf) /\ h.kind = "header" /\ h \in CellValues
  <2>1. h.count = buf[1].count + 1 /\ h.kind = "header" BY <1>5
  <2>2. buf[1].count + 1 \in Nat BY <1>5
  <2>3. h \in CellValues BY <1>5, <2>2 DEF CellValues
  <2> QED BY <1>1, <1>2, <2>1, <2>3
<1>7. [buf EXCEPT ![1].count = @ + 1] = head BY <1>1
<1> HIDE DEF h
<1>8. head \in Seq(CellValues) /\ Len(head) = Len(buf) BY <1>1, <1>6, ExceptSeq
<1>9. head[1] = h /\ \A i \in 2 .. Len(buf) : head[i] = buf[i] BY <1>1
<1>10. e \in CellValues /\ e.ino = n BY DEF Entry, CellValues
<1> HIDE DEF head, e
<1>11. /\ Len(new) = Len(buf) + 1 /\ new[Len(buf) + 1] = e
       /\ \A i \in 1 .. Len(buf) : new[i] = head[i]
  <2>1. new = Append(head, e) BY <1>7 DEF WithEntry, e
  <2> HIDE DEF new
  <2> QED BY <1>8, <1>10, <2>1, AppendProperties
<1> HIDE DEF new
<1>12. new[1] = h BY <1>1, <1>9, <1>11
<1>13. Counted(new) BY <1>1, <1>6, <1>11, <1>12 DEF Counted
<1>14. ASSUME NEW i \in EntriesOf(new)
       PROVE  new[i + 1].ino = n \/ (i \in EntriesOf(buf) /\ new[i + 1] = buf[i + 1])
  <2>1. i \in 1 .. Len(buf) /\ new[i + 1].kind = "entry" BY <1>1, <1>11 DEF EntriesOf
  <2>2. CASE i = Len(buf) BY <1>10, <1>11, <2>2
  <2>3. CASE i # Len(buf)
    <3>0. i \in Nat /\ i >= 1 /\ i < Len(buf)
      <4>1. PICK k \in Nat : k = Len(buf) BY <1>1
      <4>2. i \in 1 .. k /\ i # k BY <2>1, <2>3, <4>1
      <4> QED BY <4>1, <4>2
    <3>1. i + 1 \in 2 .. Len(buf) /\ i \in 1 .. Len(buf) - 1 /\ i + 1 \in 1 .. Len(buf) BY <1>1, <3>0
    <3>2. new[i + 1] = buf[i + 1] BY <1>1, <1>9, <1>11, <3>1
    <3> QED BY <1>2, <2>1, <3>1, <3>2 DEF EntriesOf
  <2> QED BY <2>2, <2>3
<1> QED BY <1>3, <1>11, <1>13, <1>14 DEF new

-----------------------------------------------------------------------------
(***************************************************************************)
(* Each step keeps it.                                                     *)
(***************************************************************************)

\* The directories that are there were there.
LEMMA CoverStays ==
  ASSUME IInv, CoverOK,
         \A n \in Inodes : Formatted(n)' => Formatted(n) /\ Content(n)' = Content(n),
         \A n \in Inodes : opens'[n] >= 0 /\ inodes'[n].links >= opens'[n],
         \A n \in Inodes : Held(n) => Held(n)'
  PROVE  CoverOK'
<1>1. ASSUME NEW d \in Inodes, Formatted(d)' PROVE AllHeld(Content(d))'
  <2> DEFINE buf == Content(d)
  <2>1. Formatted(d) /\ Content(d)' = buf BY <1>1
  <2>2. AllHeld(buf) /\ buf \in Seq(CellValues) BY <2>1, ContentOK DEF CoverOK, IInv
  <2> HIDE DEF buf
  <2>3. ASSUME NEW i \in EntriesOf(buf)
        PROVE  inodes'[buf[i + 1].ino].links >= 1 + opens'[buf[i + 1].ino]
    <3>1. buf[i + 1].ino \in Inodes BY <2>2, EntryIs
    <3>2. Held(buf[i + 1].ino) BY <2>2 DEF AllHeld
    <3>3. PICK n \in Inodes : n = buf[i + 1].ino BY <3>1
    <3>4. Held(n) BY <3>2, <3>3
    <3>5. Held(n)' BY <3>4
    <3> QED BY <3>3, <3>5 DEF Held
  <2> QED BY <2>1, <2>3 DEF AllHeld, EntriesOf, Held
<1> QED BY <1>1 DEF CoverOK

LEMMA DirsStay ==
  ASSUME DirsOK, disk' = disk, \A d \in Inodes : IsDir(d) => ~BeingStored(d),
         \A d \in Inodes : IsDir(d) => inodes'[d] = inodes[d] /\ opens'[d] = opens[d],
         \A d \in Inodes : IsDir(d)' => IsDir(d)
  PROVE  DirsOK' /\ \A d \in Inodes : IsDir(d) => IsDir(d)' /\ Content(d)' = Content(d)
<1>1. Root \in Inodes BY Bounds DEF Others
<1>2. ASSUME NEW d \in Inodes, IsDir(d) PROVE IsDir(d)' /\ Content(d)' = Content(d)
  BY <1>2, SameContent
<1>3. ASSUME NEW d \in Inodes, IsDir(d)' PROVE DirOK(d)'
  <2>1. IsDir(d) /\ DirOK(d) /\ ~BeingStored(d) BY <1>3 DEF DirsOK
  <2>2. Counted(Content(d))' BY <1>2, <2>1 DEF DirOK, Counted
  <2> QED BY <2>1, <2>2 DEF DirOK
<1> QED BY <1>1, <1>2, <1>3 DEF DirsOK

\* The call, or the program, is over.
LEMMA OverIsPlanned == todo' = <<>> => InPlan'
BY DEF InPlan

\* What holds while nothing was removed.
NamesFine == "reused" \notin spoiled /\ CoverOK /\ (spoiled = {} => PlanOK)

LEMMA KilledKeeps ==
  ASSUME IInv, CoverOK, PlanOK, spoiled = {}, todo # <<>>, Killed, UNCHANGED <<inodes, disk, calls>>
  PROVE  NamesFine'
<1>1. /\ todo' = <<>> /\ opens' = [n \in Inodes |-> 0]
      /\ spoiled' = IF Torn THEN {"torn"} ELSE {}
  BY DEF Killed, Done
<1>2. CoverOK'
  <2>1. \A n \in Inodes : opens[n] >= 0 /\ opens[n] \in Int BY OpensInt DEF CoverOK
  <2>2. \A n \in Inodes : opens'[n] = 0 BY <1>1
  <2>3. ASSUME NEW n \in Inodes PROVE inodes'[n].links - opens'[n] >= inodes[n].links - opens[n]
    BY <2>1, <2>2, OpensInt
  <2> QED BY <2>2, <2>3, OpensInt, SameCover
<1>3. CASE Torn BY <1>1, <1>2, <1>3 DEF NamesFine
<1>4. CASE ~Torn
  <2>1. \A d \in Inodes : IsDir(d) => ~BeingStored(d) BY <1>4 DEF BeingStored, Torn
  <2>2. calls' \in Nat /\ calls' >= calls /\ calls' <= MaxCalls
    BY DEF IInv, TypeOK, PlanOK, CountsOK
  <2>3. CountsOK' /\ DirsOK' BY <1>1, <2>1, <2>2, SamePlan DEF PlanOK
  <2> QED BY <1>1, <1>2, <1>4, <2>3, OverIsPlanned DEF NamesFine, PlanOK
<1> QED BY <1>3, <1>4

\* The inode that is taken had no link, so it has no name and is not open.
LEMMA AllocInodeKeeps ==
  ASSUME IInv, CoverOK, PlanOK, AllocInode
  PROVE  NamesFine'
<1> DEFINE unlinked == {n \in Inodes : inodes[n].links = 0}
<1>1. /\ spoiled = {} /\ AtNew /\ TypeOK /\ opens' = opens /\ disk' = disk /\ calls' = calls
      /\ Continue(Rest) /\ CountsOK /\ DirsOK
      /\ \A d \in Inodes : ~BeingStored(d)
  BY Reached, PlanReached DEF AllocInode, IInv, PlanOK
<1>2. CASE unlinked = {}
  <2>1. spoiled' = {"full"} /\ inodes' = inodes BY <1>1, <1>2 DEF AllocInode
  <2>2. CoverOK'
    <3>1. calls \in Nat /\ calls <= MaxCalls BY <1>1 DEF TypeOK, CountsOK
    <3> QED BY <1>1, <2>1, <3>1, SamePlan
  <2> QED BY <2>1, <2>2 DEF NamesFine
<1>3. CASE unlinked # {}
  <2> DEFINE new == Inode({}, 1, 0, NoBlock, 0)
  <2>2. PICK n \in unlinked : n = First(unlinked)
    <3>1. unlinked \in SUBSET Nat BY Bounds DEF Inodes
    <3> HIDE DEF unlinked
    <3> QED BY <1>3, <3>1, FirstIn
  <2>1. /\ newino' = n /\ inodes' = [inodes EXCEPT ![n] = new]
        /\ spoiled' = IF InUse(n) THEN spoiled \cup {"reused"} ELSE spoiled
    BY <1>3, <2>2 DEF AllocInode
  <2>3. n \in Inodes /\ inodes[n].links = 0 BY <2>2
  <2> HIDE DEF unlinked
  <2>4. n \in Others /\ n # NoInode BY <2>3, Bounds DEF IInv, FreeOK, Others
  <2>5. opens[n] = 0 /\ ~Held(n)
    <3>1. opens[n] \in Int /\ opens[n] >= 0 /\ inodes[n].links >= opens[n]
      BY <2>3, OpensInt DEF CoverOK
    <3> QED BY <2>3, <3>1 DEF Held
  <2>6. ~InUse(n)
    <3>1. inodes[n].links >= (IF n \in Named THEN 1 ELSE 0) + opens[n] BY <2>3, CoverIsEnough
    <3> QED BY <2>3, <2>5, <3>1 DEF InUse
  <2>7. spoiled' = {} BY <1>1, <2>1, <2>6
  <2>8. ~IsDir(n) BY <1>1, <2>3 DEF DirsOK, DirOK
  <2>9. /\ new.flags = {} /\ new.links = 1 /\ new.start = NoBlock /\ new.len = 0
        /\ inodes'[n] = new /\ \A m \in Inodes : m # n => inodes'[m] = inodes[m]
    BY <1>1, <2>1, <2>3 DEF TypeOK, Inode
  <2> HIDE DEF new
  <2>10. ~IsDir(n)' BY <2>1, <2>9 DEF IsDir
  <2>11. /\ DirsOK' 
         /\ \A d \in Inodes : IsDir(d) => IsDir(d)' /\ Content(d)' = Content(d)
         /\ \A d \in Inodes : IsDir(d)' => IsDir(d)
    <3>1. \A d \in Inodes : IsDir(d) => inodes'[d] = inodes[d] /\ opens'[d] = opens[d]
      BY <1>1, <2>8, <2>9
    <3>2. ASSUME NEW d \in Inodes, IsDir(d)' PROVE IsDir(d)
      <4>1. CASE d = n BY <2>10, <3>2, <4>1
      <4>2. CASE d # n BY <2>9, <3>2, <4>2 DEF IsDir
      <4> QED BY <4>1, <4>2
    <3> QED BY <1>1, <3>1, <3>2, DirsStay
  <2>12. CoverOK'
    <3>1. \A m \in Inodes : Formatted(m)' => Formatted(m) /\ Content(m)' = Content(m)
      BY <2>11 DEF Formatted
    <3>2. ASSUME NEW m \in Inodes
          PROVE  /\ opens'[m] >= 0 /\ inodes'[m].links >= opens'[m]
                 /\ Held(m) => Held(m)'
      <4>1. CASE m = n BY <1>1, <2>5, <2>9, <4>1
      <4>2. CASE m # n BY <1>1, <2>9, <4>2 DEF CoverOK, Held
      <4> QED BY <4>1, <4>2
    <3> QED BY <3>1, <3>2, CoverStays
  <2>13. CountsOK'
    <3>1. ASSUME NEW m \in Inodes PROVE inodes'[m].links <= 1 + calls'
      <4>1. calls \in Nat BY <1>1 DEF TypeOK
      <4>2. CASE m = n BY <1>1, <2>9, <4>1, <4>2
      <4>3. CASE m # n BY <1>1, <2>9, <4>3 DEF CountsOK
      <4> QED BY <4>2, <4>3
    <3>2. ASSUME NEW m \in Others, inodes'[m].start = NoBlock PROVE inodes'[m].len = 0
      <4>1. CASE m = n BY <2>9, <4>1
      <4>2. CASE m # n BY <1>1, <2>9, <3>2, <4>2 DEF CountsOK, Others
      <4> QED BY <4>1, <4>2
    <3> QED BY <1>1, <3>1, <3>2, SameSteps DEF CountsOK
  <2>14. InPlan'
    <3>1. calls > 0 /\ Rest # <<>> /\ Head(Rest) \in AddSteps BY <1>1 DEF AtNew
    <3>2. PICK make \in MakeSteps : Tail(Rest) = <<make>> BY <1>1 DEF AtNew
    <3>3. todo' = Rest BY <1>1 DEF Continue
    <3>4. Blank(newino)' BY <1>1, <2>1, <2>5, <2>9, <3>1 DEF Blank, new
    <3>5. MayMake' /\ Held(newino)' /\ newino' # NoInode
      <4>1. inodes'[n].links = 1 /\ opens'[n] = 0 BY <1>1, <2>5, <2>9
      <4> QED BY <2>1, <2>4, <3>4, <4>1 DEF MayMake, Held
    <3>6. Head(Rest) \in AddSteps'
      <4>1. Head(Rest) \in NameSteps /\ Head(Rest).op = "add_to_dir" /\ IsDir(Head(Rest).dir)
        BY <3>1 DEF AddSteps
      <4>2. PICK s \in NameSteps : s = Head(Rest) /\ s.op = "add_to_dir" /\ IsDir(s.dir) BY <4>1
      <4>3. s.dir \in Inodes BY <4>2 DEF NameSteps, Others
      <4>4. IsDir(s.dir)' BY <2>11, <4>2, <4>3
      <4>5. s \in NameSteps' BY <4>2, SameSteps
      <4>6. s \in AddSteps' BY <4>2, <4>4, <4>5 DEF AddSteps, IsDir
      <4> QED BY <3>3, <4>2, <4>6
    <3>7. Now' = Head(Rest) /\ Rest' = <<make>> BY <3>2, <3>3 DEF Now, Rest
    <3>8. Now' \in LaterSteps' BY <3>5, <3>6, <3>7 DEF LaterSteps
    <3>9. IsEnd(Rest)' BY <3>2, <3>5, <3>7, SameSteps DEF IsEnd
    <3> QED BY <3>8, <3>9 DEF InPlan, AtEnd
  <2> QED BY <2>7, <2>11, <2>12, <2>13, <2>14 DEF NamesFine, PlanOK
<1> QED BY <1>2, <1>3

\* The blocks that a size takes hold it.
LEMMA BlocksHold ==
  ASSUME NEW size \in Nat
  PROVE  size <= BlocksFor(size) * Cells
<1>1. ASSUME NEW a \in Nat, NEW w \in Nat, w > 0 PROVE w * (a \div w) > a - w /\ a \div w \in Int
  BY <1>1
<1>2. size + Cells - 1 \in Nat BY Bounds
<1> DEFINE q == BlocksFor(size)
<1>3. q \in Int /\ Cells * q > size + Cells - 1 - Cells BY <1>1, <1>2, Bounds DEF BlocksFor
<1> HIDE DEF q
<1>4. PICK k \in Int : k = q BY <1>3
<1>5. \A a, b \in Int : a * b = b * a /\ a * b \in Int OBVIOUS
<1>6. PICK m \in Int : m = k * Cells /\ m = Cells * k BY <1>4, <1>5, Bounds
<1>7. m > size - 1 BY <1>3, <1>4, <1>6, Bounds
<1>8. size <= m BY <1>7
<1> QED BY <1>4, <1>6, <1>8 DEF q

LEMMA StoreIs ==
  ASSUME NEW s \in PlainSteps, s.op = "store"
  PROVE  s.ino \in Others /\ s.buf \in Seq(CellValues)
<1>1. s \notin NameSteps BY DEF NameSteps
<1>2. s \in OtherSteps BY <1>1 DEF PlainSteps
<1> QED BY <1>2 DEF OtherSteps

\* The steps of writeinode stay in plan.
LEMMA WritingStays ==
  ASSUME NEW n \in Inodes, NEW steps, Writing(steps), Head(steps).ino = n,
         Head(Tail(steps)).buf \in Seq(CellValues), newino' = newino,
         \A m \in Inodes : IsDir(m) => IsDir(m)',
         IsDir(n)' => IsDir(n) /\ inodes'[n].size = inodes[n].size,
         newino # NoInode => newino \in Inodes,
         \A m \in Inodes : Held(m) => Held(m)',
         MayMake => MayMake'
  PROVE  Writing(steps)'
<1>1. PICK rest : rest = Tail(Tail(steps)) OBVIOUS
<1>2. PICK buf \in Seq(CellValues) : buf = Head(Tail(steps)).buf OBVIOUS
<1>3. IsEnd(rest) /\ Lands(n, buf) /\ (rest # <<>> => IsDir(n)) BY <1>1, <1>2 DEF Writing
<1>4. IsEnd(rest)'
  <2>1. newino # NoInode /\ Held(newino) => Held(newino)'
    <3>1. CASE newino # NoInode
      <4>1. PICK m \in Inodes : m = newino BY <3>1
      <4>2. Held(m) => Held(m)' BY <4>1
      <4> QED BY <4>1, <4>2 DEF Held
    <3> QED BY <3>1
  <2>2. /\ rest \in Seq(LaterSteps') \/ (MayMake' /\ \E make \in MakeSteps' : rest = <<make>>)
    BY <1>3, <2>1, EndStays
  <2> QED BY <2>2 DEF IsEnd
<1>5. Lands(n, buf)'
  <2>1. SUFFICES ASSUME IsDir(n)'
                 PROVE  Sound(buf)' /\ Len(buf) >= inodes'[n].size /\ (inodes'[n].size = 0 => Len(buf) = 1)
    BY DEF Lands
  <2>2. IsDir(n) /\ Sound(buf) BY <1>3, <2>1 DEF Lands
  <2>3. Sound(buf)' BY <2>2, SameEntries DEF Sound
  <2> QED BY <1>3, <2>1, <2>2, <2>3 DEF Lands
<1> QED BY <1>1, <1>2, <1>3, <1>4, <1>5 DEF Writing

\* The free extent is no directory.
LEMMA AllocSpaceKeeps ==
  ASSUME IInv, CoverOK, PlanOK, AllocSpace
  PROVE  NamesFine'
<1>1. /\ spoiled = {} /\ TypeOK /\ disk' = disk /\ calls' = calls /\ newino' = newino
      /\ todo # <<>> /\ AtAllocSpace /\ CountsOK /\ DirsOK /\ Writing(Rest)
      /\ \A d \in Inodes : ~BeingStored(d)
  BY Reached, PlanReached DEF AllocSpace, IInv, PlanOK
<1>2. PICK b : b = Now.blocks OBVIOUS
<1>3. CASE /\ inodes' = [inodes EXCEPT ![Free].start = @ + b, ![Free].len = @ - b]
           /\ Continue(Rest)
           /\ UNCHANGED <<opens, spoiled>>
  <2>1. Free \in Inodes /\ ~IsDir(Free) BY <1>1, Bounds DEF DirsOK, DirOK
  <2>2. /\ inodes'[Free].links = inodes[Free].links /\ inodes'[Free].flags = inodes[Free].flags
        /\ \A m \in Inodes : m # Free => inodes'[m] = inodes[m]
    BY <1>1, <1>3, <2>1 DEF TypeOK, InodeRecords
  <2>3. /\ DirsOK'
        /\ \A d \in Inodes : IsDir(d) => IsDir(d)' /\ Content(d)' = Content(d)
        /\ \A d \in Inodes : IsDir(d)' => IsDir(d)
    <3>1. \A d \in Inodes : IsDir(d) => inodes'[d] = inodes[d] /\ opens'[d] = opens[d]
      BY <1>3, <2>1, <2>2
    <3>2. \A d \in Inodes : IsDir(d)' => IsDir(d) BY <2>2 DEF IsDir
    <3> QED BY <1>1, <3>1, <3>2, DirsStay
  <2>4. \A m \in Inodes : inodes'[m].links = inodes[m].links /\ opens'[m] = opens[m]
    BY <1>3, <2>2
  <2>5. \A m \in Inodes : Held(m) => Held(m)' BY <2>4 DEF Held
  <2>6. CoverOK'
    <3>1. \A m \in Inodes : Formatted(m)' => Formatted(m) /\ Content(m)' = Content(m)
      BY <2>3 DEF Formatted
    <3>2. \A m \in Inodes : opens'[m] >= 0 /\ inodes'[m].links >= opens'[m]
      BY <2>4 DEF CoverOK
    <3> QED BY <2>5, <3>1, <3>2, CoverStays
  <2>7. CountsOK' BY <1>1, <2>2, <2>4, SameSteps DEF CountsOK, Others
  <2>8. InPlan'
    <3>1. PICK steps : steps = Rest OBVIOUS
    <3>2. PICK n \in Others : n = Head(steps).ino BY <1>1, <3>1 DEF AtAllocSpace, ResizeSteps
    <3>3. n \in Inodes /\ n # Free BY <3>2 DEF Others
    <3>4. Head(Tail(steps)).buf \in Seq(CellValues)
      <4>1. Tail(steps) \in Seq(PlainSteps) /\ Tail(steps) # <<>> /\ Head(Tail(steps)).op = "store"
        BY <1>1, <3>1 DEF AtAllocSpace, Writing
      <4>2. Head(Tail(steps)) \in PlainSteps BY <4>1, HeadTailProperties
      <4> QED BY <4>1, <4>2, StoreIs
    <3>5. MayMake => MayMake'
      <4>1. SUFFICES ASSUME MayMake PROVE MayMake' OBVIOUS
      <4>2. PICK m \in Others : m = newino BY <1>1, <4>1 DEF MayMake, TypeOK
      <4>3. inodes'[m] = inodes[m] BY <2>2, <4>2 DEF Others
      <4> QED BY <1>1, <1>3, <4>1, <4>2, <4>3 DEF MayMake, Blank
    <3>6. newino # NoInode => newino \in Inodes BY <1>1 DEF TypeOK, Others
    <3>7. Writing(steps)'
      <4>1. IsDir(n)' => IsDir(n) /\ inodes'[n].size = inodes[n].size BY <2>2, <2>3, <3>3
      <4>2. Writing(steps) /\ newino' = newino /\ \A m \in Inodes : IsDir(m) => IsDir(m)'
        BY <1>1, <2>3, <3>1
      <4> QED BY <2>5, <3>2, <3>3, <3>4, <3>5, <3>6, <4>1, <4>2, WritingStays
    <3>8. todo' = steps BY <1>3, <3>1 DEF Continue
    <3>9. Writing(todo)' BY <3>7, <3>8
    <3> QED BY <3>9 DEF InPlan, AtWrite
  <2> QED BY <1>1, <1>3, <2>3, <2>6, <2>7, <2>8 DEF NamesFine, PlanOK
<1>4. CASE Killed /\ UNCHANGED inodes BY <1>1, <1>4, KilledKeeps
<1>5. CASE spoiled' = spoiled \cup {"full"} /\ UNCHANGED <<inodes, opens>>
  <2>1. CoverOK'
    <3>1. calls \in Nat /\ calls <= MaxCalls BY <1>1 DEF TypeOK, CountsOK
    <3> QED BY <1>1, <1>5, <3>1, SamePlan
  <2> QED BY <1>1, <1>5, <2>1 DEF NamesFine
<1> QED BY <1>2, <1>3, <1>4, <1>5 DEF AllocSpace

\* The directory that grows has the entries it had: the header does not count more.
LEMMA LongerContent ==
  ASSUME TypeOK, NEW n \in Inodes, NEW size \in Nat, disk' = disk,
         inodes'[n].start = inodes[n].start, inodes'[n].size = size, size >= inodes[n].size,
         inodes[n].size > 0, Counted(Content(n))
  PROVE  /\ \A i \in EntriesOf(Content(n)') : /\ i \in EntriesOf(Content(n))
                                              /\ Content(n)'[i + 1] = Content(n)[i + 1]
<1>1. PICK start : start = inodes[n].start /\ inodes'[n].start = start OBVIOUS
<1>2. PICK k \in Nat : k = inodes[n].size BY DEF TypeOK, InodeRecords
<1> DEFINE cell(i) == LET a == start * Cells + i - 1 IN IF a \in DOMAIN disk THEN disk[a] ELSE Unset
<1>3. PICK old : old = Content(n) OBVIOUS
<1>4. PICK new : new = Content(n)' OBVIOUS
<1>5. old = [i \in 1 .. k |-> cell(i)] BY <1>1, <1>2, <1>3 DEF Content
<1>6. new = [i \in 1 .. size |-> cell(i)] BY <1>1, <1>4 DEF Content
<1>7. \A i \in Int : cell(i) \in CellValues
  <2>1. Unset \in CellValues BY DEF Unset, CellValues
  <2> QED BY <2>1 DEF TypeOK
<1> HIDE DEF cell
<1>8. Len(old) = k
  <2>1. old \in [1 .. k -> CellValues] BY <1>5, <1>7
  <2> QED BY <2>1, FunctionIsSeq
<1>9. k >= 1 /\ size >= k BY <1>2
<1>10. Len(new) = size
  <2>1. new \in [1 .. size -> CellValues] BY <1>6, <1>7
  <2> QED BY <2>1, FunctionIsSeq
<1>11. old[1].count = k - 1
  <2>1. old # <<>> BY <1>8, <1>9
  <2> QED BY <1>3, <1>8, <2>1 DEF Counted
<1>12. \A i \in 1 .. k : new[i] = old[i] BY <1>5, <1>6, <1>9
<1>13. ASSUME NEW i \in EntriesOf(new) PROVE i \in EntriesOf(old) /\ new[i + 1] = old[i + 1]
  <2>1. i \in 1 .. size - 1 /\ i <= new[1].count /\ new[i + 1].kind = "entry"
    BY <1>10 DEF EntriesOf
  <2>2. new[1] = old[1] BY <1>9, <1>12
  <2>3. i \in 1 .. k - 1 /\ i + 1 \in 1 .. k BY <1>9, <1>11, <2>1, <2>2
  <2>4. new[i + 1] = old[i + 1] BY <1>12, <2>3
  <2> QED BY <1>8, <2>1, <2>2, <2>3, <2>4 DEF EntriesOf
<1> QED BY <1>3, <1>4, <1>13

\* The extent after a change of the size: a directory that had cells keeps its place.
LEMMA ExtentHolds ==
  ASSUME IInv, CountsOK, At("resize")
  PROVE  LET i == inodes[Now.ino]
             e == Extent(i, Now.size)
         IN /\ e.start = NoBlock => e.len = 0
            /\ Now.size <= e.len * Cells
            /\ Now.size > 0 /\ i.size > 0 /\ i.size <= i.len * Cells => e.start = i.start
<1>1. AtResize /\ TypeOK /\ spoiled = {} BY Reached DEF IInv
<1>2. PICK n \in Others : n = Now.ino BY <1>1 DEF AtResize, ResizeSteps
<1>3. PICK size \in Nat : size = Now.size BY <1>1 DEF AtResize, ResizeSteps
<1> DEFINE i == inodes[n]
           e == Extent(i, size)
<1>4. i.start = NoBlock => i.len = 0 BY <1>2 DEF CountsOK
<1>5. i.len \in Nat /\ i.size \in Nat BY <1>1, <1>2 DEF TypeOK, InodeRecords, Others
<1>6. size > i.len * Cells /\ i.start = NoBlock => chunk \in Nat
  BY <1>1, <1>2, <1>3 DEF AtResize, TakesChunk, ChunkFor
<1>7. size <= BlocksFor(size) * Cells BY BlocksHold
<1>8. PICK all \in Nat : all = i.len * Cells
  <2>1. \A a, b \in Nat : a * b \in Nat OBVIOUS
  <2> QED BY <1>5, <2>1, Bounds
<1>9. i.len = 0 => all = 0 BY <1>8, Bounds
<1> HIDE DEF i
<1>10. \/ e = [start |-> NoBlock, len |-> 0] /\ size = 0
       \/ e = [start |-> chunk, len |-> BlocksFor(size)] /\ size > all /\ i.start = NoBlock
       \/ e = [start |-> i.start, len |-> BlocksFor(size)] /\ i.start # NoBlock
       \/ e = [start |-> i.start, len |-> i.len] /\ size <= all
  <2>1. CASE size = 0 /\ i.size > 0
    <3>1. ~(size > i.len * Cells) BY <1>8, <2>1
    <3> QED BY <2>1, <3>1 DEF Extent
  <2>2. CASE ~(size = 0 /\ i.size > 0) /\ size > i.len * Cells /\ i.start = NoBlock
    BY <1>8, <2>2 DEF Extent
  <2>3. CASE ~(size = 0 /\ i.size > 0) /\ size > i.len * Cells /\ i.start # NoBlock
    BY <2>3 DEF Extent
  <2>4. CASE ~(size = 0 /\ i.size > 0) /\ ~(size > i.len * Cells)
    <3>1. e = [start |-> i.start, len |-> i.len] BY <2>4 DEF Extent
    <3> QED BY <1>8, <2>4, <3>1
  <2> QED BY <2>1, <2>2, <2>3, <2>4
<1> HIDE DEF e
<1>11. (e.start = NoBlock => e.len = 0) /\ size <= e.len * Cells
  <2>1. CASE e = [start |-> NoBlock, len |-> 0] /\ size = 0
    <3>1. 0 <= 0 * Cells BY Bounds
    <3> QED BY <2>1, <3>1
  <2>2. CASE e = [start |-> chunk, len |-> BlocksFor(size)] /\ size > all /\ i.start = NoBlock
    <3>1. chunk # NoBlock BY <1>6, <1>8, <2>2 DEF NoBlock
    <3> QED BY <1>7, <2>2, <3>1
  <2>3. CASE e = [start |-> i.start, len |-> BlocksFor(size)] /\ i.start # NoBlock
    BY <1>7, <2>3
  <2>4. CASE e = [start |-> i.start, len |-> i.len] /\ size <= all
    BY <1>4, <1>8, <2>4
  <2> QED BY <1>10, <2>1, <2>2, <2>3, <2>4
<1>12. size > 0 /\ i.size > 0 /\ i.size <= all => e.start = i.start
  <2>1. CASE size > all /\ i.start = NoBlock BY <1>4, <1>5, <1>9, <2>1
  <2>2. CASE ~(size > all /\ i.start = NoBlock) BY <1>10, <2>2
  <2> QED BY <2>1, <2>2
<1> QED BY <1>2, <1>3, <1>8, <1>11, <1>12 DEF i, e

\* What a directory has that is as it was.
LEMMA EntriesStay ==
  ASSUME IInv, CoverOK, NEW d \in Inodes, Formatted(d),
         \A n \in Inodes : Held(n) => Held(n)',
         \A i \in EntriesOf(Content(d)') : i \in EntriesOf(Content(d)) /\ Content(d)'[i + 1] = Content(d)[i + 1]
  PROVE  AllHeld(Content(d))'
<1>1. PICK old : old = Content(d) OBVIOUS
<1>2. PICK new : new = Content(d)' OBVIOUS
<1>3. old \in Seq(CellValues) /\ AllHeld(old) BY <1>1, ContentOK DEF CoverOK, IInv
<1>4. ASSUME NEW i \in EntriesOf(new) PROVE Held(new[i + 1].ino)'
  <2>1. i \in EntriesOf(old) /\ new[i + 1] = old[i + 1] BY <1>1, <1>2
  <2>2. PICK n \in Inodes : n = new[i + 1].ino BY <1>3, <2>1, EntryIs
  <2>3. Held(n) BY <1>3, <2>1, <2>2 DEF AllHeld
  <2>4. Held(n)' BY <2>3
  <2> QED BY <2>2, <2>4
<1>5. AllHeld(new)' BY <1>4 DEF AllHeld, EntriesOf
<1> QED BY <1>2, <1>5 DEF AllHeld, EntriesOf

\* A directory is longer than its header says until its content is written.
LEMMA ResizeKeeps ==
  ASSUME IInv, CoverOK, PlanOK, Resize
  PROVE  NamesFine'
<1>1. /\ spoiled = {} /\ TypeOK /\ disk' = disk /\ calls' = calls /\ newino' = newino
      /\ opens' = opens /\ Continue(Rest) /\ AtResize /\ CountsOK /\ DirsOK /\ Writing(todo)
      /\ At("resize") /\ "reused" \notin spoiled'
      /\ \A d \in Inodes : ~BeingStored(d)
  BY Reached, PlanReached DEF Resize, IInv, PlanOK
<1>2. PICK n \in Others : n = Now.ino BY <1>1 DEF AtResize, ResizeSteps
<1>3. PICK size \in Nat : size = Now.size BY <1>1 DEF AtResize, ResizeSteps
<1>4. PICK steps : steps = Rest /\ steps # <<>> /\ steps \in Seq(PlainSteps) /\ Head(steps).op = "store"
  BY <1>1 DEF AtResize, Writing, Rest
<1>5. PICK buf \in Seq(CellValues) : buf = Head(steps).buf
  <2>1. Head(steps) \in PlainSteps BY <1>4, HeadTailProperties
  <2> QED BY <1>4, <2>1, StoreIs
<1>6. PICK rest : rest = Tail(steps) OBVIOUS
<1>7. /\ n \in Inodes /\ n # Free /\ size = Len(buf) /\ Lands(n, buf) /\ Head(steps).ino = n
      /\ IsEnd(rest) /\ (rest # <<>> => IsDir(n))
  BY <1>1, <1>2, <1>3, <1>4, <1>5, <1>6 DEF Writing, Now, Rest, Others
<1>8. PICK e : /\ e.start \in Nat \cup {NoBlock} /\ e.len \in Nat /\ (e.start = NoBlock => e.len = 0)
               /\ size <= e.len * Cells
               /\ size > 0 /\ inodes[n].size > 0 /\ inodes[n].size <= inodes[n].len * Cells
                    => e.start = inodes[n].start
               /\ inodes' = [inodes EXCEPT ![n].size = size, ![n].start = e.start, ![n].len = e.len]
  <2> DEFINE e == Extent(inodes[n], size)
  <2>1. e.start \in Nat \cup {NoBlock} /\ e.len \in Nat BY <1>1, <1>2, <1>3, ExtentIs
  <2>2. /\ e.start = NoBlock => e.len = 0
        /\ size <= e.len * Cells
        /\ size > 0 /\ inodes[n].size > 0 /\ inodes[n].size <= inodes[n].len * Cells
             => e.start = inodes[n].start
    BY <1>1, <1>2, <1>3, ExtentHolds
  <2>3. inodes' = [inodes EXCEPT ![n].size = size, ![n].start = e.start, ![n].len = e.len]
    BY <1>2, <1>3 DEF Resize
  <2> HIDE DEF e
  <2> QED BY <2>1, <2>2, <2>3
<1>9. /\ inodes'[n].size = size /\ inodes'[n].start = e.start /\ inodes'[n].len = e.len
      /\ inodes'[n].links = inodes[n].links /\ inodes'[n].flags = inodes[n].flags
      /\ \A m \in Inodes : m # n => inodes'[m] = inodes[m]
  BY <1>1, <1>7, <1>8 DEF TypeOK, InodeRecords
<1>10. \A m \in Inodes : inodes'[m].links = inodes[m].links /\ IsDir(m)' = IsDir(m)
  BY <1>9 DEF IsDir
<1>11. \A m \in Inodes : Held(m) => Held(m)' BY <1>1, <1>10 DEF Held
<1>12. \A m \in Inodes : m # n => Content(m)' = Content(m)
  BY <1>1, <1>9, SameContent
<1>13. CoverOK'
  <2>1. \A m \in Inodes : opens'[m] >= 0 /\ inodes'[m].links >= opens'[m]
    BY <1>1, <1>10 DEF CoverOK
  <2>2. ASSUME NEW d \in Inodes, Formatted(d)', d # n PROVE AllHeld(Content(d))'
    <3>1. Formatted(d) /\ Content(d)' = Content(d) BY <1>10, <1>12, <2>2 DEF Formatted
    <3> QED BY <1>11, <3>1, EntriesStay
  <2>3. ASSUME Formatted(n)' PROVE AllHeld(Content(n))'
    <3>1. IsDir(n) BY <1>7, <1>10, <2>3 DEF Formatted
    <3>2. size > 0 /\ size >= inodes[n].size /\ (inodes[n].size = 0 => size = 1)
      <4>1. buf # <<>> BY <1>7, <3>1 DEF Lands, Sound
      <4>2. Len(buf) > 0 BY <4>1
      <4> QED BY <1>7, <3>1, <4>2 DEF Lands
    <3>3. inodes[n].size <= inodes[n].len * Cells /\ Counted(Content(n))
      BY <1>1, <1>7, <3>1 DEF DirsOK, DirOK
    <3>4. inodes[n].size \in Nat BY <1>7, OpensInt
    <3>5. CASE inodes[n].size = 0
      <4>1. PICK new : new = Content(n)' OBVIOUS
      <4>2. DOMAIN new = 1 .. 1 /\ new = [i \in 1 .. 1 |-> new[i]] BY <1>9, <3>2, <3>5, <4>1 DEF Content
      <4>3. Len(new) = 1
        <5>1. new \in [1 .. 1 -> {new[1]}] BY <4>2
        <5> QED BY <5>1, FunctionIsSeq
      <4>4. EntriesOf(new) = {} BY <4>3 DEF EntriesOf
      <4> QED BY <4>1, <4>4 DEF AllHeld, EntriesOf
    <3>6. CASE inodes[n].size > 0
      <4>1. inodes'[n].start = inodes[n].start BY <1>8, <1>9, <3>2, <3>3, <3>6
      <4>2. \A i \in EntriesOf(Content(n)') : i \in EntriesOf(Content(n)) /\ Content(n)'[i + 1] = Content(n)[i + 1]
        BY <1>1, <1>7, <1>9, <3>2, <3>3, <3>6, <4>1, LongerContent
      <4>3. Formatted(n)
        <5>1. PICK old : old = Content(n) OBVIOUS
        <5>2. PICK new : new = Content(n)' OBVIOUS
        <5>3. Len(old) = inodes[n].size BY <1>1, <1>7, <5>1, ContentOK
        <5>4. old # <<>> BY <3>6, <5>3
        <5> QED BY <3>1, <3>3, <5>1, <5>4 DEF Formatted, Counted
      <4> QED BY <1>7, <1>11, <4>2, <4>3, EntriesStay
    <3> QED BY <3>4, <3>5, <3>6
  <2> QED BY <2>1, <2>2, <2>3 DEF CoverOK
<1>14. DirsOK'
  <2>1. IsDir(Root)' 
    <3>1. Root \in Inodes BY Bounds DEF Others
    <3> QED BY <1>1, <1>10, <3>1 DEF DirsOK
  <2>2. ASSUME NEW d \in Inodes, IsDir(d)' PROVE DirOK(d)'
    <3>1. IsDir(d) /\ DirOK(d) /\ Counted(Content(d)) BY <1>1, <1>10, <2>2 DEF DirsOK, DirOK
    <3>2. CASE d = n
      <4>1. inodes'[d].links > 0 /\ opens'[d] = 0 /\ d # Free BY <1>1, <1>10, <3>1 DEF DirOK
      <4>2. inodes'[d].size <= inodes'[d].len * Cells BY <1>8, <1>9, <3>2
      <4>3. BeingStored(d)'
        <5>1. todo' = steps /\ Now' = Head(steps) BY <1>1, <1>4 DEF Continue, Now
        <5> QED BY <1>4, <1>7, <3>2, <5>1 DEF BeingStored
      <4> QED BY <4>1, <4>2, <4>3 DEF DirOK
    <3>3. CASE d # n
      <4>1. inodes'[d] = inodes[d] /\ opens'[d] = opens[d] BY <1>1, <1>9, <3>3
      <4>2. Counted(Content(d))' BY <1>12, <3>1, <3>3 DEF Counted
      <4> QED BY <3>1, <4>1, <4>2 DEF DirOK
    <3> QED BY <3>2, <3>3
  <2> QED BY <2>1, <2>2 DEF DirsOK
<1>15. CountsOK'
  <2>1. \A m \in Others : inodes'[m].start = NoBlock => inodes'[m].len = 0
    BY <1>1, <1>8, <1>9 DEF CountsOK, Others
  <2> QED BY <1>1, <1>10, <2>1, SameSteps DEF CountsOK
<1>16. InPlan'
  <2>1. todo' = steps /\ Now' = Head(steps) /\ Rest' = rest
    BY <1>1, <1>4, <1>6 DEF Continue, Now, Rest
  <2>2. IsEnd(rest)'
    <3>1. newino # NoInode /\ Held(newino) => Held(newino)'
      <4>1. SUFFICES ASSUME newino # NoInode, Held(newino) PROVE Held(newino)' OBVIOUS
      <4>2. PICK m \in Inodes : m = newino BY <1>1, <4>1 DEF TypeOK, Others
      <4>3. Held(m)' BY <1>11, <4>1, <4>2
      <4> QED BY <1>1, <4>2, <4>3 DEF Held
    <3>2. MayMake => MayMake' \/ rest = <<>>
      <4>1. SUFFICES ASSUME MayMake, rest # <<>> PROVE MayMake' OBVIOUS
      <4>2. PICK m \in Inodes : m = newino BY <1>1, <4>1 DEF MayMake, TypeOK, Others
      <4>3. inodes[m].flags = {} BY <4>1, <4>2 DEF MayMake, Blank, Inode
      <4>4. m # n BY <1>7, <4>1, <4>3 DEF IsDir
      <4>5. inodes'[m] = inodes[m] BY <1>9, <4>4
      <4> QED BY <1>1, <4>1, <4>2, <4>5 DEF MayMake, Blank
    <3>3. rest \in Seq(LaterSteps') \/ (MayMake' /\ \E make \in MakeSteps' : rest = <<make>>)
      BY <1>1, <1>7, <1>10, <3>1, <3>2, EndStays
    <3> QED BY <3>3 DEF IsEnd
  <2>3. rest # <<>> => IsDir(n)' BY <1>7, <1>10
  <2>4. IsDir(n)' => Sound(buf)'
    <3>1. SUFFICES ASSUME IsDir(n)' PROVE Sound(buf)' OBVIOUS
    <3>2. Sound(buf) BY <1>7, <1>10, <3>1 DEF Lands
    <3> QED BY <1>11, <3>2, SameEntries DEF Sound
  <2>5. AtStore'
    BY <1>4, <1>5, <1>7, <1>8, <1>9, <2>1, <2>2, <2>3, <2>4 DEF AtStore
  <2> QED BY <2>5 DEF InPlan
<1> QED BY <1>1, <1>13, <1>14, <1>15, <1>16 DEF NamesFine, PlanOK

\* Cells of blocks that come one after the other do, too.
LEMMA CellsApart ==
  ASSUME NEW s \in Nat, NEW k \in Nat, NEW t \in Nat, s + k <= t, NEW x \in Nat, x < k * Cells
  PROVE  s * Cells + x < t * Cells /\ s * Cells \in Nat /\ t * Cells \in Nat
<1>1. PICK c \in Nat : c = Cells BY Bounds
<1>2. PICK m \in Nat : t = s + k + m
  <2>1. t - (s + k) \in Nat /\ t = s + k + (t - (s + k)) OBVIOUS
  <2> QED BY <2>1
<1>3. \A a, b, d \in Nat : (a + b + d) * c = a * c + b * c + d * c /\ a * c \in Nat OBVIOUS
<1>4. t * c = s * c + k * c + m * c /\ s * c \in Nat /\ k * c \in Nat /\ m * c \in Nat BY <1>2, <1>3
<1>5. PICK u, v, w \in Nat : u = s * c /\ v = k * c /\ w = m * c BY <1>4
<1>6. t * c = u + v + w /\ x < v BY <1>1, <1>4, <1>5
<1> QED BY <1>1, <1>5, <1>6

\* What is written is read back, and what is elsewhere stays.
LEMMA WrittenIs ==
  ASSUME NEW d, NEW at \in Int, NEW S, NEW buf \in Seq(S), NEW a \in Int
  PROVE  /\ \A i \in 1 .. Len(buf) : a = at + i - 1 =>
              a \in DOMAIN Written(d, at, buf) /\ Written(d, at, buf)[a] = buf[i]
         /\ a < at \/ a >= at + Len(buf) =>
              /\ a \in DOMAIN Written(d, at, buf) <=> a \in DOMAIN d
              /\ a \in DOMAIN d => Written(d, at, buf)[a] = d[a]
<1>1. PICK k \in Nat : k = Len(buf) OBVIOUS
<1>2. DOMAIN buf = 1 .. k BY <1>1
<1> DEFINE new == Written(d, at, buf)
<1>3. new = [b \in DOMAIN d \cup at .. at + k - 1 |->
               IF b - at + 1 \in 1 .. k THEN buf[b - at + 1] ELSE d[b]]
  BY <1>1, <1>2 DEF Written
<1> HIDE DEF new
<1>4. ASSUME NEW i \in 1 .. k, a = at + i - 1 PROVE a \in DOMAIN new /\ new[a] = buf[i]
  <2>1. a \in at .. at + k - 1 /\ a - at + 1 = i BY <1>4
  <2> QED BY <1>3, <1>4, <2>1
<1>5. ASSUME a < at \/ a >= at + k
      PROVE  (a \in DOMAIN new <=> a \in DOMAIN d) /\ (a \in DOMAIN d => new[a] = d[a])
  <2>1. a \notin at .. at + k - 1 /\ a - at + 1 \notin 1 .. k BY <1>5
  <2> QED BY <1>3, <2>1
<1> QED BY <1>1, <1>4, <1>5 DEF new

\* The content of one file does not touch that of another.
LEMMA StoreElsewhere ==
  ASSUME IInv, spoiled = {}, CountsOK, NEW n \in Others, NEW d \in Others, d # n,
         NEW buf \in Seq(CellValues), Len(buf) <= inodes[n].len * Cells,
         inodes[d].size <= inodes[d].len * Cells, inodes' = inodes,
         disk' = Written(disk, inodes[n].start * Cells, buf)
  PROVE  Content(d)' = Content(d)
<1>1. PICK s \in Nat \cup {NoBlock}, k \in Nat :
        s = inodes[n].start /\ k = inodes[n].len /\ (s = NoBlock => k = 0)
  BY DEF IInv, TypeOK, InodeRecords, CountsOK, Others
<1>2. PICK t \in Nat \cup {NoBlock}, l \in Nat, size \in Nat :
        /\ t = inodes[d].start /\ l = inodes[d].len /\ size = inodes[d].size
        /\ (t = NoBlock => l = 0)
  BY DEF IInv, TypeOK, InodeRecords, CountsOK, Others
<1>3. s # NoBlock /\ t # NoBlock => s + k <= t \/ t + l <= s \/ k = 0 \/ l = 0
  BY <1>1, <1>2 DEF IInv, ExtentsOK, Apart
<1>4. PICK m \in Nat : m = Len(buf) OBVIOUS
<1>5. m <= k * Cells /\ size <= l * Cells BY <1>1, <1>2, <1>4
<1>6. (k = 0 => m = 0) /\ (l = 0 => size = 0)
  <2>1. 0 * Cells = 0 BY Bounds
  <2> QED BY <1>5, <2>1
<1>7. s * Cells \in Int /\ t * Cells \in Int
  <2>1. \A a, b \in Int : a * b \in Int OBVIOUS
  <2>2. s \in Int /\ t \in Int /\ Cells \in Int BY Bounds DEF NoBlock
  <2> QED BY <2>1, <2>2
<1>8. ASSUME NEW i \in 1 .. size
      PROVE  LET a == t * Cells + i - 1 IN
             /\ a \in DOMAIN disk' <=> a \in DOMAIN disk
             /\ a \in DOMAIN disk => disk'[a] = disk[a]
  <2>1. PICK at \in Int, b \in Int : at = s * Cells /\ b = t * Cells BY <1>7
  <2>2. PICK a \in Int : a = b + i - 1 OBVIOUS
  <2>3. size > 0 /\ l # 0 /\ i - 1 \in Nat /\ i - 1 < size BY <1>6
  <2>4. t \in Nat BY <1>2, <2>3
  <2>5. a < at \/ a >= at + m
    <3>1. CASE m = 0 BY <2>1, <2>2, <3>1
    <3>2. CASE m # 0
      <4>1. k # 0 /\ s \in Nat BY <1>1, <1>6, <3>2
      <4>2. s + k <= t \/ t + l <= s BY <1>3, <2>3, <2>4, <4>1 DEF NoBlock
      <4>3. ASSUME s + k <= t PROVE a >= at + m
        <5>1. m - 1 \in Nat /\ m - 1 < k * Cells
          <6>1. k * Cells \in Int BY <1>7, Bounds
          <6> QED BY <1>5, <3>2, <6>1
        <5>2. s * Cells + (m - 1) < t * Cells BY <2>4, <4>1, <4>3, <5>1, CellsApart
        <5> QED BY <2>1, <2>2, <2>3, <5>2
      <4>4. ASSUME t + l <= s PROVE a < at
        <5>1. i - 1 < l * Cells
          <6>1. l * Cells \in Int BY <1>7, Bounds
          <6> QED BY <1>5, <2>3, <6>1
        <5>2. t * Cells + (i - 1) < s * Cells BY <2>3, <2>4, <4>1, <4>4, <5>1, CellsApart
        <5> QED BY <2>1, <2>2, <2>3, <5>2
      <4> QED BY <4>2, <4>3, <4>4
    <3> QED BY <3>1, <3>2
  <2>6. disk' = Written(disk, at, buf) BY <1>1, <2>1
  <2>7. PICK before : before = disk OBVIOUS
  <2>8. PICK after : after = disk' OBVIOUS
  <2>9. after = Written(before, at, buf) BY <2>6, <2>7, <2>8
  <2>10. (a \in DOMAIN after <=> a \in DOMAIN before) /\ (a \in DOMAIN before => after[a] = before[a])
    BY <1>4, <2>5, <2>9, WrittenIs
  <2> QED BY <2>1, <2>2, <2>7, <2>8, <2>10
<1>9. /\ Content(d)' = [i \in 1 .. size |-> LET a == t * Cells + i - 1 IN
                                              IF a \in DOMAIN disk' THEN disk'[a] ELSE Unset]
      /\ Content(d) = [i \in 1 .. size |-> LET a == t * Cells + i - 1 IN
                                              IF a \in DOMAIN disk THEN disk[a] ELSE Unset]
  BY <1>2 DEF Content, Unset
<1> QED BY <1>8, <1>9

\* A directory is written with what it had, and other directories are elsewhere.
LEMMA StoreKeeps ==
  ASSUME IInv, CoverOK, PlanOK, Store
  PROVE  NamesFine'
<1>1. /\ spoiled = {} /\ spoiled' = {} /\ TypeOK /\ inodes' = inodes /\ calls' = calls
      /\ newino' = newino /\ opens' = opens /\ Continue(Rest) /\ CountsOK /\ DirsOK /\ AtStore
      /\ Now.op = "store" /\ Now.ino \in Others /\ Now.buf \in Seq(CellValues)
  BY Reached, PlanReached DEF Store, IInv, PlanOK
<1>2. PICK n \in Others : n = Now.ino BY <1>1
<1>3. PICK buf \in Seq(CellValues) : buf = Now.buf BY <1>1
<1>4. /\ n \in Inodes /\ inodes[n].size = Len(buf) /\ Len(buf) <= inodes[n].len * Cells
      /\ IsEnd(Rest) /\ (IsDir(n) => Sound(buf))
      /\ disk' = Written(disk, inodes[n].start * Cells, buf)
  BY <1>1, <1>2, <1>3 DEF AtStore, Store, Others
<1>5. \A m \in Inodes : IsDir(m)' = IsDir(m) /\ (Held(m) => Held(m)') BY <1>1 DEF IsDir, Held
<1>6. Content(n)' = buf
  <2>1. PICK at \in Int : at = inodes[n].start * Cells
    <3>1. \A a, b \in Int : a * b \in Int OBVIOUS
    <3>2. inodes[n].start \in Int /\ Cells \in Int BY <1>4, OpensInt, Bounds DEF NoBlock
    <3> QED BY <3>1, <3>2
  <2>2. PICK after : after = disk' /\ after = Written(disk, at, buf) BY <1>4, <2>1
  <2>3. ASSUME NEW i \in 1 .. Len(buf) PROVE at + i - 1 \in DOMAIN after /\ after[at + i - 1] = buf[i]
    <3>1. PICK a \in Int : a = at + i - 1 OBVIOUS
    <3>2. a \in DOMAIN Written(disk, at, buf) /\ Written(disk, at, buf)[a] = buf[i] BY <3>1, WrittenIs
    <3> QED BY <2>2, <3>1, <3>2
  <2>4. Content(n)' = [i \in 1 .. Len(buf) |-> LET a == at + i - 1 IN
                                                 IF a \in DOMAIN after THEN after[a] ELSE Unset]
    BY <1>1, <1>4, <2>1, <2>2 DEF Content, Unset
  <2>5. buf = [i \in 1 .. Len(buf) |-> buf[i]] OBVIOUS
  <2> QED BY <2>3, <2>4, <2>5
<1>7. ASSUME NEW d \in Inodes, IsDir(d), d # n PROVE Content(d)' = Content(d)
  <2>1. d \in Others /\ inodes[d].size <= inodes[d].len * Cells
    BY <1>1, <1>7 DEF DirsOK, DirOK, Others
  <2> QED BY <1>1, <1>4, <1>7, <2>1, StoreElsewhere
<1>8. CoverOK'
  <2>1. \A m \in Inodes : opens'[m] >= 0 /\ inodes'[m].links >= opens'[m]
    BY <1>1 DEF CoverOK
  <2>2. ASSUME NEW d \in Inodes, Formatted(d)', d # n PROVE AllHeld(Content(d))'
    <3>1. IsDir(d) BY <1>5, <2>2 DEF Formatted
    <3>2. Formatted(d) /\ Content(d)' = Content(d) BY <1>7, <2>2, <3>1 DEF Formatted
    <3> QED BY <1>5, <3>2, EntriesStay
  <2>3. ASSUME Formatted(n)' PROVE AllHeld(Content(n))'
    <3>1. IsDir(n) BY <1>4, <1>5, <2>3 DEF Formatted
    <3>2. AllHeld(buf) BY <1>4, <3>1 DEF Sound
    <3>3. AllHeld(buf)' BY <1>5, <3>2, SameEntries
    <3> QED BY <1>6, <3>3 DEF AllHeld, EntriesOf
  <2> QED BY <2>1, <2>2, <2>3 DEF CoverOK
<1>9. DirsOK'
  <2>1. IsDir(Root)'
    <3>1. Root \in Inodes BY Bounds DEF Others
    <3> QED BY <1>1, <1>5, <3>1 DEF DirsOK
  <2>2. ASSUME NEW d \in Inodes, IsDir(d)' PROVE DirOK(d)'
    <3>1. IsDir(d) /\ DirOK(d) BY <1>1, <1>5, <2>2 DEF DirsOK
    <3>2. CASE d = n
      <4>1. Counted(buf) BY <1>4, <3>1, <3>2 DEF Sound
      <4>2. Counted(Content(d))' BY <1>6, <3>2, <4>1 DEF Counted
      <4> QED BY <1>1, <3>1, <4>2 DEF DirOK
    <3>3. CASE d # n
      <4>1. ~BeingStored(d) BY <1>2, <3>3 DEF BeingStored
      <4>2. Content(d)' = Content(d) BY <1>7, <3>1, <3>3
      <4>3. Counted(Content(d))' BY <3>1, <4>1, <4>2 DEF Counted, DirOK
      <4> QED BY <1>1, <3>1, <4>3 DEF DirOK
    <3> QED BY <3>2, <3>3
  <2> QED BY <2>1, <2>2 DEF DirsOK
<1>10. CountsOK' BY <1>1, SameSteps DEF CountsOK
<1>11. InPlan'
  <2>1. MayMake => MayMake' BY <1>1 DEF MayMake, Blank
  <2> QED BY <1>1, <1>4, <1>5, <2>1, RestGoesOn
<1> QED BY <1>1, <1>8, <1>9, <1>10, <1>11 DEF NamesFine, PlanOK

\* The new file is open, and has a link for that.
LEMMA MakeFileKeeps ==
  ASSUME IInv, CoverOK, PlanOK, MakeFile
  PROVE  NamesFine'
<1>1. /\ spoiled = {} /\ spoiled' = {} /\ TypeOK /\ disk' = disk /\ calls' = calls
      /\ Continue(Rest) /\ CountsOK /\ DirsOK /\ Rest = <<>> /\ MayMake /\ newino \in Others
      /\ \A d \in Inodes : ~BeingStored(d)
  BY Reached, PlanReached DEF MakeFile, IInv, PlanOK
<1>2. PICK n \in Others : n = newino BY <1>1
<1>3. n \in Inodes /\ inodes[n] = Inode({}, 1, 0, NoBlock, 0) /\ opens[n] = 0 /\ calls > 0
  BY <1>1, <1>2 DEF MayMake, Blank, Others
<1>4. /\ inodes[n].flags = {} /\ inodes[n].links = 1 /\ inodes[n].size = 0
      /\ inodes[n].start = NoBlock /\ inodes[n].len = 0
  BY <1>3 DEF Inode
<1>5. (1 + 1) % LinkWrap = 2
  <2>1. PICK w \in Nat : w = LinkWrap /\ w > 2 BY Bounds
  <2> QED BY <2>1
<1>6. /\ inodes'[n].flags = {} /\ inodes'[n].links = 2 /\ inodes'[n].size = 0
      /\ inodes'[n].start = NoBlock /\ inodes'[n].len = 0
      /\ opens'[n] = 1
      /\ \A m \in Inodes : m # n => inodes'[m] = inodes[m] /\ opens'[m] = opens[m]
  BY <1>1, <1>2, <1>3, <1>4, <1>5 DEF MakeFile, TypeOK, InodeRecords, IInv, FreeOK
<1>7. CoverOK'
  <2>1. ASSUME NEW m \in Inodes
        PROVE  /\ inodes'[m].flags = inodes[m].flags
               /\ inodes'[m].size = inodes[m].size /\ inodes'[m].start = inodes[m].start
               /\ opens'[m] \in Nat /\ inodes'[m].links \in Nat
               /\ inodes'[m].links - opens'[m] >= inodes[m].links - opens[m]
    <3>1. CASE m = n
      <4>1. inodes'[n].links - opens'[n] = 1 /\ inodes[n].links - opens[n] = 1 BY <1>3, <1>4, <1>6
      <4>2. opens'[n] \in Nat /\ inodes'[n].links \in Nat BY <1>6
      <4>3. inodes'[n].links - opens'[n] >= inodes[n].links - opens[n] BY <4>1
      <4> QED BY <1>4, <1>6, <3>1, <4>2, <4>3
    <3>2. CASE m # n
      <4>1. opens[m] \in Int /\ opens[m] >= 0 /\ inodes[m].links \in Nat BY OpensInt DEF CoverOK
      <4> QED BY <1>6, <3>2, <4>1
    <3> QED BY <3>1, <3>2
  <2> QED BY <1>1, <2>1, SameCover
<1>8. ~IsDir(n) /\ ~IsDir(n)' BY <1>4, <1>6 DEF IsDir
<1>9. DirsOK'
  <2>1. \A d \in Inodes : IsDir(d) => inodes'[d] = inodes[d] /\ opens'[d] = opens[d]
    BY <1>6, <1>8
  <2>2. ASSUME NEW d \in Inodes, IsDir(d)' PROVE IsDir(d)
    <3>1. d # n BY <1>8, <2>2
    <3> QED BY <1>6, <2>2, <3>1 DEF IsDir
  <2> QED BY <1>1, <2>1, <2>2, DirsStay
<1>10. CountsOK'
  <2>1. ASSUME NEW m \in Inodes PROVE inodes'[m].links <= 1 + calls'
    <3>1. CASE m = n
      <4>1. calls \in Nat BY <1>1 DEF TypeOK
      <4> QED BY <1>1, <1>3, <1>6, <3>1, <4>1
    <3>2. CASE m # n BY <1>1, <1>6, <3>2 DEF CountsOK
    <3> QED BY <3>1, <3>2
  <2>2. ASSUME NEW m \in Others, inodes'[m].start = NoBlock PROVE inodes'[m].len = 0
    <3>1. CASE m = n BY <1>6, <3>1
    <3>2. CASE m # n BY <1>1, <1>6, <2>2, <3>2 DEF CountsOK, Others
    <3> QED BY <3>1, <3>2
  <2> QED BY <1>1, <2>1, <2>2, SameSteps DEF CountsOK
<1>11. todo' = <<>> BY <1>1 DEF Continue
<1> QED BY <1>1, <1>7, <1>9, <1>10, <1>11, OverIsPlanned DEF NamesFine, PlanOK

\* The new directory has no cell, until its header is written.
LEMMA MakeDirectoryKeeps ==
  ASSUME IInv, CoverOK, PlanOK, MakeDirectory
  PROVE  NamesFine'
<1>1. /\ spoiled = {} /\ spoiled' = {} /\ TypeOK /\ disk' = disk /\ calls' = calls /\ opens' = opens
      /\ Continue(WriteInode(newino, <<Header(0)>>)) /\ CountsOK /\ DirsOK /\ MayMake
      /\ newino \in Others
      /\ \A d \in Inodes : ~BeingStored(d)
  BY Reached, PlanReached DEF MakeDirectory, IInv, PlanOK
<1>2. PICK n \in Others : n = newino BY <1>1
<1>3. n \in Inodes /\ n # Free /\ inodes[n] = Inode({}, 1, 0, NoBlock, 0) /\ opens[n] = 0
  BY <1>1, <1>2 DEF MayMake, Blank, Others
<1>4. /\ inodes[n].flags = {} /\ inodes[n].links = 1 /\ inodes[n].size = 0
      /\ inodes[n].start = NoBlock /\ inodes[n].len = 0
  BY <1>3 DEF Inode
<1>5. /\ inodes'[n].flags = {"dir"} /\ inodes'[n].links = 1 /\ inodes'[n].size = 0
      /\ inodes'[n].start = NoBlock /\ inodes'[n].len = 0
      /\ \A m \in Inodes : m # n => inodes'[m] = inodes[m]
  BY <1>1, <1>2, <1>3, <1>4 DEF MakeDirectory, TypeOK, InodeRecords
<1>6. Content(n)' = <<>>
  <2>1. Content(n)' = [i \in 1 .. 0 |-> Content(n)'[i]] BY <1>5 DEF Content
  <2>2. 1 .. 0 = {} OBVIOUS
  <2> QED BY <2>1, <2>2
<1>7. \A m \in Inodes : m # n => Content(m)' = Content(m) /\ IsDir(m)' = IsDir(m)
  BY <1>1, <1>5, SameContent
<1>8. \A m \in Inodes : inodes'[m].links = inodes[m].links BY <1>4, <1>5
<1>9. CoverOK'
  <2>1. \A m \in Inodes : Formatted(m)' => Formatted(m) /\ Content(m)' = Content(m)
    BY <1>6, <1>7 DEF Formatted
  <2>2. \A m \in Inodes : opens'[m] >= 0 /\ inodes'[m].links >= opens'[m]
    BY <1>1, <1>8 DEF CoverOK
  <2>3. \A m \in Inodes : Held(m) => Held(m)' BY <1>1, <1>8 DEF Held
  <2> QED BY <2>1, <2>2, <2>3, CoverStays
<1>10. DirsOK'
  <2>1. Root \in Inodes /\ Root # n
    <3>1. Root \in Inodes /\ IsDir(Root) BY <1>1, Bounds DEF DirsOK, Others
    <3>2. ~IsDir(n) BY <1>4 DEF IsDir
    <3> QED BY <3>1, <3>2
  <2>2. ASSUME NEW d \in Inodes, IsDir(d)' PROVE DirOK(d)'
    <3>1. CASE d = n
      <4>1. 0 <= 0 * Cells BY Bounds
      <4>2. Counted(Content(d))' BY <1>6, <3>1 DEF Counted
      <4> QED BY <1>1, <1>3, <1>5, <3>1, <4>1, <4>2 DEF DirOK
    <3>2. CASE d # n
      <4>1. DirOK(d) /\ ~BeingStored(d) BY <1>1, <1>7, <2>2, <3>2 DEF DirsOK
      <4>2. Counted(Content(d))' BY <1>7, <3>2, <4>1 DEF DirOK, Counted
      <4> QED BY <1>1, <1>5, <3>2, <4>1, <4>2 DEF DirOK
    <3> QED BY <3>1, <3>2
  <2> QED BY <1>1, <1>7, <2>1, <2>2 DEF DirsOK
<1>11. CountsOK'
  <2>1. ASSUME NEW m \in Others, inodes'[m].start = NoBlock PROVE inodes'[m].len = 0
    <3>1. CASE m = n BY <1>5, <3>1
    <3>2. CASE m # n BY <1>1, <1>5, <2>1, <3>2 DEF CountsOK, Others
    <3> QED BY <3>1, <3>2
  <2> QED BY <1>1, <1>8, <2>1, SameSteps DEF CountsOK
<1>12. InPlan'
  <2>1. PICK buf \in Seq(CellValues) : buf = <<Header(0)>>
    <3>1. Header(0) \in CellValues BY DEF Header, CellValues
    <3>2. <<Header(0)>> \in Seq(CellValues) BY <3>1
    <3> QED BY <3>2
  <2>2. /\ buf # <<>> /\ Len(buf) = 1 /\ buf[1].kind = "header" /\ buf[1].count = 0
    BY <2>1 DEF Header
  <2>3. EntriesOf(buf) = {} BY <2>2 DEF EntriesOf
  <2>4. Counted(buf) /\ AllHeld(buf)' BY <2>2, <2>3 DEF Counted, AllHeld, EntriesOf
  <2>5. todo' = WriteInode(n, buf) BY <1>1, <1>2, <2>1 DEF Continue
  <2>6. /\ <<>> \in Seq(LaterSteps) /\ <<>> \in Seq(LaterSteps') OBVIOUS
  <2>7. Len(buf) >= inodes'[n].size BY <1>5, <2>2
  <2> QED BY <2>2, <2>4, <2>5, <2>6, <2>7, WriteIsPlanned
<1> QED BY <1>1, <1>9, <1>10, <1>11, <1>12 DEF NamesFine, PlanOK

\* A name is added for an inode that has a link for it.
LEMMA AddToDirKeeps ==
  ASSUME IInv, CoverOK, PlanOK, AddToDir, removed = {}
  PROVE  NamesFine'
<1>1. /\ spoiled = {} /\ spoiled' = {} /\ TypeOK /\ UNCHANGED <<inodes, disk, newino, opens, calls>>
      /\ CountsOK /\ DirsOK /\ Now \in AddSteps /\ newino \in Others /\ Held(newino)
      /\ Now.dir \in Others /\ Now.name \in Names /\ IsEnd(Rest)
      /\ \A d \in Inodes : ~BeingStored(d)
  BY Reached, PlanReached DEF AddToDir, IInv, PlanOK
<1>2. PICK d \in Others, name \in Names, n \in Others : d = Now.dir /\ name = Now.name /\ n = newino
  BY <1>1
<1>3. d \in Inodes /\ n \in Inodes /\ IsDir(d) /\ Held(n) BY <1>1, <1>2 DEF AddSteps, Others
<1>4. /\ CoverOK' /\ CountsOK' /\ DirsOK'
      /\ \A m \in Inodes : /\ Held(m) => Held(m)'
                           /\ IsDir(m)' = IsDir(m) /\ (Blank(m) => Blank(m)')
  <2>1. calls' \in Nat /\ calls' >= calls /\ calls' <= MaxCalls BY <1>1 DEF TypeOK, CountsOK
  <2> QED BY <1>1, <2>1, SamePlan
<1>5. MayMake => MayMake' BY <1>1, <1>2, <1>3, <1>4 DEF MayMake, Blank
<1>6. InPlan'
  <2>1. CASE Formatted(d) /\ Continue(WriteInode(d, WithEntry(Content(d), n, name)) \o Rest)
    <3>1. PICK buf \in Seq(CellValues) :
            buf = Content(d) /\ Len(buf) = inodes[d].size /\ buf # <<>> /\ AllHeld(buf) /\ Counted(buf)
      <4>1. Counted(Content(d)) BY <1>1, <1>3 DEF DirsOK, DirOK
      <4> QED BY <1>1, <1>3, <2>1, <4>1, ContentOK DEF Formatted, CoverOK
    <3>2. PICK new : new = WithEntry(buf, n, name) OBVIOUS
    <3>3. /\ new \in Seq(CellValues) /\ Len(new) = Len(buf) + 1 /\ Counted(new)
          /\ \A i \in EntriesOf(new) :
               new[i + 1].ino = n \/ (i \in EntriesOf(buf) /\ new[i + 1] = buf[i + 1])
      BY <3>1, <3>2, WithEntryIs
    <3>4. AllHeld(new)
      <4>1. ASSUME NEW i \in EntriesOf(new) PROVE Held(new[i + 1].ino)
        <5>1. CASE new[i + 1].ino = n BY <1>3, <5>1
        <5>2. CASE i \in EntriesOf(buf) /\ new[i + 1] = buf[i + 1] BY <3>1, <5>2 DEF AllHeld
        <5> QED BY <3>3, <5>1, <5>2
      <4> QED BY <4>1 DEF AllHeld
    <3>5. AllHeld(new)' BY <1>4, <3>3, <3>4, SameEntries
    <3>6. PICK k \in Nat : k = Len(buf) /\ k # 0 BY <3>1
    <3>7. new # <<>> /\ Len(new) >= inodes'[d].size /\ inodes'[d].size # 0
      <4>1. Len(new) = k + 1 /\ inodes'[d].size = k BY <1>1, <3>1, <3>3, <3>6
      <4> QED BY <3>6, <4>1
    <3>8. PICK r : r = Rest /\ todo' = WriteInode(d, new) \o r
      BY <2>1, <3>1, <3>2 DEF Continue
    <3>9. IsEnd(r) BY <1>1, <3>8
    <3>10. r \in Seq(LaterSteps') \/ (MayMake' /\ \E make \in MakeSteps' : r = <<make>>)
      <4>1. newino # NoInode /\ Held(newino) => Held(newino)' BY <1>1, <1>2, <1>3, <1>4 DEF Held
      <4> QED BY <1>1, <1>4, <1>5, <3>9, <4>1, EndStays
    <3>11. PICK S : r \in Seq(S)
      <4>1. CASE r \in Seq(LaterSteps) BY <4>1
      <4>2. CASE r \notin Seq(LaterSteps)
        <5>1. PICK make \in MakeSteps : r = <<make>> BY <3>9, <4>2 DEF IsEnd
        <5> QED BY <5>1
      <4> QED BY <4>1, <4>2
    <3> QED BY <1>3, <1>4, <3>3, <3>5, <3>7, <3>8, <3>10, <3>11, WriteIsPlanned
  <2>2. CASE Done("fail") BY <2>2, OverIsPlanned DEF Done
  <2>3. CASE Continue(Rest) BY <1>1, <1>4, <1>5, <2>3, RestGoesOn
  <2> QED BY <1>2, <2>1, <2>2, <2>3 DEF AddToDir
<1> QED BY <1>1, <1>4, <1>6 DEF NamesFine, PlanOK

\* What is not in a directory is not removed from it.
LEMMA RemoveFromDirKeeps ==
  ASSUME IInv, CoverOK, PlanOK, RemoveFromDir, removed' = {}
  PROVE  NamesFine'
<1>1. /\ spoiled = {} /\ TypeOK /\ UNCHANGED <<inodes, disk, newino, opens, calls>>
      /\ CountsOK /\ DirsOK /\ IsEnd(Rest)
      /\ \A d \in Inodes : ~BeingStored(d)
  BY Reached, PlanReached DEF RemoveFromDir, IInv, PlanOK
<1>2. Continue(Rest) /\ "reused" \notin spoiled' BY <1>1 DEF RemoveFromDir
<1>3. /\ CoverOK' /\ CountsOK' /\ DirsOK'
      /\ \A m \in Inodes : /\ Held(m) => Held(m)'
                           /\ IsDir(m)' = IsDir(m) /\ (Blank(m) => Blank(m)')
  <2>1. calls' \in Nat /\ calls' >= calls /\ calls' <= MaxCalls BY <1>1 DEF TypeOK, CountsOK
  <2> QED BY <1>1, <2>1, SamePlan
<1>4. MayMake => MayMake' BY <1>1 DEF MayMake, Blank
<1>5. InPlan' BY <1>1, <1>2, <1>3, <1>4, RestGoesOn
<1> QED BY <1>2, <1>3, <1>5 DEF NamesFine, PlanOK

LEMMA UnlinkRenamedKeeps ==
  ASSUME IInv, CoverOK, PlanOK, UnlinkRenamed
  PROVE  NamesFine'
<1>1. /\ spoiled = {} /\ TypeOK /\ UNCHANGED <<inodes, disk, newino, calls>> /\ todo # <<>>
      /\ CountsOK /\ DirsOK /\ Now.path \in Paths
      /\ \A d \in Inodes : ~BeingStored(d)
  BY Reached, PlanReached DEF UnlinkRenamed, IInv, PlanOK
<1>2. PICK p \in Paths : p = Now.path BY <1>1
<1>3. CASE Killed BY <1>1, <1>3, KilledKeeps
<1>4. CASE /\ UNCHANGED <<opens, spoiled>>
           /\ \/ \E r \in {"ok", "fail"} : Done(r)
              \/ GetInode(p) # NoInode /\ Continue(<<[op |-> "remove_from_dir", dir |-> GetParent(p),
                                                     name |-> Last(p)]>>)
  <2>1. CoverOK' /\ CountsOK' /\ DirsOK'
    <3>1. calls' \in Nat /\ calls' >= calls /\ calls' <= MaxCalls BY <1>1 DEF TypeOK, CountsOK
    <3> QED BY <1>1, <1>4, <3>1, SamePlan
  <2>2. InPlan'
    <3>1. CASE \E r \in {"ok", "fail"} : Done(r) BY <3>1, OverIsPlanned DEF Done
    <3>2. CASE GetInode(p) # NoInode /\ Continue(<<[op |-> "remove_from_dir", dir |-> GetParent(p),
                                                    name |-> Last(p)]>>)
      <4>1. PICK s : s = [op |-> "remove_from_dir", dir |-> GetParent(p), name |-> Last(p)] OBVIOUS
      <4>2. GetParent(p) \in Others /\ Last(p) \in Names
        BY <1>1, <3>2, LookupIsOther, ParentFinds
      <4>3. s \in OtherSteps /\ s.op = "remove_from_dir" BY <4>1, <4>2 DEF OtherSteps
      <4>4. s \in LaterSteps' BY <4>3, SameSteps DEF LaterSteps
      <4>5. todo' = <<s>> BY <3>2, <4>1 DEF Continue
      <4>6. todo' \in Seq(LaterSteps') BY <4>4, <4>5
      <4>7. IsEnd(todo)' BY <4>6 DEF IsEnd
      <4> QED BY <4>7, EndGoesOn
    <3> QED BY <1>4, <3>1, <3>2
  <2> QED BY <1>1, <1>4, <2>1, <2>2 DEF NamesFine, PlanOK
<1> QED BY <1>2, <1>3, <1>4 DEF UnlinkRenamed

\* A step of a call, and what a client sees then.
LEMMA StepKeeps ==
  ASSUME IInv, NamesFine, Step, removed' = {}
  PROVE  NamesFine' /\ result' # "seen"
<1>1. spoiled = {} /\ result = "running" /\ CoverOK /\ PlanOK /\ removed = {}
  <2>1. \E op : At(op)
    BY DEF Step, AllocInode, AllocSpace, Resize, Store, AddToDir, RemoveFromDir, Unref, MakeDirectory,
           MakeFile, UnlinkRenamed
  <2>2. spoiled = {} /\ result = "running" BY <2>1, Reached
  <2>3. removed \subseteq removed'
    BY DEF Step, AllocInode, AllocSpace, Resize, Store, AddToDir, RemoveFromDir, Unref, MakeDirectory,
           MakeFile, UnlinkRenamed
  <2> QED BY <2>2, <2>3 DEF NamesFine
<1>2. ~Unref
  <2>1. ASSUME At("unref") PROVE FALSE BY <1>1, <2>1, PlanReached
  <2> QED BY <2>1 DEF Unref
<1>3. NamesFine'
  BY <1>1, <1>2, AllocInodeKeeps, AllocSpaceKeeps, ResizeKeeps, StoreKeeps, AddToDirKeeps,
     RemoveFromDirKeeps, MakeDirectoryKeeps, MakeFileKeeps, UnlinkRenamedKeeps
  DEF Step
<1>4. result' # "seen"
  <2>1. ASSUME NEW steps, Continue(steps) PROVE result' # "seen" BY <1>1, <2>1 DEF Continue
  <2>2. ASSUME NEW r \in {"ok", "fail", "crash"}, Done(r) PROVE result' # "seen" BY <2>2 DEF Done
  <2> QED BY <2>1, <2>2 DEF Step, AllocInode, AllocSpace, Resize, Store, AddToDir, RemoveFromDir, Unref,
             MakeDirectory, MakeFile, UnlinkRenamed, Killed
<1> QED BY <1>3, <1>4

-----------------------------------------------------------------------------
(***************************************************************************)
(* The calls, and the links.                                               *)
(***************************************************************************)

\* What is at a path when a client calls.
LEMMA ClientKnows ==
  ASSUME IInv, KindsOK, NamesFine, Ready, NEW p \in Paths
  PROVE  /\ CoverOK /\ PlanOK /\ spoiled = {} /\ todo = <<>>
         /\ Exists(p) => GetInode(p) \in Others /\ Held(GetInode(p))
         /\ AtFile(p) => GetInode(p) \in Others /\ ~IsDir(GetInode(p)) /\ Exists(p)
         /\ ParentIsDir(p) => GetParent(p) \in Others /\ IsDir(GetParent(p))
<1>1. /\ result = "seen" /\ spoiled = {} /\ todo = <<>> /\ CoverOK /\ PlanOK /\ TypeOK
      /\ \A q \in Paths : seen[q] # Absent => seen[q].kind = IF IsDir(GetInode(q)) THEN "dir" ELSE "file"
  BY DEF IInv, TodoOK, Ready, KindsOK, NamesFine
<1>2. ASSUME Exists(p) PROVE GetInode(p) \in Others /\ Held(GetInode(p))
  <2>1. GetInode(p) \in Others /\ GetParent(p) \in Others BY <1>2, ClientSees
  <2>2. GetInode(p) = FindInDir(GetParent(p), Last(p)) BY ParentFinds
  <2>3. GetInode(p) # NoInode BY <2>1, Bounds DEF Others
  <2> QED BY <1>1, <2>1, <2>2, <2>3, FoundIsHeld
<1>3. ASSUME AtFile(p) PROVE GetInode(p) \in Others /\ ~IsDir(GetInode(p)) /\ Exists(p)
  <2>1. Exists(p) /\ seen[p].kind = "file" BY <1>3, ClientSees DEF AtFile
  <2> QED BY <1>1, <1>2, <2>1 DEF Exists
<1>4. ASSUME ParentIsDir(p) PROVE GetParent(p) \in Others /\ IsDir(GetParent(p))
  <2>1. CASE Front(p) = <<>>
    <3>1. GetParent(p) = Root BY <2>1, Lookups DEF GetParent, LookupsAre
    <3> QED BY <1>1, <3>1, Bounds DEF PlanOK, DirsOK
  <2>2. CASE Front(p) # <<>>
    <3>1. PICK q \in Paths : q = Front(p) BY <2>2, ParentFinds
    <3>2. seen[q].kind = "dir" BY <1>4, <2>2, <3>1 DEF ParentIsDir, AtDir
    <3>3. Exists(q) BY <3>2, ClientSees
    <3>4. IsDir(GetInode(q)) BY <1>1, <3>2, <3>3 DEF Exists
    <3> QED BY <1>4, <3>1, <3>4, ClientSees DEF GetParent
  <2> QED BY <2>1, <2>2
<1> QED BY <1>1, <1>2, <1>3, <1>4

\* A call begins with a list of steps that is in plan.
LEMMA StartKeeps ==
  ASSUME IInv, CoverOK, PlanOK, spoiled = {}, todo = <<>>,
         NEW op, NEW path, NEW arg, NEW ino, NEW steps, Start(op, path, arg, ino, steps)
  PROVE  /\ CoverOK' /\ CountsOK' /\ DirsOK' /\ spoiled' = {} /\ result' # "seen"
         /\ \A m \in Inodes : IsDir(m)' = IsDir(m) /\ (Held(m) => Held(m)')
         /\ InPlan' => NamesFine'
<1>1. /\ UNCHANGED <<inodes, disk, opens, spoiled>> /\ result' = "running"
      /\ calls' = calls + 1 /\ calls < MaxCalls
  BY DEF Start
<1>2. calls' \in Nat /\ calls' >= calls /\ calls' <= MaxCalls
  BY <1>1, StarFsAssumption DEF IInv, TypeOK
<1>3. \A d \in Inodes : ~BeingStored(d) BY DEF BeingStored
<1>4. /\ CoverOK' /\ CountsOK' /\ DirsOK'
      /\ \A m \in Inodes : IsDir(m)' = IsDir(m) /\ (Held(m) => Held(m)')
  BY <1>1, <1>2, <1>3, SamePlan DEF PlanOK
<1> QED BY <1>1, <1>4 DEF NamesFine, PlanOK

\* create and mkdir
LEMMA NewInodeKeeps ==
  ASSUME IInv, KindsOK, NamesFine, NEW p \in Paths, Create(p) \/ Mkdir(p)
  PROVE  NamesFine' /\ result' # "seen"
<1>1. PICK op \in {"create", "mkdir"}, rest \in {"make_file", "make_directory"} :
        /\ Ready /\ ParentIsDir(p)
        /\ Start(op, p, <<>>, NoInode, <<[op |-> "alloc_inode"], AddStep(p, TRUE), [op |-> rest]>>)
  BY DEF Create, Mkdir
<1>2. /\ CoverOK /\ PlanOK /\ spoiled = {} /\ todo = <<>>
      /\ GetParent(p) \in Others /\ IsDir(GetParent(p)) /\ Last(p) \in Names
  BY <1>1, ClientKnows, ParentFinds
<1>3. /\ result' # "seen" /\ (InPlan' => NamesFine')
      /\ \A m \in Inodes : IsDir(m)' = IsDir(m)
  BY <1>1, <1>2, StartKeeps
<1>4. PICK alloc : alloc = [op |-> "alloc_inode"] OBVIOUS
<1>5. PICK make : make = [op |-> rest] OBVIOUS
<1>6. PICK add : add = AddStep(p, TRUE) OBVIOUS
<1>7. todo' = <<alloc, add, make>> /\ calls' = calls + 1 BY <1>1, <1>4, <1>5, <1>6 DEF Start
<1>8. add \in AddSteps'
  <2>1. PICK d \in Others : d = GetParent(p) BY <1>2
  <2>2. /\ add \in NameSteps /\ add.op = "add_to_dir" /\ add.dir = d
    BY <1>2, <1>6, <2>1 DEF AddStep, NameSteps
  <2>3. IsDir(d)' BY <1>2, <1>3, <2>1 DEF Others
  <2> QED BY <2>2, <2>3, SameSteps DEF AddSteps
<1>9. make \in MakeSteps' BY <1>5 DEF MakeSteps
<1>10. Now' = alloc /\ Rest' = <<add, make>>
  <2>1. Tail(<<alloc, add, make>>) = <<add, make>> OBVIOUS
  <2> QED BY <1>7, <2>1 DEF Now, Rest
<1>11. Rest' # <<>> /\ Head(Rest') = add /\ Tail(Rest') = <<make>>
  BY <1>10
<1>12. calls' > 0
  <2>1. calls \in Nat BY DEF IInv, TypeOK
  <2> QED BY <1>7, <2>1
<1>13. AtNew' BY <1>4, <1>8, <1>9, <1>10, <1>11, <1>12 DEF AtNew
<1> QED BY <1>3, <1>13 DEF InPlan

\* write and truncate: not to a directory.
LEMMA ContentKeeps ==
  ASSUME IInv, KindsOK, NamesFine, NEW p \in Paths,
         (\E w \in Writes : Write(p, w)) \/ (\E size \in 0 .. 1 : Truncate(p, size))
  PROVE  NamesFine' /\ result' # "seen"
<1>1. PICK op, arg, buf, n :
        /\ Ready /\ AtFile(p) /\ n = GetInode(p)
        /\ Start(op, p, arg, NoInode, WriteInode(n, buf))
  BY DEF Write, Truncate, IsOpen
<1>2. /\ CoverOK /\ PlanOK /\ spoiled = {} /\ todo = <<>> /\ n \in Others /\ ~IsDir(n)
  BY <1>1, ClientKnows
<1>3. /\ result' # "seen" /\ (InPlan' => NamesFine')
      /\ \A m \in Inodes : IsDir(m)' = IsDir(m)
  BY <1>1, <1>2, StartKeeps
<1>4. ~IsDir(n)' BY <1>2, <1>3 DEF Others
<1>5. todo' = WriteInode(n, buf) BY <1>1 DEF Start
<1>6. <<>> \in Seq(LaterSteps) /\ <<>> \in Seq(LaterSteps') OBVIOUS
<1>7. InPlan' BY <1>4, <1>5, <1>6, WriteIsPlanned
<1> QED BY <1>3, <1>7

\* The step of unlink and rmdir, and those of link and rename.
LEMMA RemoveStepIs ==
  ASSUME NEW p \in Paths, GetParent(p) \in Others
  PROVE  RemoveStep(p) \in LaterSteps'
<1>1. PICK s : s = RemoveStep(p) OBVIOUS
<1>2. s \in OtherSteps /\ s.op = "remove_from_dir" BY <1>1, ParentFinds DEF RemoveStep, OtherSteps
<1>3. s \in LaterSteps' BY <1>2, SameSteps DEF LaterSteps
<1> QED BY <1>1, <1>3

LEMMA EndStarts ==
  ASSUME NEW steps \in Seq(LaterSteps'), todo' = steps
  PROVE  InPlan'
<1>1. IsEnd(todo)' BY DEF IsEnd
<1> QED BY <1>1, EndGoesOn

LEMMA RemoveKeeps ==
  ASSUME IInv, KindsOK, NamesFine, NEW p \in Paths, Unlink(p) \/ Rmdir(p)
  PROVE  NamesFine' /\ result' # "seen"
<1>1. PICK op : Ready /\ Start(op, p, <<>>, NoInode, <<RemoveStep(p)>>) BY DEF Unlink, Rmdir
<1>2. CoverOK /\ PlanOK /\ spoiled = {} /\ todo = <<>> BY <1>1, ClientKnows
<1>3. GetParent(p) \in Others BY ClientSees DEF Unlink, Rmdir
<1>4. PICK s \in LaterSteps' : s = RemoveStep(p) BY <1>3, RemoveStepIs
<1>5. todo' = <<s>> BY <1>1, <1>4 DEF Start
<1>6. <<s>> \in Seq(LaterSteps') OBVIOUS
<1>7. InPlan' BY <1>5, <1>6, EndStarts
<1> QED BY <1>1, <1>2, <1>7, StartKeeps

LEMMA LinkKeeps ==
  ASSUME IInv, KindsOK, NamesFine, NEW from \in Paths, NEW to \in Paths,
         Link(from, to) \/ Rename(from, to)
  PROVE  NamesFine' /\ result' # "seen"
<1>1. PICK unlink : unlink = [op |-> "unlink", path |-> from] OBVIOUS
<1>2. PICK op, steps :
        /\ Ready /\ Exists(from) /\ ParentIsDir(to) /\ Start(op, from, to, GetInode(from), steps)
        /\ steps = LinkSteps(from, to) \/ steps = LinkSteps(from, to) \o <<unlink>>
  <2>1. Ready /\ AtFile(from) => Exists(from) BY ClientSees
  <2> QED BY <1>1, <2>1 DEF Link, Rename
<1>3. /\ CoverOK /\ PlanOK /\ spoiled = {} /\ todo = <<>> BY <1>2, ClientKnows
<1>4. /\ GetInode(from) \in Others /\ Held(GetInode(from))
      /\ GetParent(to) \in Others /\ IsDir(GetParent(to)) /\ GetParent(from) \in Others
      /\ Last(to) \in Names
  BY <1>2, ClientKnows, ClientSees
<1>5. /\ result' # "seen" /\ (InPlan' => NamesFine')
      /\ \A m \in Inodes : IsDir(m)' = IsDir(m) /\ (Held(m) => Held(m)')
  BY <1>2, <1>3, StartKeeps
<1>6. AddStep(to, FALSE) \in LaterSteps'
  <2>1. PICK d \in Others : d = GetParent(to) BY <1>4
  <2>2. PICK s : s = AddStep(to, FALSE) OBVIOUS
  <2>3. s \in NameSteps /\ s.op = "add_to_dir" /\ s.dir = d BY <1>4, <2>1, <2>2 DEF AddStep, NameSteps
  <2>4. IsDir(d)' BY <1>4, <1>5, <2>1 DEF Others
  <2>5. s \in AddSteps' BY <2>3, <2>4, SameSteps DEF AddSteps
  <2>6. newino' # NoInode /\ Held(newino)'
    <3>1. PICK n \in Others : n = GetInode(from) BY <1>4
    <3>2. newino' = n BY <1>2, <3>1 DEF Start
    <3>3. Held(n)' BY <1>4, <1>5, <3>1 DEF Others
    <3> QED BY <3>2, <3>3, Bounds DEF Held, Others
  <2> QED BY <2>2, <2>5, <2>6 DEF LaterSteps
<1>7. RemoveStep(from) \in LaterSteps' /\ RemoveStep(to) \in LaterSteps' BY <1>4, RemoveStepIs
<1>8. unlink \in LaterSteps'
  <2>1. unlink \in OtherSteps /\ unlink.op = "unlink" BY <1>1 DEF OtherSteps
  <2> QED BY <2>1, SameSteps DEF LaterSteps
<1>9. steps \in Seq(LaterSteps')
  <2>1. ASSUME NEW S, NEW a \in S, NEW b \in S, NEW c \in S PROVE <<a, b, c>> \in Seq(S) OBVIOUS
  <2>2. LinkSteps(from, to) \in Seq(LaterSteps') BY <1>6, <1>7, <2>1 DEF LinkSteps
  <2>3. PICK links, S : links = LinkSteps(from, to) /\ S = LaterSteps' OBVIOUS
  <2>4. links \o <<unlink>> \in Seq(S)
    <3>1. <<unlink>> \in Seq(S) BY <1>8, <2>3
    <3> QED BY <2>2, <2>3, <3>1, ConcatProperties
  <2> QED BY <1>2, <2>2, <2>3, <2>4
<1>10. todo' = steps BY <1>2 DEF Start
<1>11. InPlan' BY <1>9, <1>10, EndStarts
<1> QED BY <1>5, <1>11

\* Links and open files go up and down together.
LEMMA CountLinks ==
  ASSUME MaxCalls + 1 < LinkWrap, NEW k \in Nat
  PROVE  /\ k <= MaxCalls => (k + 1) % LinkWrap = k + 1
         /\ 0 < k /\ k <= MaxCalls + 1 => (k + LinkWrap - 1) % LinkWrap = k - 1
<1>1. PICK w \in Nat, c \in Nat : w = LinkWrap /\ c = MaxCalls /\ c + 1 < w
  BY Bounds, StarFsAssumption
<1>2. k <= c => (k + 1) % w = k + 1 BY <1>1
<1>3. ASSUME 0 < k, k <= c + 1 PROVE (k + w - 1) % w = k - 1
  <2>1. k - 1 \in Nat /\ k - 1 < w BY <1>1, <1>3
  <2>2. ASSUME NEW a \in Nat, a < w PROVE (a + w) % w = a BY <1>1, <2>2
  <2>3. k + w - 1 = (k - 1) + w BY <1>1
  <2> QED BY <2>1, <2>2, <2>3
<1> QED BY <1>1, <1>2, <1>3

LEMMA OneCounts ==
  ASSUME IInv, CoverOK, PlanOK, todo = <<>>, NEW n \in Others, ~IsDir(n),
         NEW k \in Nat, NEW m \in Nat,
         inodes' = [inodes EXCEPT ![n].links = k], opens' = [opens EXCEPT ![n] = m],
         k - m >= inodes[n].links - opens[n], k <= 1 + calls',
         UNCHANGED <<disk, todo>>, calls' \in Nat, calls' >= calls, calls' <= MaxCalls
  PROVE  CoverOK' /\ PlanOK'
<1>1. n \in Inodes /\ TypeOK /\ opens \in [Inodes -> Int] /\ CountsOK /\ DirsOK
  BY DEF Others, IInv, FreeOK, PlanOK
<1>2. /\ inodes'[n].links = k /\ inodes'[n].flags = inodes[n].flags /\ inodes'[n].size = inodes[n].size
      /\ inodes'[n].start = inodes[n].start /\ inodes'[n].len = inodes[n].len /\ opens'[n] = m
      /\ \A i \in Inodes : i # n => inodes'[i] = inodes[i] /\ opens'[i] = opens[i]
  BY <1>1 DEF TypeOK, InodeRecords
<1>3. CoverOK'
  <2>1. ASSUME NEW i \in Inodes
        PROVE  /\ inodes'[i].flags = inodes[i].flags
               /\ inodes'[i].size = inodes[i].size /\ inodes'[i].start = inodes[i].start
               /\ opens'[i] \in Nat /\ inodes'[i].links \in Nat
               /\ inodes'[i].links - opens'[i] >= inodes[i].links - opens[i]
    <3>1. CASE i = n BY <1>2, <3>1
    <3>2. CASE i # n
      <4>1. opens[i] \in Int /\ opens[i] >= 0 /\ inodes[i].links \in Nat BY OpensInt DEF CoverOK
      <4> QED BY <1>2, <3>2, <4>1
    <3> QED BY <3>1, <3>2
  <2> QED BY <2>1, SameCover
<1>4. \A d \in Inodes : IsDir(d)' = IsDir(d)
  <2>1. ASSUME NEW d \in Inodes PROVE inodes'[d].flags = inodes[d].flags
    <3>1. CASE d = n BY <1>2, <3>1
    <3>2. CASE d # n BY <1>2, <3>2
    <3> QED BY <3>1, <3>2
  <2> QED BY <2>1 DEF IsDir
<1>5. DirsOK'
  <2>1. \A d \in Inodes : IsDir(d) => inodes'[d] = inodes[d] /\ opens'[d] = opens[d] BY <1>2
  <2>2. \A d \in Inodes : ~BeingStored(d) BY DEF BeingStored
  <2> QED BY <1>1, <1>4, <2>1, <2>2, DirsStay
<1>6. CountsOK'
  <2>1. ASSUME NEW i \in Inodes PROVE inodes'[i].links <= 1 + calls'
    <3>1. CASE i = n BY <1>2, <3>1
    <3>2. CASE i # n
      <4>1. inodes[i].links <= 1 + calls /\ inodes[i].links \in Nat /\ calls \in Nat
        BY <1>1, OpensInt DEF CountsOK, TypeOK
      <4> QED BY <1>2, <3>2, <4>1
    <3> QED BY <3>1, <3>2
  <2>2. ASSUME NEW i \in Others, inodes'[i].start = NoBlock PROVE inodes'[i].len = 0
    <3>1. CASE i = n BY <1>1, <1>2, <2>2, <3>1 DEF CountsOK
    <3>2. CASE i # n BY <1>1, <1>2, <2>2, <3>2 DEF CountsOK, Others
    <3> QED BY <3>1, <3>2
  <2> QED BY <2>1, <2>2, SameSteps DEF CountsOK
<1>7. todo' = <<>> OBVIOUS
<1> QED BY <1>3, <1>5, <1>6, <1>7, OverIsPlanned DEF PlanOK

LEMMA OpenKeeps ==
  ASSUME MaxCalls + 1 < LinkWrap, IInv, KindsOK, NamesFine, NEW p \in Paths, Open(p)
  PROVE  NamesFine'
<1>1. Ready /\ AtFile(p) /\ calls < MaxCalls /\ calls' = calls + 1 /\ UNCHANGED <<disk, todo, spoiled>>
  BY DEF Open
<1>2. PICK n \in Others : n = GetInode(p) /\ ~IsDir(n) BY <1>1, ClientKnows
<1>3. CoverOK /\ PlanOK /\ spoiled = {} /\ todo = <<>> BY <1>1, ClientKnows
<1>4. n \in Inodes /\ opens[n] \in Int /\ opens[n] >= 0 /\ inodes[n].links \in Nat
      /\ inodes[n].links <= 1 + calls /\ calls \in Nat /\ MaxCalls \in Nat
  BY <1>3, OpensInt, StarFsAssumption DEF Others, CoverOK, PlanOK, CountsOK, IInv, TypeOK
<1>5. PICK k \in Nat, m \in Nat : k = inodes[n].links + 1 /\ m = opens[n] + 1 BY <1>4
<1>6. inodes' = [inodes EXCEPT ![n].links = k] /\ opens' = [opens EXCEPT ![n] = m]
  <2>1. inodes[n].links <= MaxCalls BY <1>1, <1>4
  <2>2. (inodes[n].links + 1) % LinkWrap = k BY <1>4, <1>5, <2>1, CountLinks
  <2> QED BY <1>2, <1>4, <1>5, <2>2 DEF Open, IInv, TypeOK, FreeOK
<1>7. k - m >= inodes[n].links - opens[n] /\ k <= 1 + calls' /\ calls' \in Nat /\ calls' >= calls
      /\ calls' <= MaxCalls
  BY <1>1, <1>4, <1>5
<1>8. CoverOK' /\ PlanOK' BY <1>1, <1>2, <1>3, <1>6, <1>7, OneCounts
<1> QED BY <1>1, <1>3, <1>8 DEF NamesFine

\* Who is open is a file, and has the link that release takes.
LEMMA ReleaseKeeps ==
  ASSUME MaxCalls + 1 < LinkWrap, IInv, KindsOK, NamesFine, NEW n \in Inodes, Release(n)
  PROVE  NamesFine'
<1>1. Ready /\ opens[n] > 0 /\ calls' = calls /\ UNCHANGED <<disk, todo, spoiled>> BY DEF Release
<1>2. CoverOK /\ PlanOK /\ spoiled = {} /\ todo = <<>>
  BY <1>1 DEF IInv, TodoOK, Ready, KindsOK, NamesFine
<1>3. n \in Others /\ ~IsDir(n)
  BY <1>1, <1>2 DEF IInv, FreeOK, Others, PlanOK, DirsOK, DirOK
<1>4. opens[n] \in Int /\ inodes[n].links \in Nat /\ inodes[n].links >= opens[n]
      /\ inodes[n].links <= 1 + calls /\ calls \in Nat /\ MaxCalls \in Nat /\ calls <= MaxCalls
  BY <1>2, OpensInt, StarFsAssumption DEF CoverOK, PlanOK, CountsOK, IInv, TypeOK
<1>5. PICK k \in Nat, m \in Nat : k = inodes[n].links - 1 /\ m = opens[n] - 1 BY <1>1, <1>4
<1>6. inodes' = [inodes EXCEPT ![n].links = k] /\ opens' = [opens EXCEPT ![n] = m]
  <2>1. 0 < inodes[n].links /\ inodes[n].links <= MaxCalls + 1 BY <1>1, <1>4
  <2>2. (inodes[n].links + LinkWrap - 1) % LinkWrap = k BY <1>4, <1>5, <2>1, CountLinks
  <2> QED BY <1>5, <2>2 DEF Release, IInv, TypeOK, FreeOK
<1>7. k - m >= inodes[n].links - opens[n] /\ k <= 1 + calls' /\ calls' \in Nat /\ calls' >= calls
      /\ calls' <= MaxCalls
  BY <1>1, <1>4, <1>5
<1>8. CoverOK' /\ PlanOK' BY <1>1, <1>2, <1>3, <1>6, <1>7, OneCounts
<1> QED BY <1>1, <1>2, <1>8 DEF NamesFine

\* What changes neither the disk nor the steps that are left.
LEMMA SameKeeps ==
  ASSUME IInv, NamesFine, UNCHANGED <<inodes, disk, todo, newino, opens, spoiled>>,
         calls' = calls \/ (todo = <<>> /\ spoiled = {} /\ calls < MaxCalls /\ calls' = calls + 1)
  PROVE  NamesFine'
<1>1. \A n \in Inodes : inodes[n].links \in Nat /\ opens[n] \in Int /\ opens[n] >= 0
  BY OpensInt DEF NamesFine, CoverOK
<1>2. CoverOK'
  <2>1. ASSUME NEW n \in Inodes PROVE inodes'[n].links - opens'[n] >= inodes[n].links - opens[n] BY <1>1
  <2> QED BY <1>1, <2>1, SameCover DEF NamesFine
<1>3. calls \in Nat /\ MaxCalls \in Nat BY StarFsAssumption DEF IInv, TypeOK
<1>4. ASSUME PlanOK, todo = <<>>, calls' \in Nat, calls' >= calls, calls' <= MaxCalls PROVE PlanOK'
  <2>1. \A d \in Inodes : ~BeingStored(d) BY <1>4 DEF BeingStored
  <2>2. CountsOK' /\ DirsOK' BY <1>4, <2>1, SamePlan DEF PlanOK, NamesFine
  <2>3. todo' = <<>> BY <1>4
  <2> QED BY <2>2, <2>3, OverIsPlanned DEF PlanOK
<1>5. ASSUME PlanOK, calls' = calls PROVE PlanOK'
  <2>1. Now' = Now /\ Rest' = Rest BY DEF Now, Rest
  <2>2. \A d \in Inodes : IsDir(d)' = IsDir(d) /\ Content(d)' = Content(d) BY SameContent
  <2>3. DirsOK'
    <3>1. ASSUME NEW d \in Inodes, IsDir(d)' PROVE DirOK(d)'
      <4>1. DirOK(d) BY <1>5, <2>2, <3>1 DEF PlanOK, DirsOK
      <4>2. BeingStored(d)' = BeingStored(d) BY <2>1 DEF BeingStored
      <4>3. Counted(Content(d)) => Counted(Content(d))' BY <2>2 DEF Counted
      <4> QED BY <4>1, <4>2, <4>3 DEF DirOK
    <3>2. Root \in Inodes BY Bounds DEF Others
    <3> QED BY <1>5, <2>2, <3>1, <3>2 DEF PlanOK, DirsOK
  <2>4. CountsOK' BY <1>5, SameSteps DEF PlanOK, CountsOK
  <2>5. InPlan'
    <3>1. SUFFICES ASSUME todo # <<>> PROVE (AtNew \/ AtEnd \/ AtWrite \/ AtStore)' BY DEF InPlan
    <3>2. \A n : Held(n)' = Held(n) /\ Blank(n)' = Blank(n) /\ IsDir(n)' = IsDir(n)
      BY <1>5 DEF Held, Blank, IsDir
    <3>3. MayMake' = MayMake BY <1>5 DEF MayMake, Blank
    <3>4. AddSteps' = AddSteps BY <3>2, SameSteps DEF AddSteps
    <3>5. LaterSteps' = LaterSteps BY <3>4, SameSteps DEF LaterSteps, Held
    <3>6. \A steps : IsEnd(steps)' = IsEnd(steps) BY <3>3, <3>5, SameSteps DEF IsEnd
    <3>7. \A buf : Sound(buf)' = Sound(buf) BY DEF Sound, Counted, AllHeld, EntriesOf, Held
    <3>8. \A n, buf : Lands(n, buf)' = Lands(n, buf) BY <3>2, <3>7 DEF Lands
    <3>9. \A steps : Writing(steps)' = Writing(steps) BY <3>2, <3>6, <3>8 DEF Writing
    <3>10. PICK now, rest, all : now = Now /\ rest = Rest /\ all = todo OBVIOUS
    <3>11. now = Now' /\ rest = Rest' /\ all = todo' BY <2>1, <3>10
    <3>12. AtNew => AtNew' BY <1>5, <2>1, <3>4, SameSteps DEF AtNew
    <3>13. AtEnd => AtEnd'
      <4>1. IsEnd(rest)' = IsEnd(rest) BY <3>6
      <4> QED BY <2>1, <3>3, <3>5, <3>10, <3>11, <4>1, SameSteps DEF AtEnd
    <3>14. AtWrite => AtWrite'
      <4>1. Writing(rest)' = Writing(rest) /\ Writing(all)' = Writing(all) BY <3>9
      <4> QED BY <2>1, <3>10, <3>11, <4>1 DEF AtWrite
    <3>15. AtStore => AtStore'
      <4>1. IsEnd(rest)' = IsEnd(rest) BY <3>6
      <4>2. PICK n, buf : n = now.ino /\ buf = now.buf OBVIOUS
      <4>3. IsDir(n)' = IsDir(n) /\ Sound(buf)' = Sound(buf) BY <3>2, <3>7
      <4> QED BY <2>1, <3>10, <3>11, <4>1, <4>2, <4>3 DEF AtStore
    <3> QED BY <1>5, <3>1, <3>12, <3>13, <3>14, <3>15 DEF PlanOK, InPlan
  <2> QED BY <2>3, <2>4, <2>5 DEF PlanOK
<1>6. spoiled' = {} => PlanOK'
  <2>1. CASE calls' = calls BY <1>5, <2>1 DEF NamesFine
  <2>2. CASE todo = <<>> /\ spoiled = {} /\ calls < MaxCalls /\ calls' = calls + 1
    BY <1>3, <1>4, <2>2 DEF NamesFine
  <2> QED BY <2>1, <2>2
<1> QED BY <1>2, <1>6 DEF NamesFine

\* What a client sees is a directory, or none, as before.
LEMMA KindsStay ==
  ASSUME IInv, KindsOK, UNCHANGED <<disk, seen, result, spoiled>>,
         \A n \in Inodes : /\ inodes'[n].flags = inodes[n].flags
                           /\ inodes'[n].size = inodes[n].size /\ inodes'[n].start = inodes[n].start
  PROVE  KindsOK'
<1>1. SUFFICES ASSUME result = "seen", NEW p \in Paths, seen[p] # Absent
               PROVE  spoiled = {} /\ seen[p].kind = IF IsDir(GetInode(p))' THEN "dir" ELSE "file"
  BY DEF KindsOK, Absent
<1>2. PICK n \in Others : n = GetInode(p) BY <1>1 DEF IInv, SeenOK
<1>3. GetInode(p)' = n BY <1>2, SameLookup DEF IInv
<1>4. inodes'[n].flags = inodes[n].flags BY DEF Others
<1> QED BY <1>1, <1>2, <1>3, <1>4 DEF KindsOK, IsDir

LEMMA LookKinds ==
  ASSUME IInv, Look
  PROVE  KindsOK'
<1>1. spoiled' = {} /\ seen' = Tree /\ UNCHANGED <<inodes, disk>> /\ TypeOK BY DEF Look, IInv
<1>2. SUFFICES ASSUME NEW p \in Paths, Tree[p] # Absent
               PROVE  Tree[p].kind = IF IsDir(GetInode(p))' THEN "dir" ELSE "file"
  BY <1>1 DEF KindsOK, Absent
<1>3. PICK n : n = GetInode(p) OBVIOUS
<1>4. GetInode(p)' = n BY <1>1, <1>3, SameLookup
<1>5. Tree[p].kind = IF IsDir(n) THEN "dir" ELSE "file" BY <1>2, <1>3 DEF Tree
<1> QED BY <1>1, <1>4, <1>5 DEF IsDir

\* What clients see, and the links, after any step.
LEMMA NextNames ==
  ASSUME MaxCalls + 1 < LinkWrap
  PROVE  IInv /\ NamesInv /\ [Next]_vars => NamesInv'
<1> SUFFICES ASSUME IInv, NamesInv, [Next]_vars PROVE NamesInv' OBVIOUS
<1>1. /\ KindsOK /\ (removed = {} => NamesFine)
      /\ KindsOK' /\ (removed' = {} => NamesFine') => NamesInv'
  BY DEF NamesInv, NamesFine
<1>2. Ready => NamesFine /\ spoiled = {} /\ todo = <<>> /\ removed = {}
  BY <1>1 DEF Ready, KindsOK, IInv, TodoOK
<1>3. CASE Look
  <2>1. KindsOK' BY <1>3, LookKinds
  <2>2. /\ UNCHANGED <<inodes, disk, todo, newino, opens, spoiled, removed>>
        /\ calls' = calls
    BY <1>3 DEF Look
  <2>3. removed' = {} => NamesFine' BY <1>1, <2>2, SameKeeps
  <2> QED BY <1>1, <2>1, <2>3
<1>4. CASE Step
  <2>1. removed' = {} => removed = {}
    BY <1>4 DEF Step, AllocInode, AllocSpace, Resize, Store, AddToDir, RemoveFromDir, Unref, MakeDirectory,
           MakeFile, UnlinkRenamed
  <2>2. removed' = {} => NamesFine' BY <1>1, <1>4, <2>1, StepKeeps
  <2>3. result' # "seen"
    <3>1. result = "running"
      <4>1. \E op : At(op)
        BY <1>4 DEF Step, AllocInode, AllocSpace, Resize, Store, AddToDir, RemoveFromDir, Unref, MakeDirectory,
               MakeFile, UnlinkRenamed
      <4> QED BY <4>1, Reached
    <3>2. ASSUME NEW steps, Continue(steps) PROVE result' # "seen" BY <3>1, <3>2 DEF Continue
    <3>3. ASSUME NEW r \in {"ok", "fail", "crash"}, Done(r) PROVE result' # "seen" BY <3>3 DEF Done
    <3> QED BY <1>4, <3>2, <3>3 DEF Step, AllocInode, AllocSpace, Resize, Store, AddToDir, RemoveFromDir,
               Unref, MakeDirectory, MakeFile, UnlinkRenamed, Killed
  <2> QED BY <1>1, <2>2, <2>3 DEF KindsOK
<1>5. CASE Crash
  <2>1. /\ spoiled = {} /\ todo # <<>> /\ Killed /\ UNCHANGED <<inodes, disk, calls, removed>>
        /\ result' = "crash"
    BY <1>5 DEF Crash, Killed, Done
  <2>2. removed' = {} => NamesFine' BY <1>1, <2>1, KilledKeeps DEF NamesFine
  <2> QED BY <1>1, <2>1, <2>2 DEF KindsOK
<1>6. CASE Calls
  <2>1. CASE \E answer \in {"ok", "fail"} : NoEffect(answer)
    <3>1. /\ Ready /\ UNCHANGED <<inodes, disk, todo, newino, opens, spoiled>>
          /\ calls < MaxCalls /\ calls' = calls + 1 /\ result' # "seen"
      BY <2>1 DEF NoEffect
    <3> QED BY <1>1, <1>2, <3>1, SameKeeps DEF KindsOK
  <2>2. CASE \E p \in Paths : Create(p) \/ Mkdir(p)
    <3>1. Ready BY <2>2 DEF Create, Mkdir
    <3> QED BY <1>1, <1>2, <2>2, <3>1, NewInodeKeeps DEF KindsOK
  <2>3. CASE \E p \in Paths : Unlink(p) \/ Rmdir(p)
    <3>1. Ready BY <2>3 DEF Unlink, Rmdir
    <3> QED BY <1>1, <1>2, <2>3, <3>1, RemoveKeeps DEF KindsOK
  <2>4. CASE \E p \in Paths : (\E w \in Writes : Write(p, w)) \/ (\E n \in 0 .. 1 : Truncate(p, n))
    <3>1. Ready BY <2>4 DEF Write, Truncate
    <3> QED BY <1>1, <1>2, <2>4, <3>1, ContentKeeps DEF KindsOK
  <2>5. CASE \E p, q \in Paths : Link(p, q) \/ Rename(p, q)
    <3>1. Ready BY <2>5 DEF Link, Rename
    <3> QED BY <1>1, <1>2, <2>5, <3>1, LinkKeeps DEF KindsOK
  <2>6. CASE \E p \in Paths : Open(p)
    <3>1. PICK p \in Paths : Open(p) BY <2>6
    <3>2. Ready /\ UNCHANGED <<disk, seen, result, spoiled>> BY <3>1 DEF Open
    <3>3. NamesFine' BY <1>1, <1>2, <3>1, <3>2, OpenKeeps
    <3>4. PICK n \in Others : n = GetInode(p) BY <1>1, <1>2, <3>1, <3>2, ClientKnows DEF Open
    <3>5. PICK k \in Nat : inodes' = [inodes EXCEPT ![n].links = k]
      <4>1. inodes[n].links \in Nat BY OpensInt DEF Others
      <4> QED BY <3>1, <3>4, <4>1, LinkCounts DEF Open, IInv, TypeOK, Others
    <3>6. KindsOK' BY <1>1, <3>2, <3>5, SetLinks, KindsStay DEF IInv
    <3> QED BY <1>1, <3>3, <3>6
  <2>7. CASE \E n \in Inodes : Release(n)
    <3>1. PICK n \in Inodes : Release(n) BY <2>7
    <3>2. Ready /\ UNCHANGED <<disk, seen, result, spoiled>> BY <3>1 DEF Release
    <3>3. NamesFine' BY <1>1, <1>2, <3>1, <3>2, ReleaseKeeps
    <3>4. n \in Others BY <3>1 DEF Release, IInv, FreeOK, Others
    <3>5. PICK k \in Nat : inodes' = [inodes EXCEPT ![n].links = k]
      <4>1. inodes[n].links \in Nat BY OpensInt
      <4> QED BY <3>1, <4>1, LinkCounts DEF Release, IInv, TypeOK
    <3>6. KindsOK' BY <1>1, <3>2, <3>4, <3>5, SetLinks, KindsStay DEF IInv
    <3> QED BY <1>1, <3>3, <3>6
  <2>8. \/ \E op \in DOMAIN Says : \E answer \in Says[op] : NoEffect(answer)
        \/ ~(\E op \in DOMAIN Says : \E answer \in Says[op] : NoEffect(answer))
    OBVIOUS
  <2>9. (\E op \in DOMAIN Says : \E answer \in Says[op] : NoEffect(answer))
          => \E answer \in {"ok", "fail"} : NoEffect(answer)
    <3>1. \A op \in DOMAIN Says : Says[op] \subseteq {"ok", "fail"} BY DEF Says
    <3> QED BY <3>1
  <2> QED BY <1>6, <2>1, <2>2, <2>3, <2>4, <2>5, <2>6, <2>7, <2>9 DEF Calls
<1>7. CASE (\E p : OpenDir(p)) \/ ReadDir \/ ReleaseDir \/ UNCHANGED vars
  <2>1. /\ UNCHANGED <<inodes, disk, todo, newino, opens, spoiled, seen, result, removed>>
        /\ calls' = calls \/ (todo = <<>> /\ spoiled = {} /\ calls < MaxCalls /\ calls' = calls + 1)
    BY <1>7 DEF OpenDir, ReadDir, ReleaseDir, vars
  <2>2. removed' = {} => NamesFine' BY <1>1, <2>1, SameKeeps
  <2>3. KindsOK' BY <1>1, <2>1, KindsStay
  <2> QED BY <1>1, <2>2, <2>3
<1> QED BY <1>3, <1>4, <1>5, <1>6, <1>7 DEF Next

\* What comes first and what follows it.
LEMMA FirstAndRest ==
  ASSUME NEW S, NEW h \in S, NEW e \in Seq(S), NEW s, s = <<h>> \o e
  PROVE  /\ s \in Seq(S) /\ Len(s) = Len(e) + 1 /\ s[1] = h
         /\ \A i \in 1 .. Len(e) : s[i + 1] = e[i]
<1>1. PICK one \in Seq(S) : one = <<h>> /\ Len(one) = 1 /\ one[1] = h
  <2>1. <<h>> \in Seq(S) /\ Len(<<h>>) = 1 /\ <<h>>[1] = h OBVIOUS
  <2> QED BY <2>1, Zenon
<1>2. s = one \o e BY <1>1
<1>3. s \in Seq(S) /\ Len(s) = Len(e) + 1 BY <1>1, <1>2, ConcatProperties
<1>4. s[1] = h /\ \A i \in 1 .. Len(e) : s[i + 1] = e[i] BY <1>1, <1>2, ConcatProperties
<1> QED BY <1>3, <1>4

\* What mkfs_starfs has made: the only directory has an entry for each inode with a link.
LEMMA InitNames == Init => NamesInv
<1> SUFFICES ASSUME Init PROVE NamesInv OBVIOUS
<1>1. /\ inodes = [n \in Inodes |-> Made(n)] /\ disk = Written(<<>>, RootBlock * Cells, RootDirectory)
      /\ todo = <<>> /\ opens = [n \in Inodes |-> 0] /\ calls = 0 /\ spoiled = {}
      /\ seen = [p \in Paths |-> Absent]
  BY DEF Init
<1>2. IInv BY InitInv
<1>3. ASSUME NEW n \in Inodes
      PROVE  LET i == inodes[n] IN
             /\ n \in Nat /\ i.links = (IF n <= 5 THEN 1 ELSE 0)
             /\ IsDir(n) <=> n = Root
             /\ n # Free => (i.start = NoBlock => i.len = 0)
             /\ n = Root => i.start = RootBlock /\ i.size = 7 /\ i.len = 1
  <2>1. n \in Nat BY Bounds DEF Inodes
  <2>2. inodes[n] = Made(n) BY <1>1
  <2>3. Len(SystemNames) + 1 = 7 BY DEF SystemNames
  <2>4. RootBlock # NoBlock BY Bounds DEF NoBlock
  <2>5. n \in {0, 1, 2, 3, 4, 5} \/ n > 5 BY <2>1
  <2> QED BY <2>1, <2>2, <2>3, <2>4, <2>5 DEF Made, Inode, System, Root, Free, IsDir, NoBlock
<1>4. Root \in Inodes /\ Root # Free /\ Cells > 6 /\ Cells \in Nat BY Bounds DEF Others, Root, Free
<1>5. PICK buf : /\ buf = Content(Root) /\ buf \in Seq(CellValues) /\ Len(buf) = 7
                 /\ buf[1] = Header(6) /\ \A i \in 1 .. 6 : buf[i + 1].ino = i - 1
  <2> DEFINE entries == [i \in DOMAIN SystemNames |-> Entry(i - 1, SystemNames[i])]
  <2>1. Content(Root) \in Seq(CellValues) /\ Len(Content(Root)) = 7
    BY <1>2, <1>3, <1>4, ContentOK DEF IInv
  <2>2. PICK S : S = {entries[i] : i \in 1 .. 6} \cup {Header(6)} OBVIOUS
  <2>3. PICK e \in Seq(S) : e = entries /\ Len(e) = 6 /\ \A i \in 1 .. 6 : e[i].ino = i - 1
    <3>1. DOMAIN SystemNames = 1 .. 6 BY DEF SystemNames
    <3>2. \A i \in 1 .. 6 : entries[i].ino = i - 1 BY <3>1 DEF Entry
    <3>3. entries \in [1 .. 6 -> S] BY <2>2, <3>1
    <3>4. 6 \in Nat OBVIOUS
    <3> HIDE DEF entries
    <3>5. entries \in Seq(S) /\ Len(entries) = 6 BY <3>3, <3>4, FunctionIsSeq
    <3> QED BY <3>2, <3>5
  <2>4. PICK root \in Seq(S) : /\ root = RootDirectory /\ Len(root) = 7 /\ root[1] = Header(6)
                               /\ \A i \in 1 .. 6 : root[i + 1].ino = i - 1
    <3>1. RootDirectory = <<Header(6)>> \o e
      <4>1. Len(SystemNames) = 6 BY DEF SystemNames
      <4> QED BY <2>3, <4>1 DEF RootDirectory
    <3>2. PICK h \in S : h = Header(6) BY <2>2
    <3>3. PICK root : root = <<h>> \o e OBVIOUS
    <3>4. /\ root \in Seq(S) /\ Len(root) = Len(e) + 1 /\ root[1] = h
          /\ \A i \in 1 .. Len(e) : root[i + 1] = e[i]
      BY <3>3, FirstAndRest
    <3>5. root = RootDirectory BY <3>1, <3>2, <3>3, Zenon
    <3>6. Len(root) = 7 BY <2>3, <3>4
    <3>7. \A i \in 1 .. 6 : root[i + 1].ino = i - 1
      <4>1. Len(e) = 6 /\ \A i \in 1 .. 6 : e[i].ino = i - 1 BY <2>3
      <4>2. \A i \in 1 .. 6 : root[i + 1] = e[i] BY <3>4, <4>1
      <4> QED BY <4>1, <4>2
    <3> QED BY <3>2, <3>5, <3>6, <3>7, <3>4, Zenon
  <2>5. PICK at \in Int : at = RootBlock * Cells
    <3>1. \A a, b \in Int : a * b \in Int OBVIOUS
    <3>2. RootBlock \in Int /\ Cells \in Int BY Bounds
    <3> QED BY <3>1, <3>2
  <2>6. ASSUME NEW i \in 1 .. 7 PROVE Content(Root)[i] = root[i]
    <3>1. PICK a \in Int : a = at + i - 1 OBVIOUS
    <3>2. PICK empty : empty = <<>> OBVIOUS
    <3>3. disk = Written(empty, at, root) BY <1>1, <2>4, <2>5, <3>2
    <3>4. i \in 1 .. Len(root) BY <2>4
    <3>5. a \in DOMAIN Written(empty, at, root) /\ Written(empty, at, root)[a] = root[i]
      <4>1. \A j \in 1 .. Len(root) : a = at + j - 1 =>
              a \in DOMAIN Written(empty, at, root) /\ Written(empty, at, root)[a] = root[j]
        BY WrittenIs
      <4> QED BY <3>1, <3>4, <4>1
    <3>6. Content(Root)[i] = LET b == at + i - 1 IN IF b \in DOMAIN disk THEN disk[b] ELSE Unset
      BY <1>3, <1>4, <2>5 DEF Content
    <3> QED BY <3>1, <3>3, <3>5, <3>6
  <2>7. Content(Root)[1] = Header(6) BY <2>4, <2>6
  <2>8. \A i \in 1 .. 6 : Content(Root)[i + 1].ino = i - 1
    <3>1. ASSUME NEW i \in 1 .. 6 PROVE Content(Root)[i + 1].ino = i - 1
      <4>1. PICK j \in 1 .. 7 : j = i + 1 OBVIOUS
      <4>2. Content(Root)[j] = root[j] BY <2>6
      <4> QED BY <2>4, <4>1, <4>2
    <3> QED BY <3>1
  <2> QED BY <2>1, <2>7, <2>8
<1>6. Counted(buf) BY <1>5 DEF Counted, Header
<1>7. AllHeld(buf)
  <2>1. ASSUME NEW i \in EntriesOf(buf) PROVE Held(buf[i + 1].ino)
    <3>1. i \in 1 .. 6 BY <1>5 DEF EntriesOf
    <3>2. PICK n \in Inodes : n = i - 1 /\ n <= 5 BY <3>1, Bounds DEF Inodes
    <3>3. inodes[n].links = 1 /\ opens[n] = 0 BY <1>1, <1>3, <3>2
    <3>4. Held(n) BY <3>3 DEF Held
    <3> QED BY <1>5, <3>1, <3>2, <3>4
  <2> QED BY <2>1 DEF AllHeld
<1>8. CoverOK
  <2>1. \A n \in Inodes : opens[n] >= 0 /\ inodes[n].links >= opens[n] BY <1>1, <1>3
  <2>2. \A d \in Inodes : Formatted(d) => AllHeld(Content(d)) BY <1>3, <1>5, <1>7 DEF Formatted
  <2> QED BY <2>1, <2>2 DEF CoverOK
<1>9. DirsOK
  <2>1. ASSUME NEW d \in Inodes, IsDir(d) PROVE DirOK(d)
    <3>1. d = Root /\ d # Free BY <1>3, <1>4, <2>1
    <3>2. /\ inodes[Root].links = 1 /\ inodes[Root].size = 7 /\ inodes[Root].len = 1 /\ opens[Root] = 0
      BY <1>1, <1>3, <1>4 DEF Root
    <3>3. 7 <= 1 * Cells BY <1>4
    <3> QED BY <1>5, <1>6, <3>1, <3>2, <3>3 DEF DirOK
  <2>2. IsDir(Root) BY <1>3, <1>4
  <2> QED BY <2>1, <2>2 DEF DirsOK
<1>10. CountsOK
  <2>1. \A n \in Inodes : inodes[n].links <= 1 + calls BY <1>1, <1>3
  <2>2. \A n \in Others : inodes[n].start = NoBlock => inodes[n].len = 0 BY <1>3 DEF Others
  <2> QED BY <1>1, <2>1, <2>2, StarFsAssumption DEF CountsOK
<1>11. InPlan BY <1>1 DEF InPlan
<1>12. KindsOK BY <1>1 DEF KindsOK
<1> QED BY <1>1, <1>8, <1>9, <1>10, <1>11, <1>12 DEF NamesInv, PlanOK

\* As long as nothing was removed, an inode has a link for its name and one for each time
\* it is open, and alloc_inode gives away none that is in use, wherever the program is
\* killed (main.c:132-144, 264, 541, 554, 592); if there are fewer calls than a linkcount
\* can count.
THEOREM LinksSuffice ==
  ASSUME MaxCalls + 1 < LinkWrap
  PROVE  Spec => []LinksCover
<1>1. Init => IInv /\ NamesInv BY InitInv, InitNames
<1>2. IInv /\ NamesInv /\ [Next]_vars => IInv' /\ NamesInv' BY NextInv, NextNames
<1>3. IInv /\ NamesInv => LinksCover BY CoverIsEnough DEF NamesInv, LinksCover
<1> QED BY <1>1, <1>2, <1>3, PTL DEF Spec

=============================================================================
