-------------------------------- MODULE StarFs --------------------------------
(***************************************************************************)
(* StarFS as its FUSE program runs it (tools/fuse_starfs/main.c), on a     *)
(* disk made by tools/mkfs_starfs.  One call is served at a time, and the  *)
(* program may be killed between any two of its changes to the disk: the   *)
(* inode table is a shared mapping of the disk, so that every assignment   *)
(* to it stays.                                                            *)
(*                                                                         *)
(* The disk is counted in cells of 8 bytes.  A directory's header is one   *)
(* cell, so is an entry with a name of one letter, and an inode has four.  *)
(* The names of the system files, which are longer, are taken for such.    *)
(*                                                                         *)
(* A call is a list of steps that are still to be done (`todo`).  What it  *)
(* reads, a step reads when it is reached.                                 *)
(*                                                                         *)
(* The kernel looks paths up before it calls: it does not create what is   *)
(* there or remove what is not, and libfuse does not unlink an open file.  *)
(* Clients leave the system files alone.                                   *)
(***************************************************************************)
EXTENDS Integers, Sequences, FiniteSets, SequencesExt, TLC

CONSTANTS
  Names,       \* the names clients use
  Cells,       \* cells of a block: 512 in the code
  InodeCount,  \* inodes of the table
  Blocks,      \* blocks of the disk
  LinkWrap,    \* values of a linkcount: 2^32 in the code
  Writes,      \* the places clients write at: [offset, size]
  MaxCalls,    \* bound: calls of one behaviour, but for release
  MaxOpen      \* bound: times a file is open at the same time

CellsPerInode == 4
TableBlocks == (InodeCount + Cells \div CellsPerInode - 1) \div (Cells \div CellsPerInode)

SystemNames ==
  <<"$bootblock", "$header", "$inodes", "$rootdirectory", "$free", "$badblocks">>
Root == 3
Free == 4
RootBlock == 9 + TableBlocks

ASSUME StarFsAssumption ==
  /\ Cells \in Nat /\ InodeCount \in Nat /\ Blocks \in Nat /\ LinkWrap \in Nat
  /\ Cells > Len(SystemNames) /\ InodeCount >= Len(SystemNames)
  /\ Blocks > RootBlock + 1 /\ LinkWrap > 2
  /\ Names \cap Range(SystemNames) = {}
  /\ Writes \subseteq [offset : Nat, size : Nat \ {0}]
  /\ MaxCalls \in Nat /\ MaxOpen \in Nat

Inodes == 0 .. InodeCount - 1
NoInode == -1   \* INVALID_INODE
NoBlock == -1   \* INVALID_BLOCK

\* What a cell of the disk holds.
Header(n) == [kind |-> "header", count |-> n]
Entry(n, name) == [kind |-> "entry", ino |-> n, name |-> name]
Data(call) == [kind |-> "data", call |-> call]
Unset == [kind |-> "unset"]  \* zeros, or what malloc left in a buffer

VARIABLES
  inodes,   \* the inode table
  disk,     \* the cells that have been written, from the root directory on
  todo,     \* the steps the running call has still to do
  newino,   \* the inode the running call makes or links
  chunk,    \* the startblock of a new chunk
  call,     \* the last call: [op, path, arg]
  result,   \* "running"; "ok", "fail" or "crash"; "seen" after that was looked at
  opens,    \* how often each inode is open
  calls,    \* number of calls
  seen,     \* the tree that clients see
  removed,  \* history: the directories an entry was removed from
  spoiled,  \* history: what has gone wrong for good
  listing,  \* the directory that is open for reading: [ino, left, was, read]; `was` and
            \* `read` are history
  filecount \* inodes with links, when the program was started

vars == <<inodes, disk, todo, newino, chunk, call, result, opens, calls, seen, removed, spoiled, listing, filecount>>

-----------------------------------------------------------------------------
(* mkfs_starfs. *)

Inode(flags, links, size, start, len) ==
  [flags |-> flags, links |-> links, size |-> size, start |-> start, len |-> len]
System(size, start, len) == Inode({"system"}, 1, size, start, len)

Made(n) ==
  CASE n = 0 -> System(8 * Cells, 0, 8)
    [] n = 1 -> System(Cells, 8, 1)
    [] n = 2 -> System(InodeCount * CellsPerInode, 9, TableBlocks)
    [] n = Root -> Inode({"dir"}, 1, Len(SystemNames) + 1, RootBlock, 1)
    [] n = Free -> System((Blocks - RootBlock - 1) * Cells, RootBlock + 1, Blocks - RootBlock - 1)
    [] n = 5 -> System(0, NoBlock, 0)
    [] OTHER -> Inode({}, 0, 0, 0, 0)

Written(d, at, buf) ==
  [a \in DOMAIN d \cup at .. at + Len(buf) - 1 |->
     IF a - at + 1 \in DOMAIN buf THEN buf[a - at + 1] ELSE d[a]]

RootDirectory ==
  <<Header(Len(SystemNames))>> \o [i \in DOMAIN SystemNames |-> Entry(i - 1, SystemNames[i])]

\* The paths clients use, and what they find there.
Paths == {<<a>> : a \in Names} \cup {<<a, b>> : a, b \in Names}
Absent == [kind |-> "absent", data |-> <<>>]

NoListing == [ino |-> NoInode, left |-> 0, was |-> <<>>, read |-> <<>>]

NoCall == [op |-> "none", path |-> <<>>, arg |-> <<>>]

\* What main counts.
Linked == Cardinality({n \in Inodes : inodes[n].links > 0})

Init ==
  /\ inodes = [n \in Inodes |-> Made(n)]
  /\ disk = Written(<<>>, RootBlock * Cells, RootDirectory)
  /\ todo = <<>> /\ newino = NoInode /\ chunk = NoBlock
  /\ call = NoCall /\ result = "seen"
  /\ opens = [n \in Inodes |-> 0]
  /\ calls = 0 /\ removed = {} /\ spoiled = {}
  /\ seen = [p \in Paths |-> Absent]
  /\ listing = NoListing
  /\ filecount = Linked

-----------------------------------------------------------------------------
(* Reading. *)

\* readinode: the content of a file, as far as it has blocks.
Content(n) ==
  [i \in 1 .. inodes[n].size |->
     LET a == inodes[n].start * Cells + i - 1 IN IF a \in DOMAIN disk THEN disk[a] ELSE Unset]

IsDir(n) == "dir" \in inodes[n].flags

\* A directory whose header has not been written is none: formatid is not 1.
Formatted(n) == IsDir(n) /\ Content(n) # <<>> /\ Content(n)[1].kind = "header"

\* The entries a directory has, out of as many as its header counts.
EntriesOf(buf) == {i \in 1 .. Len(buf) - 1 : i <= buf[1].count /\ buf[i + 1].kind = "entry"}

\* Those with a name, from one entry on.
Matches(buf, first, name) == {i \in EntriesOf(buf) : i >= first /\ buf[i + 1].name = name}

First(S) == CHOOSE i \in S : \A j \in S : i <= j

FindInDir(n, name) ==
  IF n = NoInode \/ ~Formatted(n) THEN NoInode
  ELSE LET buf == Content(n)
           found == Matches(buf, 1, name)
       IN IF found = {} THEN NoInode ELSE buf[First(found) + 1].ino

\* getinode, getparentinode
GetInode(path) ==
  LET at[k \in 0 .. Len(path)] == IF k = 0 THEN Root ELSE FindInDir(at[k - 1], path[k])
  IN at[Len(path)]
GetParent(path) == GetInode(Front(path))

Tree ==
  [p \in Paths |->
     LET n == GetInode(p) IN
       IF n = NoInode THEN Absent
       ELSE IF IsDir(n) THEN [kind |-> "dir", data |-> <<>>]
       ELSE [kind |-> "file", data |-> Content(n)]]

-----------------------------------------------------------------------------
(* The steps of a call. *)

Done(r) == todo' = <<>> /\ result' = r
Continue(steps) ==
  /\ todo' = steps
  /\ result' = IF steps = <<>> THEN "ok" ELSE result
Rest == Tail(todo)
Now == Head(todo)

\* What follows from a disk that is spoiled is not followed.
At(op) == spoiled = {} /\ todo # <<>> /\ Now.op = op

\* What the entries of directories name.
NamedIn(d) == LET buf == Content(d) IN [i \in EntriesOf(buf) |-> buf[i + 1].ino]
Directories == {d \in Inodes : inodes[d].links > 0 /\ Formatted(d)}
Named == UNION {Range(NamedIn(d)) : d \in Directories}
NamedTwice(n) ==
  \E c, d \in Directories : \E i \in DOMAIN NamedIn(c), j \in DOMAIN NamedIn(d) :
    <<c, i>> # <<d, j>> /\ NamedIn(c)[i] = n /\ NamedIn(d)[j] = n

InUse(n) == opens[n] > 0 \/ n \in Named

\* The program is killed, or kills itself, and no file is open any more.  A directory
\* whose size is new and whose content is not has lost or gained an entry; mkdir has
\* made a directory before it has a header; link and rename have given an inode two
\* names before they take one away.
Torn ==
  \/ Now.op = "store" /\ IsDir(Now.ino)
  \/ call.op = "mkdir" /\ newino # NoInode /\ IsDir(newino)
  \/ call.op \in {"link", "rename"} /\ NamedTwice(newino)
Killed ==
  /\ Done("crash")
  /\ opens' = [n \in Inodes |-> 0]
  /\ spoiled' = IF Torn THEN spoiled \cup {"torn"} ELSE spoiled

\* alloc_inode: the first inode without links.  A full table is not followed.
AllocInode ==
  /\ At("alloc_inode")
  /\ LET unlinked == {n \in Inodes : inodes[n].links = 0} IN
       IF unlinked = {} THEN
         /\ spoiled' = spoiled \cup {"full"} /\ UNCHANGED <<inodes, newino>>
       ELSE
         /\ newino' = First(unlinked)
         /\ inodes' = [inodes EXCEPT ![First(unlinked)] = Inode({}, 1, 0, NoBlock, 0)]
         /\ spoiled' = IF InUse(First(unlinked)) THEN spoiled \cup {"reused"} ELSE spoiled
  /\ Continue(Rest)
  /\ UNCHANGED <<disk, chunk, call, opens, calls, seen, removed>>

\* A defect: a block that is begun is not counted.
BlocksForWhole(size) == size \div Cells

\* (size + 4095) >> 12
BlocksFor(size) == (size + Cells - 1) \div Cells

\* writeinode as steps: a chunk for a file that has none and needs one, the
\* inode's size and extent, the content.
WriteInode(n, buf) ==
  (IF Len(buf) > inodes[n].len * Cells /\ inodes[n].start = NoBlock
   THEN <<[op |-> "alloc_space", blocks |-> BlocksFor(Len(buf))]>> ELSE <<>>)
  \o <<[op |-> "resize", ino |-> n, size |-> Len(buf)], [op |-> "store", ino |-> n, buf |-> buf]>>

\* A defect: the free extent keeps its start.
AllocSpaceStays ==
  /\ At("alloc_space")
  /\ chunk' = inodes[Free].start
  /\ inodes' = [inodes EXCEPT ![Free].len = @ - Now.blocks]
  /\ Continue(Rest)
  /\ UNCHANGED <<disk, newino, call, opens, calls, seen, removed, spoiled>>

\* alloc_space.  The last block is never given away: set_file_extents aborts for a
\* list of no extents.  INVALID_BLOCK, the answer of a disk that is full, is taken
\* for a place and is not followed.
AllocSpace ==
  /\ At("alloc_space")
  /\ \/ /\ inodes[Free].len > Now.blocks
        /\ chunk' = inodes[Free].start
        /\ inodes' = [inodes EXCEPT ![Free].start = @ + Now.blocks, ![Free].len = @ - Now.blocks]
        /\ Continue(Rest)
        /\ UNCHANGED <<opens, spoiled>>
     \/ /\ inodes[Free].len = Now.blocks
        /\ Killed
        /\ UNCHANGED <<inodes, chunk>>
     \/ /\ inodes[Free].len < Now.blocks
        /\ chunk' = NoBlock
        /\ spoiled' = spoiled \cup {"full"}
        /\ Continue(Rest)
        /\ UNCHANGED <<inodes, opens>>
  /\ UNCHANGED <<disk, newino, call, calls, seen, removed>>

\* The extent a file gets with its new size.  A file that outgrows its extent asks
\* alloc_adjacent_space for blocks at its own start, where none is free; the answer
\* INVALID_BLOCK is not zero and passes for success.
Extent(i, size) ==
  CASE size = 0 /\ i.size > 0 -> [start |-> NoBlock, len |-> 0]
    [] size > i.len * Cells /\ i.start = NoBlock -> [start |-> chunk, len |-> BlocksFor(size)]
    [] size > i.len * Cells /\ i.start # NoBlock -> [start |-> i.start, len |-> BlocksFor(size)]
    [] OTHER -> [start |-> i.start, len |-> i.len]

Resize ==
  /\ At("resize")
  /\ LET i == inodes[Now.ino]
         e == Extent(i, Now.size)
     IN /\ inodes' = [inodes EXCEPT ![Now.ino].size = Now.size, ![Now.ino].start = e.start,
                                    ![Now.ino].len = e.len]
        /\ spoiled' = IF i.start # NoBlock /\ e.len > i.len THEN spoiled \cup {"outgrown"} ELSE spoiled
  /\ Continue(Rest)
  /\ UNCHANGED <<disk, newino, chunk, call, opens, calls, seen, removed>>

\* The content is written where the inode says.
Store ==
  /\ At("store")
  /\ disk' = Written(disk, inodes[Now.ino].start * Cells, Now.buf)
  /\ Continue(Rest)
  /\ UNCHANGED <<inodes, newino, chunk, call, opens, calls, seen, removed, spoiled>>

\* A defect: the header does not count the new entry.
WithEntryUncounted(buf, n, name) == Append(buf, Entry(n, name))

\* The directory with one entry more.
WithEntry(buf, n, name) ==
  Append([buf EXCEPT ![1].count = @ + 1], Entry(n, name))

\* add_to_dir compares the name with every entry but the first.  Where the header
\* counts too many, it compares it with what is behind the end of its buffer, too,
\* and that is not followed.
AddToDir ==
  /\ At("add_to_dir")
  /\ IF Formatted(Now.dir) /\ Matches(Content(Now.dir), 2, Now.name) = {}
     THEN Continue(WriteInode(Now.dir, WithEntry(Content(Now.dir), newino, Now.name)) \o Rest)
     ELSE IF Now.must THEN Done("fail") ELSE Continue(Rest)
  /\ spoiled' = IF Now.dir \in removed THEN spoiled \cup {"overread"} ELSE spoiled
  /\ UNCHANGED <<inodes, disk, newino, chunk, call, opens, calls, seen, removed>>

\* The directory without its i-th entry; the header still counts it.
WithoutEntry(buf, i) == SubSeq(buf, 1, i) \o SubSeq(buf, i + 2, Len(buf))

\* remove_from_dir steps over an entry before it compares: the first is never
\* found, and stays.
RemoveFromDir ==
  /\ At("remove_from_dir")
  /\ LET found == IF Formatted(Now.dir) THEN Matches(Content(Now.dir), 2, Now.name) ELSE {} IN
       IF found = {}
       THEN /\ Continue(Rest)
            /\ spoiled' = IF FindInDir(Now.dir, Now.name) = NoInode
                          THEN spoiled ELSE spoiled \cup {"kept"}
            /\ UNCHANGED removed
       ELSE /\ Continue(WriteInode(Now.dir, WithoutEntry(Content(Now.dir), First(found)))
                        \o <<[op |-> "unref", ino |-> Now.dir]>> \o Rest)
            /\ removed' = removed \cup {Now.dir}
            /\ UNCHANGED spoiled
  /\ UNCHANGED <<inodes, disk, newino, chunk, call, opens, calls, seen>>

\* The end of remove_from_dir takes a link from the directory.  free_inode leaves
\* the table as it is.
Unref ==
  /\ At("unref")
  /\ inodes' = [inodes EXCEPT ![Now.ino].links = (@ + LinkWrap - 1) % LinkWrap]
  /\ Continue(Rest)
  /\ UNCHANGED <<disk, newino, chunk, call, opens, calls, seen, removed, spoiled>>

\* The rest of mkdir: the flag, and a header.
MakeDirectory ==
  /\ At("make_directory")
  /\ inodes' = [inodes EXCEPT ![newino].flags = {"dir"}]
  /\ Continue(WriteInode(newino, <<Header(0)>>))
  /\ UNCHANGED <<disk, newino, chunk, call, opens, calls, seen, removed, spoiled>>

\* A defect: the open file is not counted.
MakeFileUncounted ==
  /\ At("make_file")
  /\ inodes' = [inodes EXCEPT ![newino].flags = {}]
  /\ opens' = [opens EXCEPT ![newino] = @ + 1]
  /\ Continue(Rest)
  /\ UNCHANGED <<disk, newino, chunk, call, calls, seen, removed, spoiled>>

\* The rest of create, which leaves the file open.
MakeFile ==
  /\ At("make_file")
  /\ inodes' = [inodes EXCEPT ![newino].flags = {}, ![newino].links = (@ + 1) % LinkWrap]
  /\ opens' = [opens EXCEPT ![newino] = @ + 1]
  /\ Continue(Rest)
  /\ UNCHANGED <<disk, newino, chunk, call, calls, seen, removed, spoiled>>

\* The unlink in rename, when link has removed the name: the lookup goes on behind
\* the end of its buffer, or the flags of INVALID_INODE are read from outside the
\* table, and either says anything.
UnlinkRenamed ==
  /\ At("unlink")
  /\ IF GetInode(Now.path) = NoInode
     THEN \/ Killed
          \/ \E r \in {"ok", "fail"} : Done(r) /\ UNCHANGED <<opens, spoiled>>
     ELSE /\ IF IsDir(GetInode(Now.path)) THEN Done("fail")
             ELSE Continue(<<[op |-> "remove_from_dir", dir |-> GetParent(Now.path),
                              name |-> Last(Now.path)]>>)
          /\ UNCHANGED <<opens, spoiled>>
  /\ UNCHANGED <<inodes, disk, newino, chunk, call, calls, seen, removed>>

Step ==
  \/ AllocInode \/ AllocSpace \/ Resize \/ Store \/ AddToDir \/ RemoveFromDir
  \/ Unref \/ MakeDirectory \/ MakeFile \/ UnlinkRenamed

Crash ==
  /\ todo # <<>> /\ spoiled = {}
  /\ Killed
  /\ UNCHANGED <<inodes, disk, newino, chunk, call, calls, seen, removed>>

-----------------------------------------------------------------------------
(* The calls.  The kernel asks for the attributes of a path first (starfs_getattr), and
   decides by what it sees there. *)

\* After a crash the program is started again, and counts the inodes anew.
Look ==
  /\ filecount' = IF result = "crash" THEN Linked ELSE filecount
  /\ todo = <<>> /\ spoiled = {} /\ result # "seen"
  /\ seen' = Tree
  /\ result' = "seen"
  /\ UNCHANGED <<inodes, disk, todo, newino, chunk, call, opens, calls, removed, spoiled>>

\* Once a directory counts an entry that was removed, no call is followed: its lookups
\* read behind the end of the buffer, where there may well be an older copy of the
\* directory.
Ready == result = "seen" /\ removed = {}

Exists(path) == seen[path] # Absent
AtDir(path) == path # <<>> => seen[path].kind = "dir"
AtFile(path) == seen[path].kind = "file"
ParentIsDir(path) == AtDir(Front(path))

\* A call with the steps it is made of.
Start(op, path, arg, ino, steps) ==
  /\ calls < MaxCalls
  /\ calls' = calls + 1
  /\ call' = [op |-> op, path |-> path, arg |-> arg]
  /\ newino' = ino
  /\ todo' = steps /\ result' = "running"
  /\ UNCHANGED <<inodes, disk, chunk, opens, seen, removed, spoiled>>

AddStep(path, must) ==
  [op |-> "add_to_dir", dir |-> GetParent(path), name |-> Last(path), must |-> must]
RemoveStep(path) == [op |-> "remove_from_dir", dir |-> GetParent(path), name |-> Last(path)]

Create(path) ==
  /\ Ready /\ ParentIsDir(path) /\ ~Exists(path)
  /\ Start("create", path, <<>>, NoInode,
           <<[op |-> "alloc_inode"], AddStep(path, TRUE), [op |-> "make_file"]>>)

Mkdir(path) ==
  /\ Ready /\ ParentIsDir(path) /\ ~Exists(path)
  /\ Start("mkdir", path, <<>>, NoInode,
           <<[op |-> "alloc_inode"], AddStep(path, TRUE), [op |-> "make_directory"]>>)

\* A file is at a path and open.
IsOpen(path) == AtFile(path) /\ opens[GetInode(path)] > 0

\* The buffer of starfs_write: what was there, what malloc left, what is written.
Overwritten(old, w, value) ==
  [i \in 1 .. IF Len(old) > w.offset + w.size THEN Len(old) ELSE w.offset + w.size |->
     IF i > w.offset /\ i <= w.offset + w.size THEN value
     ELSE IF i <= Len(old) THEN old[i] ELSE Unset]

Write(path, w) ==
  /\ Ready /\ IsOpen(path)
  /\ LET n == GetInode(path) IN
       Start("write", path, w, NoInode,
             WriteInode(n, Overwritten(Content(n), w, Data(calls + 1))))

\* truncate and ftruncate: they only shorten.
Truncate(path, size) ==
  /\ Ready /\ AtFile(path)
  /\ LET n == GetInode(path) IN
       /\ size < inodes[n].size
       /\ Start("truncate", path, size, NoInode,
                WriteInode(n, SubSeq(Content(n), 1, size)))

Unlink(path) ==
  /\ Ready /\ AtFile(path) /\ ~IsOpen(path)
  /\ Start("unlink", path, <<>>, NoInode, <<RemoveStep(path)>>)

\* rmdir succeeds for a directory that has the size of a header.
Rmdir(path) ==
  /\ Ready /\ seen[path].kind = "dir" /\ inodes[GetInode(path)].size = 1
  /\ Start("rmdir", path, <<>>, NoInode, <<RemoveStep(path)>>)

\* What starfs_link does, of which rename is the client: `to` is removed if it
\* exists, and `from` in any case.
LinkSteps(from, to) == <<RemoveStep(to), AddStep(to, FALSE), RemoveStep(from)>>

Link(from, to) ==
  /\ Ready /\ AtFile(from) /\ ParentIsDir(to) /\ ~Exists(to)
  /\ Start("link", from, to, GetInode(from), LinkSteps(from, to))

\* The kernel does not put a directory below itself or in the place of a file, or a
\* file in the place of a directory.
Rename(from, to) ==
  /\ Ready /\ Exists(from) /\ from # to /\ ParentIsDir(to) /\ ~IsPrefix(from, to) /\ ~IsPrefix(to, from)
  /\ Exists(to) => seen[from].kind = seen[to].kind /\ ~IsOpen(to)
  /\ Start("rename", from, to, GetInode(from),
           LinkSteps(from, to) \o <<[op |-> "unlink", path |-> from]>>)

Open(path) ==
  /\ Ready /\ AtFile(path) /\ calls < MaxCalls
  /\ opens[GetInode(path)] < MaxOpen
  /\ calls' = calls + 1 /\ call' = NoCall
  /\ opens' = [opens EXCEPT ![GetInode(path)] = @ + 1]
  /\ inodes' = [inodes EXCEPT ![GetInode(path)].links = (@ + 1) % LinkWrap]
  /\ UNCHANGED <<disk, todo, newino, chunk, result, seen, removed, spoiled>>

Release(n) ==
  /\ Ready /\ opens[n] > 0
  /\ call' = NoCall
  /\ opens' = [opens EXCEPT ![n] = @ - 1]
  /\ inodes' = [inodes EXCEPT ![n].links = (@ + LinkWrap - 1) % LinkWrap]
  /\ UNCHANGED <<disk, todo, newino, chunk, result, calls, seen, removed, spoiled>>

\* The calls that do nothing, and what they answer: access says yes to those who want to
\* execute, and no to the others.
Says ==
  LET AlwaysOk == {"chmod", "chown", "utimens", "flush", "fsync"}
      Refused  == {"readlink", "symlink", "mknod"}
  IN  [op \in AlwaysOk \cup Refused \cup {"access"} |->
         (IF op \in Refused THEN {} ELSE {"ok"}) \cup (IF op \in AlwaysOk THEN {} ELSE {"fail"})]

NoEffect(answer) ==
  /\ Ready /\ calls < MaxCalls
  /\ calls' = calls + 1 /\ call' = NoCall
  /\ result' = answer
  /\ UNCHANGED <<inodes, disk, todo, newino, chunk, opens, seen, removed, spoiled>>

Calls ==
  \/ \E op \in DOMAIN Says : \E answer \in Says[op] : NoEffect(answer)
  \/ \E p \in Paths : Create(p) \/ Mkdir(p) \/ Unlink(p) \/ Rmdir(p) \/ Open(p)
  \/ \E p \in Paths, w \in Writes : Write(p, w)
  \/ \E p \in Paths, n \in 0 .. 1 : Truncate(p, n)
  \/ \E p, q \in Paths : Link(p, q) \/ Rename(p, q)
  \/ \E n \in Inodes : Release(n)

-----------------------------------------------------------------------------
(* Listing a directory. *)

\* The entries that the directory has, in their order.
Listed(n) ==
  LET buf == Content(n) IN [i \in 1 .. Cardinality(EntriesOf(buf)) |-> buf[i + 1]]

\* starfs_opendir keeps the inode and the number of entries the header counts.
OpenDir(path) ==
  /\ todo = <<>> /\ result = "seen" /\ spoiled = {} /\ calls < MaxCalls
  /\ listing = NoListing
  /\ LET n == GetInode(path) IN
       /\ n # NoInode /\ Formatted(n)
       /\ listing' = [ino |-> n, left |-> Content(n)[1].count, was |-> Listed(n), read |-> <<>>]
  /\ calls' = calls + 1
  /\ UNCHANGED <<inodes, disk, todo, newino, chunk, call, result, opens, seen, removed, spoiled>>

\* The cell at a place of the inode's blocks, within the file's size or not.
CellOf(n, i) ==
  LET a == inodes[n].start * Cells + i IN IF a \in DOMAIN disk THEN disk[a] ELSE Unset

\* A defect: the header is taken for an entry.
ReadDirFromHeader ==
  /\ todo = <<>> /\ spoiled = {} /\ listing.left > 0
  /\ listing' = [listing EXCEPT !.left = 0,
                    !.read = [i \in 1 .. listing.left |-> CellOf(listing.ino, i - 1)]]
  /\ UNCHANGED <<inodes, disk, todo, newino, chunk, call, result, opens, calls, seen, removed, spoiled>>

\* starfs_readdir reads as many entries as were counted when the directory was opened,
\* from where they are now, and leaves none for the next time: the filler takes all.
ReadDir ==
  /\ todo = <<>> /\ spoiled = {} /\ listing.left > 0
  /\ listing' = [listing EXCEPT !.left = 0,
                    !.read = [i \in 1 .. listing.left |-> CellOf(listing.ino, i)]]
  /\ UNCHANGED <<inodes, disk, todo, newino, chunk, call, result, opens, calls, seen, removed, spoiled>>

\* starfs_releasedir, or the end of the program.
ReleaseDir ==
  /\ listing # NoListing
  /\ listing' = NoListing
  /\ UNCHANGED <<inodes, disk, todo, newino, chunk, call, result, opens, calls, seen, removed, spoiled>>

Next ==
  \/ Look /\ UNCHANGED listing
  \/ (Calls \/ Step) /\ UNCHANGED <<listing, filecount>>
  \/ Crash /\ listing' = NoListing /\ UNCHANGED filecount
  \/ ((\E p \in {<<>>} \cup Paths : OpenDir(p)) \/ ReadDir \/ ReleaseDir) /\ UNCHANGED filecount

Spec == Init /\ [][Next]_vars

-----------------------------------------------------------------------------
BlocksOf(n) ==
  IF inodes[n].start = NoBlock THEN {} ELSE inodes[n].start .. inodes[n].start + inodes[n].len - 1

\* No block belongs to two files, or to a file and the free extent, and none is
\* behind the end of the disk.
OwnBlocks ==
  \A m, n \in Inodes : m # n => BlocksOf(m) \cap BlocksOf(n) = {} /\ BlocksOf(m) \subseteq 0 .. Blocks - 1

\* That holds at any moment and after any kill, until a file outgrows the blocks it
\* was first given (main.c:94-124, 169-203).
OwnBlocksUntilOutgrown == "outgrown" \notin spoiled => OwnBlocks

\* An inode has a link for its name and one for each time it is open, so that
\* alloc_inode does not give it away, as long as nothing was removed from any
\* directory: there the link is taken from the wrong inode (main.c:132-144, 264,
\* 541, 554, 592).  A program that was killed leaves links too many, never too few.
LinksCover ==
  removed = {} =>
    /\ "reused" \notin spoiled
    /\ \A n \in Inodes :
         inodes[n].links >= (IF n \in Named THEN 1 ELSE 0) + opens[n]

EmptyDir(t, p) == t[p].kind = "dir" /\ \A q \in Paths : q # p /\ IsPrefix(p, q) => t[q] = Absent

\* A listing has every entry that was in its directory when that was opened and has not
\* been removed since, whatever was created in between and in whichever order calls
\* come; it has nothing else, unless something was removed from the directory, before
\* or since: the header still counts that, and the last entries are read twice
\* (main.c:229-270, 396-450).
ListsWhatWasThere ==
  listing.read # <<>> /\ spoiled = {} =>
    IF listing.ino \in removed
    THEN \A e \in Range(Listed(listing.ino)) : e \in Range(listing.was) => e \in Range(listing.read)
    ELSE listing.read = listing.was

\* starfs_statfs
Statfs ==
  [blocks |-> Blocks, free |-> inodes[Free].size \div Cells,
   files |-> filecount, freeFiles |-> inodes[2].size \div CellsPerInode - filecount]

\* statfs never reports less space than alloc_space has to give, but more once a block
\* is given: the size of $free stays what mkfs made it (main.c:94-102, 604).  The files it
\* counts are those that had links when the program was started; while the number of
\* those is the same, every file that has a name is counted (main.c:605, 772-774).
StatfsRight ==
  /\ Statfs.free >= inodes[Free].len /\ Statfs.free < Statfs.blocks
  /\ Statfs.files + Statfs.freeFiles = InodeCount
  /\ removed = {} /\ Linked = filecount => Cardinality(Named) <= Statfs.files

ReportsRight == ListsWhatWasThere /\ StatfsRight

\* What a call that returns success has done: the name it made is found and leads
\* to a new file or an empty directory, the one it removed is not found, what was
\* written is read back with what was there around it, and link and rename have
\* put the old file under the new name (main.c:462-648); chmod, chown and the others that
\* answer 0 have done nothing (main.c:650-720).
CallsDo ==
  [][result = "ok" /\ result' = "seen" =>
       LET p == call.path
           arg == call.arg
       IN
       CASE call.op = "create" -> seen'[p] = [kind |-> "file", data |-> <<>>]
         [] call.op = "mkdir" -> EmptyDir(seen', p)
         [] call.op = "unlink" -> seen'[p] = Absent
         [] call.op = "rmdir" -> seen'[p] = Absent /\ EmptyDir(seen, p)
         [] call.op = "truncate" -> seen'[p].data = SubSeq(seen[p].data, 1, arg)
         [] call.op = "write" ->
              \A i \in DOMAIN seen[p].data \cup 1 .. arg.offset + arg.size :
                IF i > arg.offset /\ i <= arg.offset + arg.size
                THEN seen'[p].data[i] = Data(calls)
                ELSE i \in DOMAIN seen[p].data => seen'[p].data[i] = seen[p].data[i]
         [] call.op \in {"link", "rename"} -> seen'[arg] = seen[p] /\ seen'[p] = Absent
         [] OTHER -> seen' = seen
      ]_vars

\* Files behave as a tree of names and contents, though they share a disk, an inode
\* table and a free extent, and whenever the program is killed: each call, as far
\* as it got, makes, edits, removes or moves what is at its path and nothing else
\* (main.c:94-319).
Files == INSTANCE FileTree WITH tree <- seen
ImplementsFileTree == Files!Init /\ [][Files!Next]_seen
=============================================================================
