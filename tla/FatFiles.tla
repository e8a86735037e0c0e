------------------------------- MODULE FatFiles -------------------------------
(***************************************************************************)
(* Reading files: the storage devices registered while the kernel starts   *)
(* (Storage.cpp, mbr.cpp), the FAT filesystem on the last of them (fat.cpp *)
(* under vfs.cpp), the paths a user types (path::canonical) and the shell  *)
(* commands that take them (ls, cd and cat of Shell.cpp), after the        *)
(* console has read its font (Font.cpp).                                   *)
(*                                                                         *)
(* A path is a sequence of tokens: "/", ".", ".." and names.  A directory  *)
(* is a sequence of slots: pieces of a long name, a short entry, or the    *)
(* end.  What only tells whether a boot sector is FAT, a partition table   *)
(* or neither is the kind of a storage.  Nothing writes to a disk.         *)
(*                                                                         *)
(* "lost" is the kernel reading or writing where nothing of its own is:    *)
(* what follows is not determined, and a behaviour ends there.             *)
(***************************************************************************)
EXTENDS Integers, Sequences, FiniteSets, SequencesExt

CONSTANTS
  Images,        \* the filesystems, by name
  Disks,         \* the sequences of storages a machine may be started with
  Args,          \* the paths that are typed
  Font,          \* the path of the console's font
  ClientPaths,   \* the paths another client of Vfs opens
  Pieces,        \* the number of slots each long name takes
  FullNames,     \* the names that fill their last slot: 13 characters, 26, ...
  ClusterSlots,  \* slots of a cluster: 16 times sect_per_clus
  ClusterBytes,  \* bytes of a cluster: 512 times sect_per_clus
  EntryValues,   \* values of a 16-bit entry of the file allocation table
  BufferPieces,  \* pieces a name buffer has room for: 20 in the code
  Deltas,        \* the distances a client seeks by
  MaxCalls       \* bound: calls a client makes of one open file

ASSUME FatAssumption ==
  /\ ClusterSlots \in Nat \ {0} /\ ClusterBytes \in Nat \ {0}
  /\ EntryValues \in Nat \ {0} /\ BufferPieces \in Nat
  /\ FullNames \subseteq DOMAIN Pieces
  /\ Deltas \subseteq Int /\ MaxCalls \in Nat

NoFs == "none"
NoBlock == -2
RootInode == -1                                   \* 0xFFFFFFFF
RootEntry == [inode |-> RootInode, size |-> 0]    \* its size is not set
NotFound == [inode |-> -3, size |-> 0]
NoFile == [first |-> -3]
Unknown == "?"                                    \* a name made of other memory
NoCommand == [op |-> "none", given |-> FALSE, arg |-> <<>>, old |-> <<>>]

VARIABLES
  probe,        \* the storages still to be registered
  fs,           \* Vfs::fs
  currentPath,  \* the shell's
  cmd,          \* what is being executed, with the shell's path before it
  pc,
  path,         \* the path on its way through canonical()
  todo,         \* the part of a path lookup has not dealt with
  dir,          \* the open FatDir: the cluster after the one in db, index, db
  pieces,       \* what readdir has put into utf16buf
  answer,       \* what lookup returned
  file,         \* the open FatFile
  want,         \* bytes the running read has still to copy
  got           \* history: the bytes it has copied

lookupVars == <<todo, dir, pieces, answer>>
fileVars == <<file, want, got>>
vars == <<probe, fs, currentPath, cmd, pc, path, lookupVars, fileVars>>

NoDir == [cluster |-> NoBlock, index |-> 0, db |-> NoBlock]

Init ==
  /\ probe \in Disks
  /\ fs = NoFs
  /\ currentPath = <<"/">> /\ cmd = NoCommand /\ pc = "probe"
  /\ path = <<>> /\ todo = <<>> /\ dir = NoDir /\ pieces = <<>> /\ answer = NotFound
  /\ file = NoFile /\ want = 0 /\ got = <<>>

-----------------------------------------------------------------------------
(* Registering storages, depth first: register_storage, MBRPartitioning.   *)

Found(kind) == pc = "probe" /\ probe # <<>> /\ Head(probe).kind = kind

\* The last filesystem registered is the root.
RegisterFat ==
  /\ Found("fat")
  /\ fs' = Head(probe).image /\ probe' = Tail(probe)
  /\ UNCHANGED <<currentPath, cmd, pc, path, lookupVars, fileVars>>

RegisterPartitions ==
  /\ Found("mbr")
  /\ probe' = Head(probe).parts \o Tail(probe)
  /\ UNCHANGED <<fs, currentPath, cmd, pc, path, lookupVars, fileVars>>

RegisterNone ==
  /\ Found("blank")
  /\ probe' = Tail(probe)
  /\ UNCHANGED <<fs, currentPath, cmd, pc, path, lookupVars, fileVars>>

-----------------------------------------------------------------------------
(* The filesystem. *)

Image == Images[fs]

\* FatFilesystem::FatFilesystem goes by the number of sectors alone.
Fat16 == Image.sectors = "few"
RootCluster == IF Fat16 THEN 1 ELSE Image.root

Entry(c) == IF c \in DOMAIN Image.fat THEN Image.fat[c] ELSE 0

\* A defect: every table is read as a FAT16's.
NextClusterWide(c) == Entry(2 * c) + EntryValues * Entry(2 * c + 1)

\* entriesPerSector is 256 or 128 and never 2: the entry is read as one of 32
\* bits, which are two entries of a FAT16.
NextCluster(c) == IF Fat16 THEN Entry(2 * c) + EntryValues * Entry(2 * c + 1) ELSE Entry(c)

\* readCluster, for a directory and for a file.
SlotsOf(c) == IF c \in DOMAIN Image.dirs THEN Image.dirs[c] ELSE <<>>
ByteAt(c, i) ==
  IF c \in DOMAIN Image.bytes /\ i \in 1 .. ClusterBytes THEN Image.bytes[c][i] ELSE <<0, 0>>

OpenDir(c) == [cluster |-> c, index |-> 0, db |-> NoBlock]
DirOf(entry) == OpenDir(IF entry.inode = RootInode THEN RootCluster ELSE entry.inode)

\* get_next_entry.
Loaded ==
  IF dir.db = NoBlock \/ dir.index = ClusterSlots
  THEN [cluster |-> NextCluster(dir.cluster), index |-> 0, db |-> dir.cluster]
  ELSE dir

InBlock == Loaded.index < Len(SlotsOf(Loaded.db))
Slot == SlotsOf(Loaded.db)[Loaded.index + 1]
Advance == dir' = [Loaded EXCEPT !.index = @ + 1]

\* The name readdir makes of the pieces it has met: it ends where one of them
\* holds a zero.  Past the buffer there may be one, or not.
NamesOf(ps) ==
  IF ps = <<>> THEN {Unknown}
  ELSE LET n == ps[1].of IN
       IF ~ (/\ Len(ps) >= Pieces[n]
             /\ \A i \in 1 .. Pieces[n] : ps[i].of = n /\ ps[i].at = i) THEN {Unknown}
       ELSE IF n \notin FullNames THEN {n}
       ELSE IF Len(ps) = Pieces[n] THEN {n, Unknown} ELSE {Unknown}

-----------------------------------------------------------------------------
(* Vfs::lookup, and the loop of ls over a directory. *)

Lose == pc' = "lost" /\ UNCHANGED <<probe, fs, currentPath, cmd, path, lookupVars, fileVars>>

Answer(entry) == answer' = entry /\ pc' = "answered"

\* The command is done, and what it kept is gone.
Return ==
  /\ pc' = "prompt" /\ cmd' = NoCommand
  /\ todo' = <<>> /\ dir' = NoDir /\ pieces' = <<>> /\ answer' = NotFound
  /\ file' = NoFile /\ want' = 0 /\ got' = <<>>

\* The kernel does not ask whether a filesystem was registered.
StartLookup(p) ==
  /\ pieces' = <<>> /\ UNCHANGED <<probe, fs>>
  /\ IF fs = NoFs
     THEN pc' = "lost" /\ UNCHANGED <<todo, dir, answer>>
     ELSE /\ dir' = OpenDir(RootCluster)
          /\ todo' = Tail(p)
          /\ IF Len(p) = 1 THEN Answer(RootEntry) ELSE pc' = "lookup" /\ UNCHANGED answer

\* string::find, whose strstr does not see a match at the very end.
Matches(str, pat) ==
  {i \in 1 .. Len(str) - Len(pat) : SubSeq(str, i, i + Len(pat) - 1) = pat}

Slashes == Matches(todo, <<"/">>)
Component == IF Slashes = {} THEN todo ELSE SubSeq(todo, 1, Min(Slashes) - 1)

Scanning == pc \in {"lookup", "list"}

\* The end of the cluster was no end of the directory, or the cluster is none of
\* a directory.
LeaveDirectory == Scanning /\ ~InBlock /\ Lose

ReadPiece ==
  /\ Scanning /\ InBlock /\ Slot.kind = "long"
  /\ IF Len(pieces) = BufferPieces
     THEN Lose
     ELSE /\ pieces' = <<Slot>> \o pieces
          /\ Advance
          /\ UNCHANGED <<probe, fs, currentPath, cmd, pc, path, todo, answer, fileVars>>

\* readdir returns NULL.
ReadEnd ==
  /\ Scanning /\ InBlock /\ Slot.kind = "end"
  /\ IF pc = "lookup"
     THEN Answer(NotFound) /\ pieces' = <<>> /\ Advance /\ UNCHANGED <<cmd, todo, fileVars>>
     ELSE Return
  /\ UNCHANGED <<probe, fs, currentPath, path>>

ReadEntry ==
  /\ Scanning /\ InBlock /\ Slot.kind = "short"
  /\ pieces' = <<>>
  /\ \E name \in NamesOf(pieces) :
       \/ /\ pc = "lookup" /\ Component = <<name>> /\ Slashes = {}
          /\ Answer([inode |-> Slot.inode, size |-> Slot.size])
          /\ Advance /\ UNCHANGED todo
       \/ /\ pc = "lookup" /\ Component = <<name>> /\ Slashes # {}
          /\ dir' = DirOf(Slot)
          /\ todo' = SubSeq(todo, Min(Slashes) + 1, Len(todo))
          /\ UNCHANGED <<pc, answer>>
       \/ /\ pc = "list" \/ Component # <<name>>
          /\ Advance /\ UNCHANGED <<pc, todo, answer>>
  /\ UNCHANGED <<probe, fs, currentPath, cmd, path, fileVars>>

-----------------------------------------------------------------------------
(* path::canonical: three loops, one after the other. *)

Squeeze(loop, pat, then) ==
  /\ pc = loop
  /\ LET at == Matches(path, pat) IN
       IF at = {}
       THEN pc' = then /\ UNCHANGED path
       ELSE /\ path' = SubSeq(path, 1, Min(at)) \o SubSeq(path, Min(at) + Len(pat), Len(path))
            /\ UNCHANGED pc
  /\ UNCHANGED <<probe, fs, currentPath, cmd, lookupVars, fileVars>>

SqueezeDot == Squeeze("dots", <<"/", ".", "/">>, "slashes")
SqueezeSlash == Squeeze("slashes", <<"/", "/">>, "parents")

\* A ".." takes the component before it along; there is none at the start, and
\* the search goes on below the string.
Parents == Matches(path, <<"/", "..", "/">>)

SqueezeParent ==
  /\ pc = "parents" /\ Parents # {}
  /\ IF Min(Parents) = 1
     THEN Lose
     ELSE LET start == Max({k \in 1 .. Min(Parents) - 1 : path[k] = "/"} \cup {1}) IN
          /\ path' = SubSeq(path, 1, start - 1) \o <<"/">>
                       \o SubSeq(path, Min(Parents) + 3, Len(path))
          /\ UNCHANGED <<probe, fs, currentPath, cmd, pc, lookupVars, fileVars>>

\* The path is canonical; cd takes it for the current one before it is looked up.
LookupTyped ==
  /\ pc = "parents" /\ Parents = {}
  /\ StartLookup(Front(path))
  /\ currentPath' = IF cmd.op = "cd" THEN Front(path) ELSE currentPath
  /\ path' = <<>>
  /\ UNCHANGED <<cmd, fileVars>>

-----------------------------------------------------------------------------
(* The console and the shell. *)

Command(op, given, arg) == cmd' = [op |-> op, given |-> given, arg |-> arg, old |-> currentPath]

\* Shell::Shell: the console constructs its font, whose path is taken as it is.
StartConsole ==
  /\ pc = "probe" /\ probe = <<>>
  /\ Command("font", TRUE, Font)
  /\ StartLookup(Font)
  /\ UNCHANGED <<currentPath, path, fileVars>>

\* Any other part of the kernel that reads a file.
StartClient ==
  /\ pc = "prompt"
  /\ \E p \in ClientPaths : Command("client", TRUE, p) /\ StartLookup(p)
  /\ UNCHANGED <<currentPath, path, fileVars>>

TypePath ==
  /\ pc = "prompt"
  /\ \E op \in {"ls", "cd", "cat"}, arg \in Args :
       /\ Command(op, TRUE, arg)
       /\ path' = (IF arg # <<>> /\ Head(arg) = "/" THEN arg ELSE currentPath \o <<"/">> \o arg)
                    \o <<"/">>
  /\ pc' = "dots"
  /\ UNCHANGED <<probe, fs, currentPath, lookupVars, fileVars>>

TypeLs ==
  /\ pc = "prompt"
  /\ Command("ls", FALSE, <<>>)
  /\ StartLookup(currentPath)
  /\ UNCHANGED <<currentPath, path, fileVars>>

\* executeCat reads args[1] whether there is one or not; executeCd says that
\* there is no home directory, and nothing changes.
TypeCat ==
  /\ pc = "prompt"
  /\ Command("cat", FALSE, <<>>)
  /\ pc' = "lost"
  /\ UNCHANGED <<probe, fs, currentPath, path, lookupVars, fileVars>>

\* What is made of the answer.  Nobody asks whether it is a directory or a file.
Open ==
  IF answer.inode = RootInode   \* the size of that entry was never set
  THEN pc' = "lost" /\ UNCHANGED <<cmd, lookupVars, fileVars>>
  ELSE /\ file' = [first |-> answer.inode, cur |-> answer.inode, left |-> ClusterBytes,
                   size |-> answer.size, position |-> 0, delta |-> 0,
                   meant |-> 0, plain |-> TRUE, calls |-> 0]
       /\ got' = <<>>
       /\ IF cmd.op = "client" THEN pc' = "client" /\ want' = 0
                               ELSE pc' = "read" /\ want' = answer.size
       /\ UNCHANGED <<cmd, lookupVars>>

\* A defect: cd stays where it went.
NotRestored == currentPath
Restored == IF answer = NotFound /\ cmd.op = "cd" THEN cmd.old ELSE currentPath

UseAnswer ==
  /\ pc = "answered"
  /\ CASE answer = NotFound /\ cmd.op = "font" ->
            pc' = "lost" /\ UNCHANGED <<cmd, lookupVars, fileVars>>
       [] answer = NotFound /\ cmd.op # "font" -> Return
       [] answer # NotFound /\ cmd.op = "cd" -> Return
       [] answer # NotFound /\ cmd.op = "ls" ->
            dir' = DirOf(answer) /\ pc' = "list" /\ UNCHANGED <<cmd, todo, pieces, answer, fileVars>>
       [] answer # NotFound /\ cmd.op \in {"font", "cat", "client"} -> Open
  /\ currentPath' = Restored
  /\ UNCHANGED <<probe, fs, path>>

-----------------------------------------------------------------------------
(* FatFile. *)

\* A defect: the cluster stays the same.
CopiedInOne(n) == [file EXCEPT !.left = IF n = @ THEN ClusterBytes ELSE @ - n]
Copied(n) ==
  IF n = file.left THEN [file EXCEPT !.cur = NextCluster(@), !.left = ClusterBytes]
                   ELSE [file EXCEPT !.left = @ - n]

\* One turn of the loop of read.
ReadChunk ==
  /\ pc = "read" /\ want > 0
  /\ LET n == Min({want, file.left}) IN
       /\ got' = got \o [k \in 1 .. n |-> ByteAt(file.cur, ClusterBytes - file.left + k)]
       /\ want' = want - n
       /\ file' = Copied(n)
  /\ UNCHANGED <<probe, fs, currentPath, cmd, pc, path, lookupVars>>

\* read leaves `position` alone.
ReadDone ==
  /\ pc = "read" /\ want = 0
  /\ IF cmd.op = "client"
     THEN /\ pc' = "client" /\ got' = <<>>
          /\ file' = [file EXCEPT !.meant = @ + Len(got)]
          /\ UNCHANGED <<cmd, lookupVars, want>>
     ELSE Return
  /\ UNCHANGED <<probe, fs, currentPath, path>>

ClientCalls == pc = "client" /\ file.calls < MaxCalls

ClientReads ==
  /\ ClientCalls
  /\ \E n \in 1 .. file.size :
       /\ want' = n
       /\ file' = [file EXCEPT !.calls = @ + 1, !.plain = @ /\ file.meant + n <= file.size]
  /\ pc' = "read"
  /\ UNCHANGED <<probe, fs, currentPath, cmd, path, lookupVars, got>>

\* The position is limited to the file, the way through its clusters is not.
Clip(n) == Max({0, Min({n, file.size})})
Target(d, from, position) ==
  CASE from = "start" -> d [] from = "current" -> position + d [] from = "end" -> file.size - d

Seek ==
  /\ ClientCalls
  /\ \E d \in Deltas, from \in {"start", "current", "end"} :
       file' = [file EXCEPT !.position = Clip(Target(d, from, @)), !.cur = file.first,
                            !.delta = d, !.meant = Clip(Target(d, from, @)),
                            !.plain = from = "start" /\ d \in 0 .. file.size,
                            !.calls = @ + 1]
  /\ pc' = "seek"
  /\ UNCHANGED <<probe, fs, currentPath, cmd, path, lookupVars, want, got>>

\* A defect: the way that is left to go does not get shorter.
SeekClusterStuck ==
  /\ pc = "seek" /\ file.delta > ClusterBytes
  /\ file' = [file EXCEPT !.cur = NextCluster(@)]
  /\ UNCHANGED <<probe, fs, currentPath, cmd, pc, path, lookupVars, want, got>>

SeekCluster ==
  /\ pc = "seek" /\ file.delta > ClusterBytes
  /\ file' = [file EXCEPT !.cur = NextCluster(@), !.delta = @ - ClusterBytes]
  /\ UNCHANGED <<probe, fs, currentPath, cmd, pc, path, lookupVars, want, got>>

SeekDone ==
  /\ pc = "seek" /\ file.delta <= ClusterBytes
  /\ file' = [file EXCEPT !.left = ClusterBytes - file.delta]
  /\ pc' = "client"
  /\ UNCHANGED <<probe, fs, currentPath, cmd, path, lookupVars, want, got>>

Close ==
  /\ pc = "client"
  /\ Return
  /\ UNCHANGED <<probe, fs, currentPath, path>>

-----------------------------------------------------------------------------
\* What the kernel does by itself.
Work ==
  \/ RegisterFat \/ RegisterPartitions \/ RegisterNone \/ StartConsole
  \/ LeaveDirectory \/ ReadPiece \/ ReadEnd \/ ReadEntry
  \/ SqueezeDot \/ SqueezeSlash \/ SqueezeParent \/ LookupTyped
  \/ UseAnswer \/ ReadChunk \/ ReadDone \/ SeekCluster \/ SeekDone

Choice ==
  TypePath \/ TypeLs \/ TypeCat \/ StartClient \/ ClientReads \/ Seek \/ Close

Next == Work \/ Choice

Spec == Init /\ [][Next]_vars /\ WF_vars(Work)

-----------------------------------------------------------------------------
(* Properties.  Image.tree is what an image was made from: the entries of   *)
(* the directories, each with the inode of the directory it is in, the     *)
(* deleted ones among them.                                                *)

\* The path of the command, before it is made canonical.
Typed ==
  IF cmd.op \in {"font", "client"} \/ (cmd.arg # <<>> /\ Head(cmd.arg) = "/") THEN cmd.arg
  ELSE IF cmd.given THEN cmd.old \o <<"/">> \o cmd.arg ELSE cmd.old

\* The names on the way from the root, and whether a ".." leads above it.
Resolved(p) ==
  FoldLeft(LAMBDA r, t :
             CASE t \in {"/", "."} -> r
               [] t = ".." -> IF r.names = <<>> THEN [r EXCEPT !.climbs = TRUE]
                                               ELSE [r EXCEPT !.names = Front(@)]
               [] OTHER -> [r EXCEPT !.names = Append(@, t)],
           [names |-> <<>>, climbs |-> FALSE], p)

\* What these names may mean: deleted entries are not left out by the code.
Meant(names) ==
  FoldLeft(LAMBDA S, n : {e \in Image.tree : e.name = n /\ e.in \in {d.inode : d \in S}},
           {[inode |-> RootInode, dir |-> TRUE, deleted |-> FALSE, legible |-> TRUE]}, names)

\* The end of the directory is in the first cluster, or in one of its chain if
\* that can be followed.
HasEnd(c) == \E i \in DOMAIN SlotsOf(c) : i <= ClusterSlots /\ SlotsOf(c)[i].kind = "end"
Ends(c) ==
  LET chain[i \in 0 .. EntryValues] == IF i = 0 THEN c ELSE Entry(chain[i - 1])
  IN  IF Fat16 THEN HasEnd(c) ELSE \E i \in 0 .. EntryValues : HasEnd(chain[i])
Ended ==
  Ends(RootCluster) /\ \A e \in Image.tree : e.dir => Ends(e.inode)

\* lookup finds what the path names and nothing else, wherever the entry is in a
\* directory and however its name is laid out.  It finds all there is if the last
\* of the path is a name, for string::find misses a "/." or "/.." that ends it,
\* and if every name on the way has a long form that ends in its last slot
\* (vfs.cpp:18-50, fat.cpp:135-176, libc/path:36-64).
LookupRight ==
  pc = "answered" /\ (Fat16 => Ended) =>
    LET names == Resolved(Typed).names IN
    IF answer # NotFound
    THEN \E e \in Meant(names) : e.inode = answer.inode
    ELSE \/ Typed = <<>> \/ Typed[Len(Typed)] \in {"/", ".", ".."}
         \/ Meant(names) = {}
         \/ \E k \in DOMAIN names : \E e \in Meant(SubSeq(names, 1, k)) : ~e.legible

\* Only these lose the kernel: no filesystem, one whose kind is not what its size
\* says, a directory that fills its clusters or, on a FAT16, more than one, or that
\* holds more pieces in a row than the buffer; no font; cat of nothing or of the
\* root; a ".." above the root, and a file taken for a directory.
LostOnlyIf ==
  pc = "lost" =>
    \/ fs = NoFs
    \/ Fat16 # (Image.kind = "FAT16") \/ ~Ended \/ Image.piecesInARow > BufferPieces
    \/ cmd.op = "font" /\ Meant(Resolved(Font).names) = {}
    \/ cmd.op = "cat" /\ (~cmd.given \/ Resolved(Typed).names = <<>>)
    \/ \E k \in DOMAIN Typed :
         LET r == Resolved(SubSeq(Typed, 1, k)) IN
         \/ r.climbs
         \/ (k < Len(Typed) \/ cmd.op = "ls") /\ \E e \in Meant(r.names) : ~e.dir

\* read delivers the file's bytes from where its user is, after any seek from the
\* start that stays in the file, to the end of a cluster or across it
\* (fat.cpp:195-240).  That goes for a FAT32, and for the first cluster of a FAT16.
ReadsRight ==
  pc = "read" /\ file.plain /\ (Fat16 => file.size <= ClusterBytes) =>
    got = [k \in 1 .. Len(got) |-> <<file.first, file.meant + k>>]

\* What the commands find and read is what the image holds.
FilesRight == LookupRight /\ ReadsRight

\* At the prompt the shell is somewhere that exists, although cd goes there before
\* it looks (Shell.cpp:129-143).
PromptPathExists ==
  pc = "prompt" /\ (Fat16 => Ended) =>
    /\ \A i \in DOMAIN currentPath : currentPath[i] \notin {".", ".."}
    /\ Meant(Resolved(currentPath).names) # {}

\* Every command comes back to the prompt or is the kernel's last: no path, chain or
\* directory keeps it.  There is one thread, and it goes on (main.cpp:10-19).
CommandReturns == pc \notin {"prompt", "lost", "client"} ~> pc \in {"prompt", "lost", "client"}
=============================================================================
