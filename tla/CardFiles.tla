------------------------------ MODULE CardFiles ------------------------------
(***************************************************************************)
(* Files on an SD card whose reads may fail: the constructor and readBlock *)
(* of RaspberryPi::SdCard (rpi/mmc.cpp:1519-1528) between the driver of    *)
(* module SdCard and what asks for blocks - register_storage (Storage.cpp),*)
(* which mounts what it finds (fat.cpp, mbr.cpp), and then calls of cat.   *)
(*                                                                         *)
(* readBlock does not look at what sd_read returns.  After a read that     *)
(* failed its caller works on whatever the heap had in that block: a block *)
(* that was read before, or anything else.                                 *)
(*                                                                         *)
(* A block or cluster is named for what it holds.  The file cat is called  *)
(* for has two clusters and its entry is in the first cluster of the root  *)
(* directory; module FatFiles has directories and files of other shapes.   *)
(***************************************************************************)
EXTENDS SdCard, Sequences

CONSTANTS
  Media,    \* what may be on the card: "whole", "partitioned" or "blank"
  MaxCats   \* bound: calls of cat

ASSUME CardFilesAssumption == Media \subseteq {"whole", "partitioned", "blank"} /\ MaxCats \in Nat

VARIABLES
  medium,
  job,        \* what is to be read: [use, at], `at` a block's number
  asked,      \* whether readBlock was called for the first of them
  fs,         \* where the file system that is mounted begins
  answer,     \* what the last call of cat has read
  cats,
  unregistered, \* history: a read failed while storages were registered
  unread,       \* history: a read of the last call of cat failed
  wrong         \* history: calls of cat that did not deliver the file

fileVars == <<job, asked, fs, answer, cats, unregistered, unread, wrong>>
cardFilesVars == <<vars, medium, fileVars>>

PartitionStart == 8
Elsewhere == 90     \* a place that belongs to no file system
NoFs == 99

Layout == <<"boot", "fat", "root", "first", "second">>
Start == [whole |-> 0, partitioned |-> PartitionStart, blank |-> NoFs]
Content(block) ==
  IF block - Start[medium] + 1 \in DOMAIN Layout THEN Layout[block - Start[medium] + 1]
  ELSE IF block = 0 /\ medium = "partitioned" THEN "table" ELSE "other"
Contents == {Layout[i] : i \in DOMAIN Layout} \cup {"table", "other"}

To(use, at) == [use |-> use, at |-> at]

CardFilesInit ==
  /\ Init
  /\ medium \in Media
  /\ job = <<To("isFat", 0)>> /\ asked = FALSE
  /\ fs = NoFs /\ answer = <<>> /\ cats = 0
  /\ unregistered = FALSE /\ unread = FALSE /\ wrong = 0

-----------------------------------------------------------------------------
(* What is made of a block; the rest of the job is what follows it. *)

\* A defect: the file system is taken to be at the start of the card.
FatFilesystemAtStart(c, at) == IF c = "boot" THEN 0 ELSE Elsewhere

\* The constructor of FatFilesystem takes any block for a boot sector.
FatFilesystem(c, at) == IF c = "boot" THEN at ELSE Elsewhere

\* The partitions registered for a block that is taken for a partition table.
Partitions(c) ==
  IF c = "table" THEN {<<To("isFat", PartitionStart)>>} ELSE {<<>>, <<To("isFat", Elsewhere)>>}

\* register_storage.  A boot sector ends in 55 AA, and so passes for a partition table
\* when it was not seen to be one of FAT.
Register(use, c, at, rest) ==
  CASE use = "isFat" -> job' = <<To(IF c = "boot" THEN "mount" ELSE "isMbr", at)>> \o rest /\ UNCHANGED fs
    [] use = "isMbr" -> job' = (IF c \in {"boot", "table"} THEN <<To("partitions", at)>> ELSE <<>>) \o rest /\ UNCHANGED fs
    [] use = "partitions" -> (\E p \in Partitions(c) : job' = p \o rest) /\ UNCHANGED fs
    [] use = "mount" -> job' = rest /\ fs' = FatFilesystem(c, at)

\* lookup and the read of the file.  The cluster after the root directory's first is
\* looked up before anything is done with the first, and is not needed here.
Cat(use, c, rest) ==
  /\ job' = CASE use = "chain" /\ answer # <<"root">> -> <<>>
              [] use = "next" /\ c # "fat" -> <<To("data", Elsewhere)>>
              [] OTHER -> rest
  /\ answer' = CASE use \in {"directory", "data"} -> Append(answer, c)
                 [] use = "chain" /\ answer # <<"root">> -> <<"nothing">>
                 [] OTHER -> answer

CatJob == <<To("directory", fs + 2), To("chain", fs + 1), To("data", fs + 3), To("next", fs + 1), To("data", fs + 4)>>
TheFile == <<"root", "first", "second">>

Registering == cats = 0

-----------------------------------------------------------------------------
\* A cluster is two blocks.
ReadBlock ==
  /\ job # <<>> /\ ~asked
  /\ Read(IF Head(job).use \in {"directory", "data"} THEN 2 ELSE 1)
  /\ asked' = TRUE
  /\ UNCHANGED <<medium, job, fs, answer, cats, unregistered, unread, wrong>>

\* readBlock returns a block: of the card, or of the heap.
Returned(c) ==
  LET use == Head(job).use  failed == failures' # failures IN
    /\ asked' = FALSE
    /\ IF Registering
       THEN Register(use, c, Head(job).at, Tail(job)) /\ UNCHANGED <<answer, wrong>>
       ELSE /\ Cat(use, c, Tail(job)) /\ UNCHANGED fs
            /\ wrong' = IF job' = <<>> /\ answer' # TheFile THEN wrong + 1 ELSE wrong
    /\ unregistered' = (unregistered \/ (Registering /\ failed))
    /\ unread' = (unread \/ failed)
    /\ UNCHANGED cats

Driver ==
  /\ CardInit \/ DataStep
  /\ IF asked /\ pc' = "idle"
     THEN \E c \in IF failures' = failures THEN {Content(Head(job).at)} ELSE Contents : Returned(c)
     ELSE UNCHANGED fileVars
  /\ UNCHANGED medium

TakeOut == Remove /\ UNCHANGED <<medium, fileVars>>

\* Without a file system there is nothing to look in (FatFiles has what happens then).
CallCat ==
  /\ pc = "idle" /\ job = <<>> /\ fs # NoFs /\ cats < MaxCats
  /\ cats' = cats + 1
  /\ job' = CatJob /\ answer' = <<>> /\ unread' = FALSE
  /\ UNCHANGED <<vars, medium, asked, fs, unregistered, wrong>>

CardFilesNext == ReadBlock \/ Driver \/ TakeOut \/ CallCat
CardFilesSpec == CardFilesInit /\ [][CardFilesNext]_cardFilesVars /\ WF_cardFilesVars(Driver)

-----------------------------------------------------------------------------
\* What is mounted is what is on the card unless a read failed while storages were
\* registered: a first initialisation that failed, which the constructor ignores
\* (mmc.cpp:1519-1522), costs nothing.
MountedRight ==
  pc = "idle" /\ job = <<>> /\ ~unregistered => fs = Start[medium]

\* Though nobody is told that a read failed (mmc.cpp:1524-1528), a card that was mounted
\* right delivers the file in every call of cat whose own reads succeed, and a fault
\* spoils one call at most while the card is in: none is left for the next by a stale
\* block, a chain that was left, or the state of the card.
FaultSpoilsOneCall ==
  fs = Start[medium] =>
    /\ cats > 0 /\ job = <<>> /\ ~unread => answer = TheFile
    /\ ~removed => wrong <= faults

\* What a fault costs: nothing of what is mounted if it was none of register_storage's
\* reads, one failed read, and one call of cat.
FaultsContained == MountedRight /\ OneFaultOneFailure /\ FaultSpoilsOneCall
=============================================================================
