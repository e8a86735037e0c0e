-------------------------------- MODULE Heap --------------------------------
(***************************************************************************)
(* The kernel heap of kernel/src/common/mem.cpp: malloc, free and realloc  *)
(* over one static reserve, run by one thread of control.                  *)
(*                                                                         *)
(* The reserve is tiled by blocks.  Each block starts with a malloc_entry  *)
(* header; the headers form a circular doubly linked list in address       *)
(* order.  malloc is a next-fit search from last_used that splits the      *)
(* block it takes, free merges the block with a free neighbour on either   *)
(* side.  Addresses and lengths are the byte values of the code, so that   *)
(* the rounding to 16 and the header size are what they are in the source. *)
(*                                                                         *)
(* Each function is cut into the steps another context (an interrupt       *)
(* handler) could observe; HeapInterrupt composes two contexts from them.  *)
(***************************************************************************)
EXTENDS Integers

CONSTANTS
  EntrySize,      \* sizeof(malloc_entry): 32 on x86-64 and AArch64, 16 on i386
  ReserveLength,  \* sizeof(malloc_reserve.reserve), 32 MiB in the code
  Requests        \* the sizes clients ask for

(***************************************************************************)
(* The reserve's size is a multiple of 16 in every build, so is the        *)
(* header's.                                                               *)
(***************************************************************************)
ASSUME HeapAssumption ==
  /\ EntrySize \in Nat \ {0} /\ EntrySize % 16 = 0
  /\ ReserveLength \in Nat /\ ReserveLength % 16 = 0
  /\ Requests \subseteq Nat

NULL == 0
Base == 16                                   \* &malloc_reserve.ent, not NULL
End  == Base + EntrySize + ReserveLength     \* one past malloc_reserve

\* Where a header can be: any 16-byte aligned address that leaves room for it.
HeaderAddr == {a \in Base .. Base + ReserveLength : a % 16 = 0}

NotHeld == -1

VARIABLES
  next, prev, length, free,  \* the header words stored at each HeaderAddr
  lastUsed,                  \* last_used
  entries,                   \* history: the addresses that are headers of the list
  held,                      \* history: the size a client asked for the block it holds
  pc, cur, size, old         \* the control state and locals of the running call

mem  == <<next, prev, length, free, lastUsed>>
ctl  == <<pc, cur, size, old>>
vars == <<next, prev, length, free, lastUsed, entries, held, pc, cur, size, old>>

-----------------------------------------------------------------------------
(* The arithmetic of the code.                                             *)

\* (size + 15) & ~15.  The code's mask also drops bits 32 and up; a request
\* that has any never gets past "cur->length < size".
RoundUp(n) == ((n + 15) \div 16) * 16

\* One past the payload of the block at a.
After(a) == a + EntrySize + length[a]

\* A defect: the header is left out of the distance.
AdjacentNoHeader(a, b) == a + length[a] = b

Adjacent(a, b) == After(a) = b

\* A defect: a block in use is taken.
FitsInUse(a, n) == length[a] >= n

Fits(a, n) == free[a] = 1 /\ length[a] >= n

SplitWorthwhile(a, n) == length[a] >= n + EntrySize

\* A header of the list whose block is handed out.
Held == {a \in HeaderAddr : held[a] # NotHeld}

-----------------------------------------------------------------------------
Init ==
  /\ next   = [a \in HeaderAddr |-> NULL]
  /\ prev   = [a \in HeaderAddr |-> NULL]
  /\ length = [a \in HeaderAddr |-> 0]
  /\ free   = [a \in HeaderAddr |-> 0]
  /\ lastUsed = Base
  /\ entries = {}
  /\ held = [a \in HeaderAddr |-> NotHeld]
  /\ pc = "idle" /\ cur = NULL /\ size = 0 /\ old = NULL

(***************************************************************************)
(* malloc(n), and realloc's call of it: cur = last_used, and on the very   *)
(* first call the list is made of the whole reserve.                       *)
(***************************************************************************)
EnterMalloc(n, p) ==
  /\ IF prev[lastUsed] = NULL
       THEN /\ prev'   = [prev   EXCEPT ![lastUsed] = lastUsed]
            /\ next'   = [next   EXCEPT ![lastUsed] = lastUsed]
            /\ length' = [length EXCEPT ![lastUsed] = ReserveLength]
            /\ free'   = [free   EXCEPT ![lastUsed] = 1]
            /\ entries' = {lastUsed}
       ELSE UNCHANGED <<prev, next, length, free, entries>>
  /\ cur' = lastUsed /\ size' = n /\ old' = p
  /\ pc' = "search"
  /\ UNCHANGED lastUsed

Malloc(n) ==
  /\ pc = "idle"
  /\ EnterMalloc(n, NULL)
  /\ UNCHANGED held

\* A defect: the search does not wrap around.
SearchNextNoWrap ==
  /\ pc = "search"
  /\ ~Fits(cur, size)
  /\ cur' = IF next[cur] = Base THEN cur ELSE next[cur]
  /\ UNCHANGED <<mem, entries, held, pc, size, old>>

\* while (!cur->free || cur->length < size) cur = cur->next;
SearchNext ==
  /\ pc = "search"
  /\ ~Fits(cur, size)
  /\ cur' = next[cur]
  /\ UNCHANGED <<mem, entries, held, pc, size, old>>

SearchDone ==
  /\ pc = "search"
  /\ Fits(cur, size)
  /\ pc' = "take"
  /\ UNCHANGED <<mem, entries, held, cur, size, old>>

\* The call is over and its locals are gone.
Return == pc' = "idle" /\ cur' = NULL /\ size' = 0 /\ old' = NULL

(***************************************************************************)
(* The rest of malloc: mark the block used and give the tail it does not   *)
(* need a header of its own.  last_used moves only when a tail is made.    *)
(***************************************************************************)

Split(a, n) ==
  LET tail == a + RoundUp(n) + EntrySize IN
    /\ free'   = [free EXCEPT ![a] = 0, ![tail] = 1]
    /\ length' = [length EXCEPT ![a] = tail - a - EntrySize,
                                ![tail] = length[a] - (tail - a)]
    /\ prev'   = [prev EXCEPT ![tail] = a, ![next[a]] = tail]
    /\ next'   = [next EXCEPT ![tail] = next[a], ![a] = tail]
    /\ entries' = entries \cup {tail}
    /\ lastUsed' = tail

Take ==
  /\ pc = "take"
  /\ IF SplitWorthwhile(cur, size)
       THEN Split(cur, size)
       ELSE /\ free' = [free EXCEPT ![cur] = 0]
            /\ UNCHANGED <<next, prev, length, lastUsed, entries>>
  /\ held' = [held EXCEPT ![cur] = size]
  /\ IF old = NULL THEN Return
                   ELSE pc' = "copy" /\ UNCHANGED <<cur, size, old>>

(***************************************************************************)
(* free(p), for the header at a.  The flag is looked at first; the two     *)
(* diagnostics never return.                                               *)
(***************************************************************************)
\* A defect: the block after keeps its old prev.
AbsorbPrevStale(dst, src) ==
  /\ length' = [length EXCEPT ![dst] = @ + length[src] + EntrySize]
  /\ next'   = [next EXCEPT ![dst] = next[src]]
  /\ entries' = entries \ {src}
  /\ UNCHANGED prev

\* dst takes in src, the block that follows it: both merges of free().
Absorb(dst, src) ==
  /\ length' = [length EXCEPT ![dst] = @ + length[src] + EntrySize]
  /\ next'   = [next EXCEPT ![dst] = next[src]]
  /\ prev'   = [prev EXCEPT ![next[src]] = dst]
  /\ entries' = entries \ {src}

\* A defect: prev is not tested for being free.
MarkFreeMergeInUse(a) ==
  LET p == prev[a] IN
    /\ free[a] = 0
    /\ free' = [free EXCEPT ![a] = 1]
    /\ IF Adjacent(p, a)
         THEN Absorb(p, a) /\ cur' = p
         ELSE cur' = a /\ UNCHANGED <<length, next, prev, entries>>
    /\ held' = [held EXCEPT ![a] = NotHeld]
    /\ pc' = "merge"
    /\ UNCHANGED <<lastUsed, size, old>>

\* The header says the block is in use: mark it free and merge it with prev.
MarkFree(a) ==
  LET p == prev[a] IN
    /\ free[a] = 0
    /\ free' = [free EXCEPT ![a] = 1]
    /\ IF free'[p] = 1 /\ Adjacent(p, a)
         THEN Absorb(p, a) /\ cur' = p
         ELSE cur' = a /\ UNCHANGED <<length, next, prev, entries>>
    /\ held' = [held EXCEPT ![a] = NotHeld]
    /\ pc' = "merge"
    /\ UNCHANGED <<lastUsed, size, old>>

DiagnoseDoubleFree(a) ==
  /\ free[a] = 1
  /\ pc' = "DOUBLE FREE!"
  /\ UNCHANGED <<mem, entries, held, cur, size, old>>

DiagnoseCorruption(a) ==
  /\ free[a] > 1
  /\ pc' = "MEMORY CORRUPTION"
  /\ UNCHANGED <<mem, entries, held, cur, size, old>>

EnterFree(a) == MarkFree(a) \/ DiagnoseDoubleFree(a) \/ DiagnoseCorruption(a)

Free(a) ==
  /\ pc = "idle"
  /\ EnterFree(a)

\* The second merge and last_used = cur.
MergeNext ==
  /\ pc = "merge"
  /\ LET n == next[cur] IN
       IF free[n] = 1 /\ Adjacent(cur, n)
         THEN Absorb(cur, n)
         ELSE UNCHANGED <<length, next, prev, entries>>
  /\ lastUsed' = cur
  /\ Return
  /\ UNCHANGED <<free, held>>

(***************************************************************************)
(* realloc(p, n): keep the block when it is larger than n, else malloc,    *)
(* copy cur->length bytes and free the old block.                          *)
(***************************************************************************)
ReallocInPlace(a, n) ==
  /\ pc = "idle"
  /\ length[a] > n
  /\ held' = [held EXCEPT ![a] = n]
  /\ UNCHANGED <<mem, entries, ctl>>

ReallocMove(a, n) ==
  /\ pc = "idle"
  /\ length[a] <= n
  /\ EnterMalloc(n, a)
  /\ UNCHANGED held

\* memcpy (the payload is not modelled) and free(p).
ReallocFreeOld ==
  /\ pc = "copy"
  /\ EnterFree(old)

-----------------------------------------------------------------------------
\* The client keeps the contract: it frees and reallocates what it holds.
Call ==
  \/ \E n \in Requests : Malloc(n)
  \/ \E a \in Held : Free(a)
  \/ \E a \in Held, n \in Requests : ReallocInPlace(a, n) \/ ReallocMove(a, n)

Step == SearchNext \/ SearchDone \/ Take \/ MergeNext \/ ReallocFreeOld

Next == Call \/ Step

Spec == Init /\ [][Next]_vars

\* A call that has begun keeps running.
FairSpec == Spec /\ WF_vars(Step)
-----------------------------------------------------------------------------
(***************************************************************************)
(* Correctness.                                                            *)
(***************************************************************************)

\* The header words and locals hold values of their C++ types, pointers are
\* NULL or point at header positions, flags are 0 or 1 (mem.cpp:7-18).
TypeOK ==
  /\ next \in [HeaderAddr -> HeaderAddr \cup {NULL}]
  /\ prev \in [HeaderAddr -> HeaderAddr \cup {NULL}]
  /\ length \in [HeaderAddr -> Nat]
  /\ free \in [HeaderAddr -> {0, 1}]
  /\ lastUsed \in HeaderAddr
  /\ entries \in SUBSET HeaderAddr
  /\ held \in [HeaderAddr -> Nat \cup {NotHeld}]
  /\ pc \in {"idle", "search", "take", "copy", "merge",
             "DOUBLE FREE!", "MEMORY CORRUPTION"}
  /\ cur \in HeaderAddr \cup {NULL}
  /\ size \in Nat
  /\ old \in HeaderAddr \cup {NULL}

\* malloc hands out memory no other client has: the bytes a client asked for
\* lie in the reserve, over no other client's bytes and over no header of the
\* list (split of mem.cpp:62-72, merges of mem.cpp:93-108).
NoOverlap ==
  \A a \in Held :
    /\ a \in entries /\ free[a] = 0
    /\ a + EntrySize + held[a] <= End
    /\ \A b \in entries \ {a} :
         \/ b + EntrySize <= a
         \/ a + EntrySize + held[a] <= b

\* free() never leaves two neighbouring free blocks unmerged, so that a large
\* request fails only when the memory is really in use (mem.cpp:93-108).
Coalesced ==
  pc # "merge" =>
    \A a, b \in entries : ~(free[a] = 1 /\ free[b] = 1 /\ Adjacent(a, b))

\* Every block marked in use belongs to a client that can still free it: malloc
\* and realloc lose nothing (mem.cpp:61, 119-123).
NoLeak == \A a \in entries : free[a] = 0 => a \in Held

\* realloc's memcpy of cur->length bytes stays inside the new block, though
\* the new block was only asked to hold `size` (mem.cpp:115-121).
CopyFits == pc = "copy" => length[old] <= length[cur]

\* A client that keeps the contract never meets the diagnostics of free()
\* (mem.cpp:81-87).
DiagnosticsSilent == pc \notin {"DOUBLE FREE!", "MEMORY CORRUPTION"}

\* last_used is a header of the list whenever a search can start from it, though
\* free() may just have merged that header away (mem.cpp:71, 109).
LastUsedLive == pc # "merge" /\ entries # {} => lastUsed \in entries

\* The heap is sound between and during calls: no bytes with two owners, none
\* without, no free neighbours left apart, copies that fit, silent diagnostics
\* (mem.cpp:51-126).
HeapSound == NoOverlap /\ Coalesced /\ NoLeak /\ CopyFits /\ DiagnosticsSilent

\* No step of any call changes the extent of a block a client goes on holding.
HeldBlocksStay ==
  [][\A a \in Held : a \in Held' => length'[a] = length[a]]_vars

\* The next-fit loop has no exit but success: it ends if anything fits, from
\* wherever last_used makes it start (mem.cpp:59-60).
MallocReturns ==
  (pc = "search" /\ \E a \in entries : Fits(a, size)) ~> pc = "take"

-----------------------------------------------------------------------------
(***************************************************************************)
(* The inductive invariant.                                                *)
(***************************************************************************)

\* Headers follow each other in address order without gaps, the last one links
\* back to Base, and prev is the inverse of next.
Linked(a) ==
  /\ next[a] \in entries /\ prev[a] \in entries
  /\ prev[next[a]] = a /\ next[prev[a]] = a
  /\ After(a) <= End
  /\ next[a] = IF After(a) = End THEN Base ELSE After(a)

\* A running call points at headers of the list in the state its step needs.
CallOK ==
  /\ pc \in {"search", "take", "copy", "merge"} => cur \in entries
  /\ pc = "take" => Fits(cur, size)
  /\ pc \in {"search", "take", "copy"} /\ old # NULL =>
       old \in Held /\ length[old] <= size
  /\ pc = "copy" => old # NULL /\ cur # old /\ cur \in Held /\ length[cur] >= size
  /\ pc = "merge" => free[cur] = 1

BootOK ==
  /\ entries = {} => /\ pc = "idle" /\ Held = {}
                     /\ prev[lastUsed] = NULL /\ lastUsed = Base
  /\ entries # {} => Base \in entries

ListOK == \A a \in entries : Linked(a) /\ length[a] % 16 = 0

Ordered == \A a, b \in entries : a < b => After(a) <= b

HeldOK == \A a \in Held : a \in entries /\ free[a] = 0 /\ held[a] <= length[a]

IInv ==
  /\ TypeOK
  /\ BootOK
  /\ ListOK
  /\ Ordered
  /\ HeldOK
  /\ LastUsedLive
  /\ CallOK
  /\ DiagnosticsSilent

\* While free() runs, the only neighbouring free blocks are the block it has in
\* hand and the one after; and no block in use is without an owner.
UnmergedOnlyAtCur ==
  \A a, b \in entries :
    free[a] = 1 /\ free[b] = 1 /\ Adjacent(a, b) => pc = "merge" /\ a = cur

-----------------------------------------------------------------------------
\* The blocks clients hold, as the abstract allocator sees them.
Granted == {[start |-> a + EntrySize, size |-> length[a]] : a \in Held}

Abstract == INSTANCE Allocator WITH
  Starts <- {a + EntrySize : a \in HeaderAddr},
  Sizes  <- {n \in 0 .. ReserveLength : n % 16 = 0},
  Limit  <- End,
  live   <- Granted

\* Heap implements Allocator: every step of a call is a stutter, except the one
\* that marks a block used and the one that marks it free (mem.cpp:61, 91).
ImplementsAllocator == Abstract!Spec
=============================================================================
