---------------------------- MODULE HeapInterrupt ----------------------------
(***************************************************************************)
(* Two contexts on one heap: main(), and the keyboard interrupt, whose     *)
(* handler appends to a std::deque and so calls operator new for a new     *)
(* stride (Keyboard::onInput, deque::reserve_1_at_end).  main() frees the  *)
(* strides the handler allocated (deque::pop_front).                       *)
(*                                                                         *)
(* This is the x86-64 build, where the handler runs between any two        *)
(* instructions of main() once platform_enable_interrupts() was called.    *)
(* The other builds call onInterrupt() from main()'s loop, when no heap    *)
(* call is running: there the two contexts are one client of module Heap.  *)
(***************************************************************************)
EXTENDS Integers

CONSTANTS EntrySize, ReserveLength, Requests

VARIABLES
  next, prev, length, free, lastUsed, entries,
  mheld, mpc, mcur, msize, mold,   \* main()'s blocks and its running heap call
  iheld, ipc, icur, isize, iold    \* the deque's strides and the handler's call

shared == <<next, prev, length, free, lastUsed, entries>>
mctl   == <<mpc, mcur, msize, mold>>
ictl   == <<ipc, icur, isize, iold>>
vars   == <<shared, mheld, mctl, iheld, ictl>>

\* main()'s calls on its own blocks, main()'s calls on strides, the handler's.
Main   == INSTANCE Heap WITH held <- mheld, pc <- mpc, cur <- mcur, size <- msize, old <- mold
Pop    == INSTANCE Heap WITH held <- iheld, pc <- mpc, cur <- mcur, size <- msize, old <- mold
Handler == INSTANCE Heap WITH held <- iheld, pc <- ipc, cur <- icur, size <- isize, old <- iold

Init == Main!Init /\ Handler!Init

\* The handler runs to completion before main() goes on.
MainStep ==
  /\ ipc = "idle"
  /\ \/ /\ \/ \E n \in Requests : Main!Malloc(n)
           \/ \E a \in Main!Held : Main!Free(a)
           \/ Main!SearchNext
           \/ Main!SearchDone
           \/ Main!Take
           \/ Main!MergeNext
        /\ UNCHANGED iheld
     \/ \E a \in Pop!Held : Pop!Free(a) /\ UNCHANGED mheld
  /\ UNCHANGED ictl

HandlerStep ==
  /\ \/ /\ mpc \notin {"DOUBLE FREE!", "MEMORY CORRUPTION"}
        /\ entries # {}  \* platform_setup() allocated before interrupts were on
        /\ \E n \in Requests : Handler!Malloc(n)
     \/ Handler!SearchNext
     \/ Handler!SearchDone
     \/ Handler!Take
  /\ UNCHANGED <<mheld, mctl>>

Next == MainStep \/ HandlerStep

Spec == Init /\ [][Next]_vars

-----------------------------------------------------------------------------
\* Neither context ever frees a block the other has freed (mem.cpp:84-86).
NoDoubleFree == mpc # "DOUBLE FREE!"
=============================================================================
