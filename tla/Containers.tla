----------------------------- MODULE Containers -----------------------------
(***************************************************************************)
(* The containers of the kernel's library: vector, the vectormap built on  *)
(* it, and shared_ptr (libc/vector, libc/vectormap, libc/memory).          *)
(*                                                                         *)
(* A vector is a buffer of places, each raw or with an element constructed *)
(* in it; here its elements are the pairs of a vectormap.  An object under *)
(* shared_ptr has its count in a block of its own, or behind itself in one *)
(* that make_shared took for both.                                         *)
(***************************************************************************)
EXTENDS Integers, Sequences, FiniteSets, SequencesExt

CONSTANTS
  FirstCapacity,  \* capacity that push_back begins with: 8
  MapKeys, Values,
  MaxSize,        \* bound: elements of the vector
  Handles,        \* the variables that are shared_ptrs
  Whole, Tiny,    \* the objects: with room for a count, and without
  MaxOps          \* bound: calls of one behaviour

ASSUME ContainersAssumption ==
  /\ FirstCapacity \in Nat \ {0} /\ MaxSize \in Nat /\ MaxOps \in Nat
  /\ IsFiniteSet(Handles) /\ Whole \cap Tiny = {} /\ "none" \notin Whole \cup Tiny

Raw == <<>>
Objects == Whole \cup Tiny
NoObject == "none"

VARIABLES
  buf,      \* the places of the vector, as many as its capacity
  size,     \* size_
  pairs,    \* history: what the vector ought to hold
  misused,  \* history: a place was used that is outside, raw or has an element already
  grown,    \* history: resize was asked for more than the capacity
  held,     \* the object each handle holds
  count,    \* the count of each object
  joint,    \* the objects that make_shared made
  blocks,   \* the blocks each object has now: "object", "count"
  wild,     \* history: what was freed that is no block of its own
  ops       \* number of calls

vecVars == <<buf, size, pairs, misused, grown>>
ptrVars == <<held, count, joint, blocks, wild>>
contVars == <<vecVars, ptrVars, ops>>

ContInit ==
  /\ buf = <<>> /\ size = 0 /\ pairs = <<>> /\ misused = FALSE /\ grown = FALSE
  /\ held = [h \in Handles |-> NoObject]
  /\ count = [o \in Objects |-> 0] /\ joint = {} /\ blocks = [o \in Objects |-> {}] /\ wild = {}
  /\ ops = 0

-----------------------------------------------------------------------------
(* vector *)

\* A vector as it goes through a call.
Vec == [buf |-> buf, size |-> size, bad |-> FALSE]

\* An element constructed in place i, counted from 0; destroyed there.
Construct(v, i, e) ==
  IF i + 1 \in DOMAIN v.buf /\ v.buf[i + 1] = Raw THEN [v EXCEPT !.buf[i + 1] = e]
  ELSE [v EXCEPT !.bad = TRUE]
Destroy(v, i) ==
  IF i + 1 \in DOMAIN v.buf /\ v.buf[i + 1] # Raw THEN [v EXCEPT !.buf[i + 1] = Raw]
  ELSE [v EXCEPT !.bad = TRUE]

\* reserve: the elements move to a new buffer.
VecReserve(v, n) ==
  IF n < Len(v.buf) THEN v
  ELSE [v EXCEPT !.buf = [i \in 1 .. n |-> IF i <= v.size THEN v.buf[i] ELSE Raw]]

\* A defect: a full buffer is not noticed until it is overfull.
VecPushLate(v, e) ==
  LET first == IF Len(v.buf) < FirstCapacity THEN VecReserve(v, FirstCapacity) ELSE v
      room == IF v.size > Len(first.buf) THEN VecReserve(first, 2 * Len(first.buf)) ELSE first
  IN [Construct(room, v.size, e) EXCEPT !.size = @ + 1]

\* push_back, emplace_back
VecPush(v, e) ==
  LET first == IF Len(v.buf) < FirstCapacity THEN VecReserve(v, FirstCapacity) ELSE v
      room == IF v.size + 1 > Len(first.buf) THEN VecReserve(first, 2 * Len(first.buf)) ELSE first
  IN [Construct(room, v.size, e) EXCEPT !.size = @ + 1]

VecPop(v) == [Destroy(v, v.size - 1) EXCEPT !.size = @ - 1]

\* T()
Fresh == <<"fresh", 0>>

\* resize.  A larger capacity is only asked for when there is one.
VecResize(v, n) ==
  IF n < v.size
  THEN LET cut[i \in 0 .. v.size - n] == IF i = 0 THEN v ELSE VecPop(cut[i - 1])
       IN cut[v.size - n]
  ELSE LET filled[i \in 0 .. n - v.size] ==
             IF i = 0 THEN IF n < Len(v.buf) THEN VecReserve(v, n) ELSE v
             ELSE Construct(filled[i - 1], v.size + i - 1, Fresh)
       IN [filled[n - v.size] EXCEPT !.size = n]

\* vector(const vector&): reserve, and every element pushed.
VecCopy(v) ==
  LET copy[i \in 0 .. v.size] ==
        IF i = 0 THEN VecReserve([buf |-> <<>>, size |-> 0, bad |-> v.bad], v.size)
        ELSE VecPush(copy[i - 1], v.buf[i])
  IN copy[v.size]

\* What the vector becomes, and what it ought to.  Nothing follows a misuse.
Becomes(v, meant) ==
  /\ ~misused /\ ops < MaxOps /\ ops' = ops + 1
  /\ Len(meant) <= MaxSize
  /\ buf' = v.buf /\ size' = v.size /\ misused' = v.bad /\ pairs' = meant
  /\ UNCHANGED ptrVars

-----------------------------------------------------------------------------
(* vectormap *)

FoundAt(v, k) == {i \in 1 .. v.size : v.buf[i][1] = k}

\* operator[] and insert: the first pair of the key, or a new one at the end.
MapAssign(v, k, x) ==
  IF FoundAt(v, k) # {} THEN [v EXCEPT !.buf[Min(FoundAt(v, k))] = <<k, x>>]
  ELSE VecPush(v, <<k, x>>)

\* The same of what the map ought to hold.
Put(ps, k, x) ==
  LET i == SelectInSeq(ps, LAMBDA p : p[1] = k) IN
    IF i = 0 THEN Append(ps, <<k, x>>) ELSE [ps EXCEPT ![i] = <<k, x>>]

MapInsert(k, x) == Becomes(MapAssign(Vec, k, x), Put(pairs, k, x)) /\ UNCHANGED grown
TakeLast == size > 0 /\ Becomes(VecPop(Vec), Front(pairs)) /\ UNCHANGED grown
CopyAll == Becomes(VecCopy(Vec), pairs) /\ UNCHANGED grown
NewSize(n) ==
  /\ Becomes(VecResize(Vec, n),
             IF n <= size THEN SubSeq(pairs, 1, n) ELSE pairs \o [i \in 1 .. n - size |-> Fresh])
  /\ grown' = (grown \/ n > Len(buf))

-----------------------------------------------------------------------------
(* shared_ptr *)

Free(b, o) == [b EXCEPT ![o] = {}]

\* A handle lets go.  The last one deletes the object and, unless the count is found
\* right behind the object, the count; make_shared leaves a gap behind a small object.
Released(o) ==
  /\ count' = [count EXCEPT ![o] = @ - 1]
  /\ blocks' = IF count[o] = 1 THEN Free(blocks, o) ELSE blocks
  /\ wild' = IF count[o] = 1 /\ o \in joint \cap Tiny THEN wild \cup {o} ELSE wild

Op == ops < MaxOps /\ ops' = ops + 1 /\ UNCHANGED vecVars

\* shared_ptr(new T), or make_shared<T>(), for a handle that has none.
Make(h, o, together) ==
  /\ Op /\ held[h] = NoObject /\ blocks[o] = {} /\ count[o] = 0 /\ o \notin joint
  /\ held' = [held EXCEPT ![h] = o]
  /\ count' = [count EXCEPT ![o] = 1]
  /\ blocks' = [blocks EXCEPT ![o] = IF together THEN {"object"} ELSE {"object", "count"}]
  /\ joint' = IF together THEN joint \cup {o} ELSE joint
  /\ UNCHANGED wild

CopyHandle(h, g) ==
  /\ Op /\ held[h] = NoObject /\ held[g] # NoObject
  /\ held' = [held EXCEPT ![h] = held[g]]
  /\ count' = [count EXCEPT ![held[g]] = @ + 1]
  /\ UNCHANGED <<joint, blocks, wild>>

\* operator=
AssignHandle(h, g) ==
  /\ Op /\ held[h] # NoObject /\ held[g] # NoObject
  /\ held' = [held EXCEPT ![h] = held[g]]
  /\ IF held[h] = held[g] THEN UNCHANGED <<count, blocks, wild>>
     ELSE LET o == held[h] IN
       /\ count' = [count EXCEPT ![o] = @ - 1, ![held[g]] = @ + 1]
       /\ blocks' = IF count[o] = 1 THEN Free(blocks, o) ELSE blocks
       /\ wild' = IF count[o] = 1 /\ o \in joint \cap Tiny THEN wild \cup {o} ELSE wild
  /\ UNCHANGED joint

\* ~shared_ptr
DropHandle(h) ==
  /\ Op /\ held[h] # NoObject
  /\ held' = [held EXCEPT ![h] = NoObject]
  /\ Released(held[h])
  /\ UNCHANGED joint

VecNext ==
  \/ \E k \in MapKeys, x \in Values : MapInsert(k, x)
  \/ \E n \in 0 .. MaxSize : NewSize(n)
  \/ TakeLast \/ CopyAll

PtrNext ==
  \/ \E h \in Handles : DropHandle(h) \/ \E o \in Objects, t \in BOOLEAN : Make(h, o, t)
  \/ \E h, g \in Handles : CopyHandle(h, g) \/ AssignHandle(h, g)

-----------------------------------------------------------------------------
\* A vector holds what was put in, in that order, through every move to a larger
\* buffer; no element is constructed over another or outside of the buffer, and none
\* destroyed twice, unless resize is asked for more than the capacity
\* (vector:26-100, vectormap:15-25).
VectorHolds ==
  /\ misused => grown
  /\ ~misused =>
       /\ SubSeq(buf, 1, size) = pairs
       /\ \A i \in size + 1 .. Len(buf) : buf[i] = Raw

\* An object lives as long as a handle holds it, with its count, and no longer, and only
\* blocks are freed, but for the count of a small object that make_shared made
\* (memory:13-74).
SharedLives ==
  /\ \A o \in Objects :
       /\ count[o] = Cardinality({h \in Handles : held[h] = o})
       /\ blocks[o] = IF count[o] = 0 THEN {}
                      ELSE IF o \in joint THEN {"object"} ELSE {"object", "count"}
  /\ wild \subseteq joint \cap Tiny

ContainersRight == VectorHolds /\ SharedLives
=============================================================================
