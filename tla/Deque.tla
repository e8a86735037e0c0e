-------------------------------- MODULE Deque --------------------------------
(***************************************************************************)
(* The queue of typed characters: std::deque of kernel/src/libc/deque as   *)
(* the keyboard handler (Keyboard::onInput, push_back) and main()          *)
(* (getchar, front and pop_front) use it.                                  *)
(*                                                                         *)
(* A deque is a list of strides with Slots cells each; the first stride is *)
(* read, the last one written.  On x86-64 push_back runs in the interrupt  *)
(* handler, between any two steps of getchar.                              *)
(*                                                                         *)
(* Characters are numbered in the order they are typed.  push_front,       *)
(* pop_back and the iterators are not instantiated by the kernel.          *)
(***************************************************************************)
EXTENDS Integers, Sequences

CONSTANTS
  Slots,     \* cells of a stride: 255 in the code
  MaxTyped,  \* bound: characters typed in one behaviour
  MaxReads   \* bound: calls of getchar in one behaviour

\* The uint8_t indices wrap one past the cells: 256 in the code.
IndexRange == Slots + 1

\* The byte behind the last cell is the member `first` (deque:151-152); what a
\* cell holds before it is written is whatever malloc left there.
Unwritten == 0
FirstByte == -1

VARIABLES
  waits,    \* TRUE for a main() that calls getchar only when a character is there; the
            \* main() of main.cpp calls it whenever the processor was interrupted
  strides,  \* the list from `first` to `last`: records [buf, first, last]
  typed,    \* history: number of characters pushed
  got,      \* history: the characters getchar returned
  pc,       \* where main() is in getchar
  front,    \* what getchar read
  drained,  \* history: a character came when the deque was empty and its stride full
  wrapped   \* history: the read index of a stride has wrapped round to 0

vars == <<waits, strides, typed, got, pc, front, drained, wrapped>>

NewStride == [buf |-> [i \in 0 .. Slots - 1 |-> Unwritten], first |-> 0, last |-> 0]

Head1 == strides[1]
LastAt == Len(strides)

\* bool empty() const
Empty == LastAt = 1 /\ Head1.first = Head1.last

Init ==
  /\ waits \in BOOLEAN
  /\ strides = <<NewStride>>
  /\ typed = 0 /\ got = <<>>
  /\ pc = "idle" /\ front = Unwritten
  /\ drained = FALSE /\ wrapped = FALSE

-----------------------------------------------------------------------------
\* A defect: a stride is added when one cell is left.
ReserveAtEndEarly(s) == IF s[Len(s)].last = Slots - 1 THEN Append(s, NewStride) ELSE s

\* reserve_1_at_end(): a full last stride gets a successor.
ReserveAtEnd(s) == IF s[Len(s)].last = Slots THEN Append(s, NewStride) ELSE s

\* push_back(v)
PushBack(s, v) ==
  LET r == ReserveAtEnd(s) IN
    [r EXCEPT ![Len(r)].buf[r[Len(r)].last] = v, ![Len(r)].last = @ + 1]

\* The keyboard interrupt: Keyboard::onInput with a key that gives a character.
Type ==
  /\ typed < MaxTyped
  /\ typed' = typed + 1
  /\ strides' = PushBack(strides, typed + 1)
  /\ drained' = (drained \/ (pc = "idle" /\ Empty /\ Head1.last = Slots))
  /\ UNCHANGED <<waits, got, pc, front, wrapped>>

\* Defects: the read index stays where it is; the stride
\* being written is deleted too.
AdvanceNever ==
  /\ pc = "advance"
  /\ pc' = "retire"
  /\ UNCHANGED <<waits, strides, typed, got, front, drained, wrapped>>

RetireAll ==
  /\ pc = "retire"
  /\ strides' = IF Head1.first = Slots /\ LastAt # 1 THEN <<NewStride>> ELSE strides
  /\ got' = Append(got, front)
  /\ pc' = "idle" /\ front' = Unwritten
  /\ UNCHANGED <<waits, typed, drained, wrapped>>

\* getchar: inputs().front()
Front ==
  /\ pc = "idle" /\ Len(got) < MaxReads
  /\ waits => ~Empty
  /\ front' = IF Head1.first = Slots THEN FirstByte ELSE Head1.buf[Head1.first]
  /\ pc' = "advance"
  /\ UNCHANGED <<waits, strides, typed, got, drained, wrapped>>

\* pop_front: first->first++
Advance ==
  /\ pc = "advance"
  /\ strides' = [strides EXCEPT ![1].first = (@ + 1) % IndexRange]
  /\ wrapped' = (wrapped \/ Head1.first = Slots)
  /\ pc' = "retire"
  /\ UNCHANGED <<waits, typed, got, front, drained>>

\* pop_front: a stride that has been read to its end is deleted, unless it is
\* the one being written.  Then getchar returns.
Retire ==
  /\ pc = "retire"
  /\ strides' = IF Head1.first = Slots /\ LastAt # 1 THEN Tail(strides) ELSE strides
  /\ got' = Append(got, front)
  /\ pc' = "idle" /\ front' = Unwritten
  /\ UNCHANGED <<waits, typed, drained, wrapped>>

\* getchar, a step at a time.
Getchar == Front \/ Advance \/ Retire

Next == Type \/ Getchar

-----------------------------------------------------------------------------
\* The list stays what both ends rely on, though the handler can append a
\* stride while main() is deciding whether to delete one (deque:117-127,
\* 139-148): never empty, strides full up to the one being written, and none
\* touched by the reader but the first.
ListShape ==
  /\ LastAt >= 1
  /\ \A i \in 1 .. LastAt - 1 : strides[i].last = Slots
  /\ \A i \in 2 .. LastAt : strides[i].first = 0 /\ strides[i].last > 0

\* main() sees the characters in the order they were typed, none lost, wherever
\* the interrupt falls in getchar, as long as it waits for them and the deque
\* was never emptied exactly when its stride was full (deque:117-127).
InOrder == waits /\ ~drained => got = [i \in 1 .. Len(got) |-> i] /\ Len(got) <= typed

\* Even when getchar is called with nothing to read (Keyboard.cpp:15-19) no
\* character is returned twice before the read index has gone round its stride.
OnceUntilWrap ==
  ~wrapped => \A i, j \in DOMAIN got : i # j /\ got[i] = got[j] => got[i] = Unwritten
=============================================================================
