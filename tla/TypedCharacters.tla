--------------------------- MODULE TypedCharacters ---------------------------
(***************************************************************************)
(* From the keys to main(): the decoder of module Ps2Keyboard, which runs  *)
(* in the interrupt handler, puts its characters into the deque of module  *)
(* Deque, from which main() takes them with getchar (Keyboard.cpp:10-19,   *)
(* 48-64).  One interrupt gives at most one character; it may fall between *)
(* any two steps of getchar.                                               *)
(***************************************************************************)
EXTENDS Ps2Keyboard

CONSTANTS
  Slots,     \* cells of a stride: 255 in the code
  MaxReads   \* bound: calls of getchar in one behaviour

ASSUME TypedAssumption == Slots \in Nat \ {0} /\ MaxReads \in Nat

VARIABLES waits, strides, got, pc, front, drained, wrapped

\* The deque holds the characters by their number: cell n stands for typed[n].
D == INSTANCE Deque WITH typed <- Len(typed), MaxTyped <- MaxEvents

dequeVars == <<waits, strides, got, pc, front, drained, wrapped>>
typedVars == <<vars, dequeVars>>

TypedInit == Init /\ D!Init

Handler ==
  /\ OnInterrupt
  /\ IF typed' = typed THEN UNCHANGED dequeVars ELSE D!Type

Main == UNCHANGED vars /\ D!Getchar

User == (\E k \in Keys : PressKey(k) \/ ReleaseKey(k)) /\ UNCHANGED dequeVars

TypedNext == User \/ Handler \/ Main

\* The handler runs again for every byte that waits (edge of the next byte), and
\* main() goes on.
TypedSpec == TypedInit /\ [][TypedNext]_typedVars /\ WF_typedVars(Handler) /\ WF_typedVars(Main)

-----------------------------------------------------------------------------
\* The list of strides stays what both ends rely on (Deque.tla).
ListShape == D!ListShape

\* main() reads the characters the user meant, in order, none twice and none lost,
\* wherever the interrupts fall in the decoder's buffer and in getchar: as long as
\* it waits for a character and no character came when the deque was empty with its
\* stride full, and but for the euro sign (deque:117-127, Keyboard.cpp:10-19).
ReadAsMeant ==
  waits /\ ~drained /\ ~overrun =>
    /\ D!InOrder
    /\ \A i \in DOMAIN got : typed[got[i]] = meant[i] \/ meant[i] = "euro"

\* A main() that calls getchar with nothing to read gets no character twice before
\* the read index has gone round its stride.
OnceUntilWrap == D!OnceUntilWrap

\* Everything typed reaches main(): the decoder never waits for a byte that does not
\* come, and the handler never hides a stride from the reader.
AllRead == waits ~> (Len(got) = Len(meant) \/ Len(got) = MaxReads \/ overrun \/ drained)

=============================================================================
