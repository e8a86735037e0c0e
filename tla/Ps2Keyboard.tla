----------------------------- MODULE Ps2Keyboard -----------------------------
(***************************************************************************)
(* The keyboard from its wire to the queue of typed characters: the        *)
(* scan-code decoder PS2Keyboard::onInterrupt (ps2keyboard.cpp), which is  *)
(* given one byte per interrupt, Keyboard::onInput (Keyboard.cpp), which   *)
(* follows the modifiers, and Qwerty::lookup (Qwerty.cpp), which it asks   *)
(* for a character.                                                        *)
(*                                                                         *)
(* The user types ahead of the decoder: the bytes not yet taken wait in    *)
(* the keyboard.  A byte is named by its hexadecimal digits.  The decoder  *)
(* has three bytes of buffer and keeps its offset directly behind them     *)
(* (ps2.h:25-26), so a fourth byte is stored into the offset itself.       *)
(***************************************************************************)
EXTENDS Integers, Sequences, SequencesExt

CONSTANTS
  UserKeys,   \* the keys this user touches
  MaxEvents   \* bound: presses and releases in one behaviour

Plain == [AltLeft |-> "11", ShiftLeft |-> "12", CtrlLeft |-> "14", A |-> "1C", N5 |-> "2E"]
Extended == [AltRight |-> "11", CtrlRight |-> "14"]
Keys == DOMAIN Plain \cup DOMAIN Extended \cup {"Pause"}

ASSUME KeyboardAssumption == UserKeys \subseteq Keys /\ MaxEvents \in Nat

VARIABLES
  held,     \* the keys the user holds down
  wire,     \* bytes sent by the keyboard and not yet read
  buffer,   \* the three bytes of PS2Keyboard::buffer
  offset,   \* PS2Keyboard::offset, a uint8_t
  keys,     \* Keyboard::keys: the keys thought to be down
  typed,    \* the characters given to the queue
  meant,    \* history: the characters the user meant
  events,   \* history: the number of presses and releases
  overrun   \* history: a fourth byte has been stored

vars == <<held, wire, buffer, offset, keys, typed, meant, events, overrun>>
decoder == <<buffer, offset, keys, typed, overrun>>

Press == "press"
Release == "release"
Invalid == [key |-> "Invalid", dir |-> Press]
Code(k, d) == [key |-> k, dir |-> d]

\* The bytes a set-2 keyboard sends.  Pause sends its release with its press.
BytesOf(k, d) ==
  CASE k = "Pause" -> <<"E1", "14", "77", "E1", "F0", "14", "F0", "77">>
    [] k \in DOMAIN Plain /\ d = Press -> <<Plain[k]>>
    [] k \in DOMAIN Plain /\ d = Release -> <<"F0", Plain[k]>>
    [] k \in DOMAIN Extended /\ d = Press -> <<"E0", Extended[k]>>
    [] k \in DOMAIN Extended /\ d = Release -> <<"E0", "F0", Extended[k]>>

\* ScanCodesTable and ScanCodesTableE0: the key of a byte.
Lookup(table, byte) ==
  IF \E k \in DOMAIN table : table[k] = byte
  THEN CHOOSE k \in DOMAIN table : table[k] = byte
  ELSE "Invalid"

\* The rows of Qwerty.cpp that some user here types: the character of a key
\* alone, with shift, with AltGr, and with both.
NoChar == "none"
mapping == [A |-> <<"a", "a", NoChar, NoChar>>, N5 |-> <<"5", "%", "euro", NoChar>>]

\* A defect: the modifiers change places in the index.
ColumnSwapped(shifted, alt) == 1 + (IF alt THEN 1 ELSE 0) + (IF shifted THEN 2 ELSE 0)

\* alt * 2 + shifted, counted from 1.
Column(shifted, alt) == 1 + (IF alt THEN 2 ELSE 0) + (IF shifted THEN 1 ELSE 0)

\* Qwerty::lookup.  ShiftLeft is the scan code after the last row, and its test
\* `index > size` lets the first word behind the table through.
QwertyLookup(k, shifted, alt) ==
  CASE k \in DOMAIN mapping -> mapping[k][Column(shifted, alt)]
    [] k = "ShiftLeft" /\ Column(shifted, alt) = 1 -> "beyond the table"
    [] OTHER -> NoChar

\* toupper, and the conversion to the uint8_t of the queue: of the euro sign
\* 0x20AC the not sign 0xAC is left.
toupper(c) == IF c = "a" THEN "A" ELSE c
AsByte(c) == IF c = "euro" THEN "not sign" ELSE c

\* What the user means by a key, by what is printed on it.
Meaning(k, down) ==
  LET shifted == "ShiftLeft" \in down  altgr == "AltRight" \in down IN
    CASE k = "A" /\ ~altgr -> IF shifted THEN <<"A">> ELSE <<"a">>
      [] k = "N5" /\ ~altgr -> IF shifted THEN <<"%">> ELSE <<"5">>
      [] k = "N5" /\ altgr /\ ~shifted -> <<"euro">>
      [] OTHER -> <<>>

Init ==
  /\ held = {} /\ wire = <<>>
  /\ buffer = [i \in 0 .. 2 |-> "00"] /\ offset = 0
  /\ keys = {} /\ typed = <<>>
  /\ meant = <<>> /\ events = 0 /\ overrun = FALSE

-----------------------------------------------------------------------------
\* The user.  A key that is held repeats.
PressKey(k) ==
  /\ events < MaxEvents /\ k \in UserKeys
  /\ events' = events + 1
  /\ held' = IF k = "Pause" THEN held ELSE held \cup {k}
  /\ wire' = wire \o BytesOf(k, Press)
  /\ meant' = meant \o Meaning(k, held')
  /\ UNCHANGED decoder

ReleaseKey(k) ==
  /\ events < MaxEvents /\ k \in held
  /\ events' = events + 1
  /\ held' = held \ {k}
  /\ wire' = wire \o BytesOf(k, Release)
  /\ UNCHANGED <<meant, decoder>>

-----------------------------------------------------------------------------

\* The tests of the switch of onInterrupt, for n bytes in the buffer b.
ShortPress(b, n) == n = 2 /\ b[1] # "F0"
PlainRelease(b, n) == b[0] = "F0" /\ n = 2

\* The code the buffer holds: <<>> while it is not complete.
Decoded(b, n) ==
  CASE b[0] = "E0" /\ ShortPress(b, n) -> <<Code(Lookup(Extended, b[1]), Press)>>
    [] b[0] = "E0" /\ n = 3 /\ b[1] = "F0" -> <<Code(Lookup(Extended, b[2]), Release)>>
    [] b[0] = "E1" /\ n = 3 /\ b[1] # "F0" -> <<Code("Pause", Press)>>
    [] b[0] = "E1" /\ n = 5 /\ b[1] = "F0" -> <<Code("Pause", Release)>>
    [] PlainRelease(b, n) -> <<Code(Lookup(Plain, b[1]), Release)>>
    [] b[0] \notin {"E0", "E1", "F0"} -> <<Code(Lookup(Plain, b[0]), Press)>>
    [] OTHER -> <<>>

\* `buffer[offset++] = bus->ReadData()`: <<buffer, offset>> afterwards.  At
\* offset 3 the byte and the incremented offset go to the same place and the
\* order is unspecified; further on the byte lands in foreign memory.
Stores(b, n, byte) ==
  IF n < 3 THEN {<<[b EXCEPT ![n] = byte], n + 1>>}
  ELSE IF n = 3 THEN {<<b, 4>>, <<b, 240>>}
  ELSE {<<b, (n + 1) % 256>>}

\* Keyboard::onInput
OnInput(sc) ==
  LET down == IF sc.dir = Press THEN keys \cup {sc.key} ELSE keys \ {sc.key}
      shifted == "ShiftLeft" \in down
      found == QwertyLookup(sc.key, shifted, "AltRight" \in down)
      c == IF shifted THEN toupper(found) ELSE found
  IN /\ keys' = down
     /\ typed' = IF sc.dir = Release \/ c = NoChar THEN typed ELSE Append(typed, AsByte(c))

\* A defect: an interrupt reads nothing when a code is under way.
OnInterruptFirstByteOnly ==
  /\ wire # <<>> /\ offset = 0
  /\ wire' = Tail(wire)
  /\ buffer' = [buffer EXCEPT ![0] = Head(wire)] /\ offset' = 1
  /\ UNCHANGED <<held, keys, typed, meant, events, overrun>>

\* PS2Keyboard::onInterrupt
OnInterrupt ==
  /\ wire # <<>>
  /\ wire' = Tail(wire)
  /\ overrun' = (overrun \/ offset >= 3)
  /\ \E s \in Stores(buffer, offset, Head(wire)) :
       LET code == IF s[2] = 0 THEN <<>> ELSE Decoded(s[1], s[2]) IN
         /\ buffer' = s[1]
         /\ offset' = IF code = <<>> THEN s[2] ELSE 0
         /\ IF code \in {<<>>, <<Invalid>>} THEN UNCHANGED <<keys, typed>>
            ELSE OnInput(code[1])
  /\ UNCHANGED <<held, meant, events>>

Next ==
  \/ \E k \in Keys : PressKey(k) \/ ReleaseKey(k)
  \/ OnInterrupt

-----------------------------------------------------------------------------
\* However far the user types ahead, the queue gets the characters meant, in
\* order and with the modifiers held when each was pressed, but for the euro sign,
\* which does not fit a byte; and when the wire is empty no code is half read and
\* the keys thought to be down are those that are (ps2keyboard.cpp:276-320,
\* Keyboard.cpp:48-64, Qwerty.cpp:76-83).  Only the release of Pause, which
\* onInterrupt waits five bytes for (ps2keyboard.cpp:301), outgrows the three bytes
\* of ps2.h:25; after it nothing is certain.
TypedAsMeant ==
  /\ offset >= 3 => buffer[0] = "E1" /\ buffer[1] = "F0"
  /\ ~overrun =>
       /\ Len(typed) <= Len(meant)
       /\ \A i \in DOMAIN typed : typed[i] = meant[i] \/ meant[i] = "euro"
       /\ wire = <<>> => Len(typed) = Len(meant) /\ keys = held /\ offset = 0
=============================================================================
