------------------------------- MODULE TextOut -------------------------------
(***************************************************************************)
(* Where printf's text goes: on a PC to the text screen (x8664/text.cpp),  *)
(* on a Raspberry Pi to the serial line (rpifb.cpp, common/debug.cpp),     *)
(* which can also be read a line at a time.  The line has a queue at       *)
(* either end; a byte that comes while the receiver's is full is dropped.  *)
(***************************************************************************)
EXTENDS Integers, Sequences, SequencesExt

CONSTANTS
  TextWidth, TextHeight, \* 80 and 25
  Drawings,      \* what is drawn
  Replies,    \* what the other side of the line sends
  FifoRoom,   \* bytes in a queue
  Limits,     \* limits readline is called with
  NL          \* the newline

ASSUME TextOutAssumption ==
  /\ {TextWidth, TextHeight, FifoRoom} \subseteq Nat \ {0} /\ Limits \subseteq Nat

VARIABLES
  machine,  \* "pc" or "rpi"
  drawing,  \* what is left to draw
  cursor,   \* x and y on the PC's screen
  glyphs,   \* history: [cell, char, line] of what was drawn there, line the number of its line
  lineNo,   \* history: lines begun on the screen before this one
  outgoing, \* the transmitter's queue
  arrived,  \* history: what has come out of the line
  reply, incoming, \* what the other side has still to send; the receiver's queue
  limit, line,     \* a call of readline: its limit, and what it has read; limit -1 for none
  linesRead,       \* history: what the calls have returned, [text, last, limit]
  overrun          \* history: a byte was dropped

serialVars == <<outgoing, arrived>>
readVars == <<machine, reply, incoming, limit, line, linesRead, overrun>>
screenVars == <<cursor, glyphs, lineNo>>
textVars == <<drawing, screenVars, serialVars, readVars>>

\* Drawing and reading have nothing in common, so one of them at a time.
TextInit ==
  /\ machine \in {"pc", "rpi"} /\ drawing \in Drawings /\ cursor = <<0, 0>> /\ glyphs = <<>> /\ lineNo = 0
  /\ outgoing = <<>> /\ arrived = <<>>
  /\ reply \in Replies /\ (reply # <<>> => machine = "rpi" /\ drawing = <<>>) 
  /\ incoming = <<>> /\ limit = -1 /\ line = <<>> /\ linesRead = <<>> /\ overrun = FALSE

-----------------------------------------------------------------------------
\* A defect: the row is never set back.
RowUnbounded(y) == y
\* `if (y > 25) y = 24`.
Row(y) == IF y > TextHeight THEN TextHeight - 1 ELSE y

\* platform_draw_text of a PC, one character.
DrawOnScreen ==
  LET c == Head(drawing)  x == cursor[1]  y == cursor[2]
      ends == c = NL \/ x + 1 = TextWidth
  IN
    /\ machine = "pc" /\ drawing # <<>>
    /\ drawing' = Tail(drawing)
    /\ glyphs' = IF c = NL THEN glyphs
                 ELSE Append(glyphs, [cell |-> y * TextWidth + x, char |-> c, line |-> lineNo])
    /\ cursor' = IF ends THEN <<0, Row(y + 1)>> ELSE <<x + 1, Row(y)>>
    /\ lineNo' = IF ends THEN lineNo + 1 ELSE lineNo
    /\ UNCHANGED <<serialVars, readVars>>

\* platform_draw_text of a Raspberry Pi writes to the serial line.
OnLine == machine = "rpi" /\ drawing # <<>>

\* debug::write, one character: it waits for room.
DrawOnLine ==
  /\ OnLine
  /\ Len(outgoing) < FifoRoom
  /\ outgoing' = Append(outgoing, Head(drawing)) /\ drawing' = Tail(drawing)
  /\ UNCHANGED <<screenVars, arrived, readVars>>

Transmit ==
  /\ outgoing # <<>>
  /\ arrived' = Append(arrived, Head(outgoing)) /\ outgoing' = Tail(outgoing)
  /\ UNCHANGED <<drawing, screenVars, readVars>>

Receive ==
  /\ reply # <<>>
  /\ reply' = Tail(reply)
  /\ IF Len(incoming) < FifoRoom THEN incoming' = Append(incoming, Head(reply)) /\ UNCHANGED overrun
     ELSE overrun' = TRUE /\ UNCHANGED incoming
  /\ UNCHANGED <<machine, drawing, screenVars, serialVars, limit, line, linesRead>>

CallReadLine ==
  /\ machine = "rpi" /\ limit = -1 /\ Len(incoming) + Len(reply) > 0
  /\ limit' \in Limits /\ line' = <<>>
  /\ UNCHANGED <<machine, drawing, screenVars, serialVars, reply, incoming, linesRead, overrun>>

\* debug::readline, one turn: it ends with a newline or at the limit, and then puts the
\* end of the string over the last byte.
ReadByte ==
  LET b == Head(incoming) IN
    /\ limit # -1 /\ incoming # <<>>
    /\ incoming' = Tail(incoming)
    /\ IF b # NL /\ Len(line) + 1 < limit
       THEN line' = Append(line, b) /\ UNCHANGED <<limit, linesRead>>
       ELSE /\ linesRead' = Append(linesRead, [text |-> line, last |-> b, limit |-> limit])
            /\ limit' = -1 /\ line' = <<>>
    /\ UNCHANGED <<machine, drawing, screenVars, serialVars, reply, overrun>>

TextNext == DrawOnScreen \/ DrawOnLine \/ Transmit \/ Receive \/ CallReadLine \/ ReadByte

-----------------------------------------------------------------------------
\* The screen shows each line in a row of its own until it is full; then the lines go
\* in turn to the last row and to the one below it, which no screen shows, and never
\* further (text.cpp:9-28).
RowsShown ==
  \A i \in DOMAIN glyphs :
    LET n == glyphs[i].line IN
      glyphs[i].cell \div TextWidth =
        IF n <= TextHeight THEN n ELSE TextHeight - 1 + ((n - TextHeight + 1) % 2)

\* What is drawn on the line arrives, all of it and in order (debug.cpp:35-40); what is
\* sent is in the lines that readline returns, in order, but for the newlines, the last
\* byte of a line that was cut, and what was dropped; a line fits its buffer, unless
\* that has no room for its end (debug.cpp:42-52).
LineRight ==
  /\ machine = "rpi" => arrived \o outgoing \o drawing \in Drawings
  /\ ~overrun => FlattenSeq([i \in DOMAIN linesRead |-> Append(linesRead[i].text, linesRead[i].last)])
                   \o line \o incoming \o reply \in Replies
  /\ \A i \in DOMAIN linesRead :
       LET l == linesRead[i] IN
         /\ \A k \in DOMAIN l.text : l.text[k] # NL
         /\ l.last # NL => Len(l.text) + 1 = l.limit \/ l.limit = 0
         /\ Len(l.text) + 1 <= l.limit \/ l.limit = 0

TextOutRight == RowsShown /\ LineRight
=============================================================================
