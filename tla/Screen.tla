------------------------------- MODULE Screen -------------------------------
(***************************************************************************)
(* The shell's side of the machine: the console it writes to (Console.cpp),*)
(* the framebuffer the console draws on (Framebuffer.cpp, bga.cpp), and    *)
(* the line it takes from the keyboard (Shell.cpp).                        *)
(*                                                                         *)
(* Every glyph of the fixed-width font fills its cell.  A pixel is its     *)
(* place in a glyph, or Blank.                                             *)
(***************************************************************************)
EXTENDS Utf8String

CONSTANTS
  Width, Height,          \* of the screen, in pixels: 1280 and 720
  Pitch,                  \* pixels from one line to the next: Width on a PC
  GlyphWidth, GlyphHeight,
  Keys,                   \* the characters that are typed, but for the two below
  Prompt,                 \* what is written before a line
  Answers,                \* what commands may write
  MaxKeys                 \* bound: keys of one behaviour

NewLine == 10
BackSpace == 8

ASSUME ScreenAssumption ==
  /\ {Width, Height, Pitch, GlyphWidth, GlyphHeight, MaxKeys} \subseteq Nat
  /\ 0 < GlyphWidth /\ GlyphWidth <= Width /\ Width <= Pitch
  /\ 0 < GlyphHeight /\ GlyphHeight <= Height
  /\ {BackSpace, NewLine} \cap Keys = {} /\ Keys \subseteq CodePoints
  /\ Answers \cup {Prompt} \subseteq Seq(Nat \ {0})

\* Console::Console
Columns == Width \div GlyphWidth
Rows == Height \div GlyphHeight

VARIABLES
  screen,   \* the console: the frame, x, y
  command,  \* currentCmd
  keys,     \* number of keys typed
  paper,    \* history: what was written, on paper without an end: marks by place, x, y
  asTyped,  \* history: the characters of the command, as typed
  slipped,  \* history: on this line, backspace was typed at the left edge
  early     \* history: the string of the command had no character when it lost one, or no
            \* buffer when it was cleared

shellVars == <<screen, command, keys, paper, asTyped, slipped, early>>

-----------------------------------------------------------------------------
(* The framebuffer. *)

Blank == <<>>
Pixel(c, i, j) == <<c, i, j>>

\* getBufferLine
BufferLine(y) == Pitch * y

Frame == 0 .. Pitch * Height - 1
At(x, y) == BufferLine(y) + x

\* draw_text of one character, which is draw_image of its glyph; none is drawn of zero,
\* which ends the text.  It is cut off at the edges.
DrawText(frame, c, x, y) ==
  LET w == Min({Width - x, GlyphWidth})
      h == Min({Height - y, GlyphHeight})
  IN IF c = 0 THEN frame
     ELSE [a \in Frame |->
             LET i == (a % Pitch) - x
                 j == (a \div Pitch) - y
             IN IF i \in 0 .. w - 1 /\ j \in 0 .. h - 1 THEN Pixel(c, i, j) ELSE frame[a]]

\* scrollup: line by line, as wide as the screen is; the lines that come up are cleared.
ScrollUp(frame, n) ==
  [a \in Frame |->
     IF a % Pitch >= Width THEN frame[a]
     ELSE IF a \div Pitch < Height - n THEN frame[a + BufferLine(n)]
     ELSE Blank]

-----------------------------------------------------------------------------
(* The console. *)

SetChar(s, c) == [s EXCEPT !.frame = DrawText(@, c, s.x * GlyphWidth, s.y * GlyphHeight)]

\* A defect: the cursor does not stay in the last row.
NextRowOver(s) ==
  IF s.y + 1 = Rows
  THEN [s EXCEPT !.x = 0, !.frame = ScrollUp(@, GlyphHeight), !.y = 0]
  ELSE [s EXCEPT !.x = 0, !.y = @ + 1]

NextRow(s) ==
  IF s.y + 1 = Rows
  THEN [s EXCEPT !.x = 0, !.frame = ScrollUp(@, GlyphHeight)]
  ELSE [s EXCEPT !.x = 0, !.y = @ + 1]

\* One turn of printtext.  A backspace stays in its row, and draws nothing.
PutChar(s, c) ==
  CASE c = BackSpace -> [SetChar(s, 0) EXCEPT !.x = IF @ > 0 THEN @ - 1 ELSE @]
    [] c = NewLine -> NextRow(s)
    [] OTHER -> LET drawn == [SetChar(s, c) EXCEPT !.x = @ + 1]
                IN IF drawn.x = Columns THEN NextRow(drawn) ELSE drawn

PrintText(s, text) ==
  LET turn[i \in 0 .. Len(text)] == IF i = 0 THEN s ELSE PutChar(turn[i - 1], text[i]) IN turn[Len(text)]

\* What was written, on paper without an end: where a text puts the pen, and what it
\* leaves in each place.
PutDown(p, c) ==
  CASE c = BackSpace -> [p EXCEPT !.x = IF @ = 0 THEN 0 ELSE @ - 1]
    [] c = NewLine -> [p EXCEPT !.x = 0, !.y = @ + 1]
    [] OTHER ->
         [marks |-> [q \in DOMAIN p.marks \cup {<<p.x, p.y>>} |-> IF q = <<p.x, p.y>> THEN c ELSE p.marks[q]],
          x |-> IF p.x + 1 = Columns THEN 0 ELSE p.x + 1,
          y |-> IF p.x + 1 = Columns THEN p.y + 1 ELSE p.y]
PenAfter(p, text) ==
  LET turn[i \in 0 .. Len(text)] == IF i = 0 THEN p ELSE PutDown(turn[i - 1], text[i]) IN turn[Len(text)]

-----------------------------------------------------------------------------
(* The shell. *)

Show(text) == screen' = PrintText(screen, text) /\ paper' = PenAfter(paper, text)

\* The constructor ends with a prompt.
ShellInit ==
  /\ screen = PrintText([frame |-> [a \in Frame |-> Blank], x |-> 0, y |-> 0], Prompt)
  /\ paper = PenAfter([marks |-> <<>>, x |-> 0, y |-> 0], Prompt)
  /\ command = NoString
  /\ keys = 0 /\ asTyped = <<>> /\ slipped = FALSE /\ early = FALSE

\* What follows from a stray write is not followed.
Typed == ~command.stray /\ keys < MaxKeys /\ keys' = keys + 1

\* string(t) of the two words t = {c, 0} goes to the console.
Echo(c) == Show(Chars(FromCodes(<<c>>)))

TypeChar(c) ==
  /\ Typed
  /\ command' = PushBack(command, c)
  /\ Echo(c)
  /\ asTyped' = Append(asTyped, c)
  /\ UNCHANGED <<slipped, early>>

\* A backspace is not looked at: neither whether there is something to take back, nor
\* whether that is in the console's row.
TypeBackSpace ==
  /\ Typed
  /\ command' = PopBack(command)
  /\ Echo(BackSpace)
  /\ slipped' = (slipped \/ screen.x = 0)
  /\ early' = (early \/ asTyped = <<>>)
  /\ asTyped' = IF asTyped = <<>> THEN <<>> ELSE Front(asTyped)

\* The command writes what it writes; then there is a new line.
TypeNewLine(answer) ==
  /\ Typed
  /\ Show(<<NewLine>> \o answer \o Prompt)
  /\ command' = Clear(command)
  /\ early' = (early \/ command.null)
  /\ asTyped' = <<>> /\ slipped' = FALSE

ShellNext ==
  \/ \E c \in Keys : TypeChar(c)
  \/ TypeBackSpace
  \/ \E answer \in Answers : TypeNewLine(answer)

-----------------------------------------------------------------------------
\* The screen shows the last rows of all that was written, each glyph whole and in its
\* place, and nothing else, however often it scrolled; the cursor is where the pen is,
\* and never outside (Console.cpp:13-47, Framebuffer.cpp:18-48).
ShowsTheEnd ==
  LET top == paper.y - screen.y
      mark(x, y) == IF <<x, y>> \in DOMAIN paper.marks THEN paper.marks[<<x, y>>] ELSE 0
  IN /\ screen.x = paper.x /\ screen.x < Columns
     /\ screen.y = Min({paper.y, Rows - 1})
     /\ \A a \in Frame :
          LET i == a % Pitch
              j == a \div Pitch
              m == mark(i \div GlyphWidth, top + (j \div GlyphHeight))
          IN screen.frame[a] =
               IF m = 0 \/ i >= Columns * GlyphWidth \/ j >= Rows * GlyphHeight THEN Blank
               ELSE Pixel(m, i % GlyphWidth, j % GlyphHeight)

\* The cell k places before the cursor.
CellBack(k) ==
  LET n == screen.y * Columns + screen.x - k IN
    screen.frame[At((n % Columns) * GlyphWidth, (n \div Columns) * GlyphHeight)]

\* The command that Enter will run is the one that is seen before the cursor, as far as
\* it has not scrolled away, unless backspace was typed at the left edge, where the
\* command loses a character and the screen does not; and no write goes astray unless
\* backspace is typed on an empty line or Enter before anything else
\* (Shell.cpp:27-53, string:137-143).
LineAsShown ==
  /\ command.stray => early
  /\ ~command.stray => Chars(command) = asTyped
  /\ ~command.stray /\ ~slipped =>
       \A k \in DOMAIN asTyped :
         k <= screen.y * Columns + screen.x =>
           CellBack(k) = Pixel(asTyped[Len(asTyped) + 1 - k], 0, 0)
=============================================================================
