------------------------------- MODULE Windows -------------------------------
(***************************************************************************)
(* Windows (common/ui.h, ui.cpp, visitor.cpp) and the variables their      *)
(* places are in (Var.h): handles on objects that count them, where the    *)
(* count begins with whatever the heap had there.                          *)
(*                                                                         *)
(* x of a window is such a variable here, as its y, w and h are in the     *)
(* code; a client may give two windows one variable.  The frame is cells   *)
(* of memory, row after row, and what is painted before or behind it is    *)
(* painted over something else.                                            *)
(***************************************************************************)
EXTENDS Integers, Sequences, FiniteSets

CONSTANTS
  FrameWidth, FrameHeight,
  Shapes,     \* what windows are made with: [x, y, w, h, color], a colour in quarters of
              \* red, green and blue
  Places,     \* other values of x
  Counts,     \* values of a reference count: 2^64
  Leftovers,  \* what the heap may have where a count is put
  MaxWindows, MaxObjects, MaxCalls \* bounds

ASSUME WindowsAssumption ==
  /\ {FrameWidth, FrameHeight, Counts} \subseteq Nat \ {0} /\ {MaxWindows, MaxObjects, MaxCalls} \subseteq Nat
  /\ Leftovers \subseteq 0 .. Counts - 1 /\ MaxWindows + 1 < Counts
  /\ \A s \in Shapes : {s.w, s.h} \subseteq Nat /\ {s.x, s.y} \subseteq Int /\ s.color \in [1 .. 3 -> 0 .. 4]
  /\ Places \subseteq Int

VARIABLES
  varObj,   \* the objects behind variables: [value, count, began, freed]
  windows,  \* the elements of UIRoot: [x, y, w, h, color, live], x a place in varObj
  painted,  \* cell -> colour
  dangling, \* history: a draw has read a window or a variable that was deleted
  inside,   \* history: the cells of the frame inside a window that was drawn
  offCorner, \* history: a window was drawn whose corner is less than half a pixel inside
             \* of the frame
  belowZero, \* what a conversion of -1 to a byte gives: 255 on a PC, 0 on a Raspberry Pi
  uiCalls

uiVars == <<varObj, windows, painted, dangling, inside, offCorner, belowZero, uiCalls>>

UiInit ==
  /\ varObj = <<>> /\ windows = <<>> /\ painted = [a \in {} |-> 0]
  /\ dangling = FALSE /\ inside = {} /\ offCorner = FALSE /\ uiCalls = 0
  /\ belowZero \in {0, 255}

-----------------------------------------------------------------------------
(* Var. *)

AddRef(vs, o) == [vs EXCEPT ![o].count = (@ + 1) % Counts]
DecRef(vs, o) ==
  [vs EXCEPT ![o].count = (@ - 1) % Counts, ![o].freed = @ \/ vs[o].count = 1]

\* Var(value): the constructors leave refcount as it is.
NewVar(vs, value, left) ==
  AddRef(Append(vs, [value |-> value, count |-> left, began |-> left, freed |-> FALSE]), Len(vs) + 1)

\* A defect: the old object is let go of before the new one is held.
AssignDropFirst(vs, old, new) == AddRef(DecRef(vs, old), new)

\* operator=
Assign(vs, old, new) == DecRef(AddRef(vs, new), old)

\* Assignment of a value: a variable is made of it that lives as long as the statement.
AssignValue(vs, old, value, left) ==
  LET new == Len(vs) + 1 IN DecRef(Assign(NewVar(vs, value, left), old, new), new)

-----------------------------------------------------------------------------
(* Painting. *)

Floor(n, d) == n \div d
Ceiling(n, d) == -((-n) \div d)
\* ceil of math.h, which rounds down below zero; so round, of the fraction n / d, makes
\* -1 of 0.
ceil(n, d) == IF n < 0 THEN Floor(n, d) ELSE Ceiling(n, d)
round(n, d) == ceil(IF n < 0 THEN 2 * n + d ELSE 2 * n - d, 2 * d)

\* Color::toInt; a channel is in quarters.
Channel(q) == IF round(q * 255, 4) < 0 THEN belowZero ELSE round(q * 255, 4)
toInt(c) == Channel(c[1]) * 65536 + Channel(c[2]) * 256 + Channel(c[3])

\* The upper left corner, from a place that is the middle.
CornerX(win, vs) == round(2 * vs[win.x].value - win.w, 2)
CornerY(win) == round(2 * win.y - win.h, 2)

\* std::min(size - from, length), where a place before or behind the frame wraps round.
Clipped(size, from, length) ==
  IF from > size \/ size - from > length THEN length ELSE size - from

\* draw_square: every turn of its outer loop paints the first line.
Square(x, y, w, h) ==
  IF Clipped(FrameHeight, y, h) = 0 THEN {}
  ELSE {y * FrameWidth + x + i : i \in 0 .. Clipped(FrameWidth, x, w) - 1}

Paint(p, cells, color) ==
  [a \in DOMAIN p \cup cells |-> IF a \in cells THEN color ELSE p[a]]

\* The cells of the frame that a window is meant to cover, and whether its corner is
\* well inside.
Area(win, vs) ==
  LET x == (2 * vs[win.x].value - win.w) \div 2  y == (2 * win.y - win.h) \div 2 IN
    {b * FrameWidth + a : a \in {c \in x .. x + win.w - 1 : c \in 0 .. FrameWidth - 1},
                          b \in {c \in y .. y + win.h - 1 : c \in 0 .. FrameHeight - 1}}
WellInside(win, vs) ==
  2 * vs[win.x].value - win.w \in 1 .. 2 * FrameWidth /\ 2 * win.y - win.h \in 1 .. 2 * FrameHeight

-----------------------------------------------------------------------------
UiCall == uiCalls < MaxCalls /\ uiCalls' = uiCalls + 1 /\ UNCHANGED belowZero
NotDrawn == UNCHANGED <<painted, dangling, inside, offCorner>>

\* Window::Window: x is made with 0, and then assigned.
NewWindow(s, left) ==
  /\ UiCall /\ NotDrawn
  /\ Len(windows) < MaxWindows /\ Len(varObj) + 1 < MaxObjects
  /\ varObj' = AssignValue(NewVar(varObj, 0, left), Len(varObj) + 1, s.x, left)
  /\ windows' = Append(windows, [x |-> Len(varObj) + 2, y |-> s.y, w |-> s.w, h |-> s.h, color |-> s.color, live |-> TRUE])

Live(i) == i \in DOMAIN windows /\ windows[i].live

\* A client gives a window another place, or the variable of another window.
MoveTo(i, x, left) ==
  /\ UiCall /\ NotDrawn /\ Live(i) /\ Len(varObj) < MaxObjects
  /\ varObj' = AssignValue(varObj, windows[i].x, x, left)
  /\ windows' = [windows EXCEPT ![i].x = Len(varObj')]

ShareX(i, j) ==
  /\ UiCall /\ NotDrawn /\ Live(i) /\ Live(j)
  /\ varObj' = Assign(varObj, windows[i].x, windows[j].x)
  /\ windows' = [windows EXCEPT ![i].x = windows[j].x]

\* ~Window: UIRoot keeps its pointer.
DeleteWindow(i) ==
  /\ UiCall /\ NotDrawn /\ Live(i)
  /\ varObj' = DecRef(varObj, windows[i].x)
  /\ windows' = [windows EXCEPT ![i].live = FALSE]

\* UIRoot::Draw with DrawVisitor: the windows, in the order they were made.
Readable(i) == windows[i].live /\ ~varObj[windows[i].x].freed
Draw ==
  LET after[i \in 0 .. Len(windows)] ==
        IF i = 0 THEN painted
        ELSE LET w == windows[i] IN
               Paint(after[i - 1], Square(CornerX(w, varObj), CornerY(w), w.w, w.h), toInt(w.color))
  IN
    /\ UiCall
    /\ IF \A i \in DOMAIN windows : Readable(i)
       THEN /\ painted' = after[Len(windows)]
            /\ inside' = inside \cup UNION {Area(windows[i], varObj) : i \in DOMAIN windows}
            /\ offCorner' = (offCorner \/ \E i \in DOMAIN windows : ~WellInside(windows[i], varObj))
            /\ UNCHANGED dangling
       ELSE dangling' = TRUE /\ UNCHANGED <<painted, inside, offCorner>>
    /\ UNCHANGED <<varObj, windows>>

UiNext ==
  /\ ~dangling
  /\ \/ \E s \in Shapes, l \in Leftovers : NewWindow(s, l)
     \/ \E i \in DOMAIN windows, x \in Places, l \in Leftovers : MoveTo(i, x, l)
     \/ \E i, j \in DOMAIN windows : ShareX(i, j)
     \/ \E i \in DOMAIN windows : DeleteWindow(i)
     \/ Draw

-----------------------------------------------------------------------------
HandlesOf(o) == {i \in DOMAIN windows : windows[i].live /\ windows[i].x = o}

\* However windows share, swap and drop their variables, one to itself included, an
\* object whose count began at 0 lives as long as a handle is on it and no longer; one
\* that began with what the heap had stays for ever, or, if that was within reach of
\* the last value of a count, may go while it is in use (Var.h:6-24, 39-61).
VarsLive ==
  \A o \in DOMAIN varObj :
    /\ varObj[o].began = 0 => (varObj[o].freed <=> HandlesOf(o) = {})
    /\ varObj[o].freed => varObj[o].began = 0 \/ varObj[o].began + MaxWindows + 1 >= Counts
    /\ varObj[o].count = (varObj[o].began + Cardinality(HandlesOf(o))) % Counts

\* A draw uses what is there, unless a window was deleted, which UIRoot does not notice
\* (ui.h:45-47), or a variable went early.
DrawsWhatIs ==
  dangling => \/ \E i \in DOMAIN windows : ~windows[i].live
              \/ \E o \in DOMAIN varObj : varObj[o].began + MaxWindows + 1 >= Counts

\* Nothing outside of a window is painted while every corner is half a pixel or more
\* inside the frame (ui.cpp:25-28, Framebuffer.cpp:30-38), and every channel of a colour
\* is as near as a byte can be; but on a PC one of 0 is 255 (math.h:4-16).
PaintsInside ==
  /\ ~offCorner => DOMAIN painted \subseteq inside
  /\ \A a \in DOMAIN painted : \E i \in DOMAIN windows : \A k \in 1 .. 3 :
       LET channel == (painted[a] \div <<65536, 256, 1>>[k]) % 256 IN
         IF windows[i].color[k] = 0 THEN channel = belowZero
         ELSE 4 * channel - windows[i].color[k] * 255 \in -2 .. 2

WindowsRight == VarsLive /\ DrawsWhatIs /\ PaintsInside
=============================================================================
