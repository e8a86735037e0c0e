----------------------------- MODULE MCLibrary -----------------------------
(***************************************************************************)
(* The kernel above its drivers for TLC, one part in each behaviour: a font*)
(* file that is loaded, a string that is edited, keys typed at the shell,  *)
(* a call of printf or hexdump, a vectormap, shared_ptrs, functions of the *)
(* C library, windows, and the text screen and serial line.                *)
(*                                                                         *)
(* Letters are the first and the last code points of each length in UTF-8. *)
(* The screen has three columns and two rows, and a strip beside and below *)
(* that no glyph fits in.                                                  *)
(***************************************************************************)
EXTENDS MCFontFile, Screen, Printing, Containers, CStrings, Windows, TextOut

VARIABLE part

libraryVars == <<part, fontVars, strVars, shellVars, printVars, contVars, cstrVars, uiVars, textVars>>

MCLetters == {127, 128, 2047, 2048, 65535, 65536, 1114111}
MCAtZero == <<83, 255>>

MCKeys == {97, 233}
MCPrompt == <<36>>
MCAnswers == {<<10>>, <<98, 10, 98, 98, 98, 98>>}

\* "a", a conversion, "b", a conversion; a string, a conversion printf may not know, a
\* number; a format that ends in a conversion.
Converts(prefix, length, c) == <<Percent>> \o prefix \o length \o <<c>>
MCFormats ==
  {[fmt |-> <<97>> \o Converts(p, l, c) \o <<98>> \o Converts(<<>>, <<>>, d), args |-> <<<<v>>, <<w>>>>] :
     p \in {<<>>, <<Zero>>, <<Space>>}, l \in {<<>>, <<Zero + 2>>, <<Zero + 5>>},
     c \in {117, 100, 88, 99}, d \in {100, 112},
     v \in {0, 9, 10, 255, 511, 512, 513, 1023}, w \in {7, 1000}}
  \cup {[fmt |-> Converts(<<>>, <<>>, 115) \o Converts(<<>>, l, c) \o Converts(<<>>, <<>>, 100),
         args |-> <<<<104, 105>>, <<5>>, <<6>>>>] : l \in {<<>>, <<Zero + 1, Zero>>}, c \in {120, Percent, 100}}
  \cup {[fmt |-> <<97, Percent>> \o e, args |-> <<>>] : e \in {<<>>, <<Zero>>, <<Space, Zero + 2>>}}
\* The end of a string, the sign, a digit, and a byte that is negative.
MCBytes == {0, 45, 49, -61}

\* A window that is in the frame in part, with one that is; the first has its corner at
\* the frame's, the second is beyond it on the left.
MCShapes == {[x |-> 3, y |-> 2, w |-> 3, h |-> 2, color |-> <<4, 4, 0>>],
             [x |-> 0, y |-> 1, w |-> 3, h |-> 3, color |-> <<1, 2, 3>>]}

\* Eight lines, one of them as wide as the screen; a line that fits, longer ones, an
\* empty one.
MCDrawings == {<<>>, <<65, 66, 67, 10, 65, 10, 10, 66, 10, 67, 67, 66, 66, 65>>}
MCReplies == {<<>>, <<65, 66, 10, 65, 65, 66, 10, 67, 10>>}

MCDumps == {[i \in 1 .. n |-> (i * 37 + 200) % 256] : n \in {0, 1, 8, 9, 16, 17, 40}}

\* The parts that do not run are as they are at the simplest of their starts.
Init ==
  /\ part \in {"font", "string", "shell", "printing", "vector", "pointers", "c", "windows", "output"}
  /\ IF part = "font" THEN TRUE ELSE text = Plain.text
  /\ FontInit
  /\ IF part = "printing" THEN TRUE ELSE fmt = <<>> /\ dump = <<>>
  /\ PrintInit
  /\ IF part = "c" THEN TRUE ELSE cell = [i \in 1 .. Cells |-> 0] /\ call = [fn |-> "strlen", p |-> 1, q |-> 1, n |-> 0]
  /\ CstrInit
  /\ IF part = "windows" THEN TRUE ELSE belowZero = 0
  /\ UiInit
  /\ IF part = "output" THEN TRUE ELSE machine = "pc" /\ drawing = <<>>
  /\ TextInit
  /\ StrInit /\ ShellInit /\ ContInit

OnFont ==
  part = "font" /\ FontNext /\ UNCHANGED <<part, strVars, shellVars, printVars, contVars, cstrVars, uiVars, textVars>>
OnString ==
  part = "string" /\ StrNext /\ UNCHANGED <<part, fontVars, shellVars, printVars, contVars, cstrVars, uiVars, textVars>>
OnShell ==
  part = "shell" /\ ShellNext /\ UNCHANGED <<part, fontVars, strVars, printVars, contVars, cstrVars, uiVars, textVars>>
OnPrinting ==
  part = "printing" /\ PrintNext /\ UNCHANGED <<part, fontVars, strVars, shellVars, contVars, cstrVars, uiVars, textVars>>
OnVector ==
  part = "vector" /\ VecNext /\ UNCHANGED <<part, fontVars, strVars, shellVars, printVars, cstrVars, uiVars, textVars>>
OnPointers ==
  part = "pointers" /\ PtrNext /\ UNCHANGED <<part, fontVars, strVars, shellVars, printVars, cstrVars, uiVars, textVars>>
OnC ==
  part = "c" /\ CstrNext /\ UNCHANGED <<part, fontVars, strVars, shellVars, printVars, contVars, uiVars, textVars>>
OnWindows ==
  part = "windows" /\ UiNext /\ UNCHANGED <<part, fontVars, strVars, shellVars, printVars, contVars, cstrVars, textVars>>
OnOutput ==
  part = "output" /\ TextNext /\ UNCHANGED <<part, fontVars, strVars, shellVars, printVars, contVars, cstrVars, uiVars>>

Next ==
  \/ OnFont \/ OnString \/ OnShell \/ OnPrinting \/ OnVector \/ OnPointers
  \/ OnC \/ OnWindows \/ OnOutput

\* The thread that loads a font goes on.  Nobody has to type or to edit.
Spec == Init /\ [][Next]_libraryVars /\ WF_libraryVars(OnFont)

-----------------------------------------------------------------------------
\* A font file, damaged or not, is read as it is written, an undamaged one loads, one
\* that was cut never does, and the nodes are given back (Font.cpp:19-51).
FontRight == ReadAsWritten /\ FontsLoad /\ CutNeverLoads /\ NodesGivenBack

\* The constructor of Font comes to an end (Xml.cpp:94).
FontEnds == part = "font" => ConstructorEnds

\* The screen shows the end of what was written, and the line that Enter runs
\* (Console.cpp:13-47, Shell.cpp:27-53).
ConsoleRight == ShowsTheEnd /\ LineAsShown

\* Strings hold the text that was put in, C++ and C (libc/string, libc/string.cpp,
\* libc/stdlib.cpp).
StringsRight == StringIsText /\ CStringsRight

\* Text is printed as it should be, and arrives at the screen or the line (printf.cpp,
\* text.cpp, debug.cpp).
OutputRight == PrintedRight /\ TextOutRight
=============================================================================
