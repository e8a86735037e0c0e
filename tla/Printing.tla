------------------------------ MODULE Printing ------------------------------
(***************************************************************************)
(* The debug output of the kernel: printf and hexdump (libc/printf.cpp).   *)
(* A step is a character of the format, or a conversion with its argument; *)
(* of hexdump, a line.  Characters are their codes.                        *)
(***************************************************************************)
EXTENDS Integers, Sequences, FiniteSets, SequencesExt

CONSTANTS
  Words,     \* values of an argument: 2^32
  Formats,  \* calls of printf: [fmt, args]; an argument is a sequence, that of a number
            \* has the number in it and that of a string its characters
  Dumps,    \* the buffers that are dumped
  LineBytes \* bytes of a line: 16

ASSUME PrintingAssumption ==
  /\ Words \in Nat \ {0} /\ Words % 2 = 0 /\ LineBytes \in Nat \ {0}
  /\ \A f \in Formats : \A i \in DOMAIN f.args :
       f.args[i] # <<>> /\ Range(f.args[i]) \subseteq 0 .. Words - 1
  /\ \A d \in Dumps : \A i \in DOMAIN d : d[i] \in 0 .. 255

Space == 32
Percent == 37
Minus == 45
Dot == 46
Zero == 48
Bar == 124
Conversion == [number |-> {117, 100, 88, 112}, signed |-> {100}, hex |-> {88, 112}, char |-> {99}, text |-> {115}]

VARIABLES
  fmt, args,  \* the call of printf
  pos,         \* start + len
  taken,      \* the arguments that va_arg has given
  out,        \* what was drawn
  fields,     \* history: of every conversion, what it drew of what
  dump, lines, \* the call of hexdump, and its lines so far
  going       \* FALSE: the call has returned, or runs behind the format's end

printVars == <<fmt, args, pos, taken, out, fields, dump, lines, going>>

PrintInit ==
  /\ \/ \E f \in Formats : fmt = f.fmt /\ args = f.args /\ dump = <<>>
     \/ fmt = <<>> /\ args = <<>> /\ dump \in Dumps
  /\ pos = 1 /\ taken = 0 /\ out = <<>> /\ fields = <<>> /\ lines = <<>> /\ going = TRUE

-----------------------------------------------------------------------------
Digit(d) == IF d > 9 THEN d + 55 ELSE d + Zero

\* The loop `while (val > 0)`: no digit of zero.
DigitsOf(value, radix) ==
  LET from[v \in 0 .. value] ==
        IF v = 0 THEN <<>> ELSE Append(from[v \div radix], Digit(v % radix))
  IN from[value]

\* A defect: the sign counts.
PaddedWithin(digits, prefix, length, sign) ==
  sign \o [i \in 1 .. length - Len(digits) - Len(sign) |-> prefix] \o digits

\* `while (offs > 39 - minLen)`, then the sign.
Padded(digits, prefix, length, sign) ==
  sign \o [i \in 1 .. length - Len(digits) |-> prefix] \o digits

\* '%' at i: a zero or a space, one digit, and the conversion.
Flag(i) == IF i + 1 \in DOMAIN fmt THEN fmt[i + 1] ELSE 0
Prefixed(i) == Flag(i) \in {Zero, Space}
Prefix(i) == IF Flag(i) = Space THEN Space ELSE Zero
LengthAt(i) == IF Prefixed(i) THEN i + 2 ELSE i + 1
Numbered(i) == LengthAt(i) \in DOMAIN fmt /\ fmt[LengthAt(i)] \in Zero .. Zero + 9
MinLen(i) == IF Numbered(i) THEN fmt[LengthAt(i)] - Zero ELSE 1
ConversionOf(i) == IF Numbered(i) THEN LengthAt(i) + 1 ELSE LengthAt(i)

Signed(v) == IF v < Words \div 2 THEN v ELSE v - Words

Magnitude(v) == IF Signed(v) < 0 THEN -Signed(v) ELSE v

Number(c, prefix, length, v) ==
  IF c \in Conversion.signed
  THEN Padded(DigitsOf(Magnitude(v), 10), prefix, length, IF Signed(v) < 0 THEN <<Minus>> ELSE <<>>)
  ELSE Padded(DigitsOf(v, IF c \in Conversion.hex THEN 16 ELSE 10), prefix, length, <<>>)

\* What a conversion draws of its argument, %c and %s without a prefix or a length.
Drawn(c, prefix, length, v) ==
  IF c \in Conversion.number THEN Number(c, prefix, length, v[1])
  ELSE IF c \in Conversion.char THEN <<v[1]>> ELSE v

\* Characters between conversions.
PrintChar ==
  /\ going /\ dump = <<>> /\ pos \in DOMAIN fmt /\ fmt[pos] # Percent
  /\ out' = Append(out, fmt[pos]) /\ pos' = pos + 1
  /\ UNCHANGED <<fmt, args, taken, fields, dump, lines, going>>

\* A conversion.  One that is not known draws nothing and leaves its argument to the
\* next; one that is not there is looked for, and passed, at the end of the format.
Convert ==
  /\ going /\ dump = <<>> /\ pos \in DOMAIN fmt /\ fmt[pos] = Percent
  /\ LET e == ConversionOf(pos) IN
       /\ pos' = e + 1
       /\ IF e \notin DOMAIN fmt THEN going' = FALSE /\ UNCHANGED <<taken, out, fields>>
          ELSE IF fmt[e] \notin UNION {Conversion[k] : k \in DOMAIN Conversion}
          THEN UNCHANGED <<taken, out, fields, going>>
          ELSE LET drawn == Drawn(fmt[e], Prefix(pos), MinLen(pos), args[taken + 1]) IN
            /\ taken' = taken + 1
            /\ out' = out \o drawn
            /\ fields' = Append(fields, [conv |-> fmt[e], prefix |-> Prefix(pos),
                                         length |-> MinLen(pos), drawn |-> drawn])
            /\ UNCHANGED going
  /\ UNCHANGED <<fmt, args, dump, lines>>

-----------------------------------------------------------------------------
(* hexdump *)

isprint(b) == b \in 32 .. 126
HexField(b) == Number(88, Zero, 2, b) \o <<Space>>

\* The bytes from one offset on: in numbers, with a gap in the middle, and as text.
HexLine(from) ==
  LET byte(ch) == from + ch + 1 IN
    FlattenSeq([ch \in 1 .. LineBytes |->
                  (IF byte(ch - 1) \in DOMAIN dump THEN HexField(dump[byte(ch - 1)])
                   ELSE <<Space, Space, Space>>)
                  \o (IF ch = LineBytes \div 2 THEN <<Space>> ELSE <<>>)])
    \o <<Space, Bar>>
    \o [ch \in 1 .. LineBytes |->
          IF byte(ch - 1) \notin DOMAIN dump THEN Space
          ELSE IF isprint(dump[byte(ch - 1)]) THEN dump[byte(ch - 1)] ELSE Dot]
    \o <<Bar>>

HexDump ==
  /\ going /\ Len(lines) * LineBytes < Len(dump)
  /\ lines' = Append(lines, HexLine(Len(lines) * LineBytes))
  /\ UNCHANGED <<fmt, args, pos, taken, out, fields, dump, going>>

PrintNext == PrintChar \/ Convert \/ HexDump

-----------------------------------------------------------------------------
DigitsIn(text) == SelectSeq(text, LAMBDA c : c \notin {Space, Minus})
ValueOf(text, radix) ==
  FoldLeft(LAMBDA n, c : n * radix + (IF c > Zero + 9 THEN c - 55 ELSE c - Zero), 0, DigitsIn(text))
Negative(text) == \E i \in DOMAIN text : text[i] = Minus

\* What is drawn of a number can be read: it is the value of the argument whose turn it
\* is, with a sign where it is negative, no digit too many, and as wide as was asked
\* for, the sign not counted; but of zero after spaces only spaces are left, and a
\* conversion that printf does not know takes no turn (printf.cpp:32-150).
NumbersRead ==
  \A k \in DOMAIN fields :
    LET f == fields[k]
        v == args[k][1]
        radix == IF f.conv \in Conversion.hex THEN 16 ELSE 10
        signed == f.conv \in Conversion.signed
        value == (IF Negative(f.drawn) THEN -1 ELSE 1) * ValueOf(f.drawn, radix)
        minus == IF Negative(f.drawn) THEN 1 ELSE 0
    IN f.conv \in Conversion.number =>
         /\ value = IF signed THEN Signed(v) ELSE v
         /\ v = 0 /\ f.prefix = Space => DigitsIn(f.drawn) = <<>>
         /\ Len(f.drawn) >= f.length + minus
         /\ Len(f.drawn) > f.length + minus => f.drawn[minus + 1] \notin {Zero, Space}

\* A dump shows every byte of the buffer once, in its column, as a number and as a
\* character if it is one, and all lines have one width (printf.cpp:9-30).
DumpsAligned ==
  /\ \A i, j \in DOMAIN lines : Len(lines[i]) = Len(lines[j])
  /\ Len(lines) * LineBytes < Len(dump) + LineBytes
  /\ \A n \in DOMAIN dump :
       (n - 1) \div LineBytes < Len(lines) =>
         LET l == lines[(n - 1) \div LineBytes + 1]
             c == (n - 1) % LineBytes
             x == 3 * c + (IF c >= LineBytes \div 2 THEN 1 ELSE 0)
         IN /\ ValueOf(SubSeq(l, x + 1, x + 2), 16) = dump[n]
            /\ l[3 * LineBytes + 4 + c] = IF isprint(dump[n]) THEN dump[n] ELSE Dot

PrintedRight == NumbersRead /\ DumpsAligned
=============================================================================
