------------------------------ MODULE CStrings ------------------------------
(***************************************************************************)
(* The C library's strings, memory and numbers (libc/string.cpp,           *)
(* libc/stdlib.cpp).  A function runs through bytes that start at cell 1;  *)
(* a step is one turn of its loop.  Bytes are signed characters, as on a   *)
(* PC; a turn that leaves the cells reads, or writes, what is not the      *)
(* caller's.                                                               *)
(***************************************************************************)
EXTENDS Integers, Sequences, FiniteSets, SequencesExt

CONSTANTS
  Bytes,      \* what a cell may hold
  Cells,      \* number of cells
  LongBits    \* bits of a long int

ASSUME CStringsAssumption ==
  /\ 0 \in Bytes /\ Bytes \subseteq -128 .. 127 /\ {Cells, LongBits} \subseteq Nat \ {0}

SignChar == 45
IsDigit(b) == b \in 48 .. 57

VARIABLES
  cell,     \* the bytes
  before,   \* what they were when the function was called
  call,     \* the call: [fn, p, q, n], two pointers and a count, a byte or a base
  turn,     \* turns its loop has made
  sum,      \* what it has counted, or will return
  negative, \* `negative` of strtol
  over      \* "no", "yes", or "outside"

cstrVars == <<cell, before, call, turn, sum, negative, over>>

Ranges == {"memmove", "memcmp", "memset"}
Strings == {"strlen", "strcmp", "strchr", "strrchr", "strcpy", "strdup", "strtol"}

IsText(m, p) == \E i \in p .. Cells : m[i] = 0
EndOf(m, p) == CHOOSE i \in p .. Cells : m[i] = 0 /\ \A j \in p .. i - 1 : m[j] # 0

\* What a caller gives: ranges of the cells, strings that end, room for a copy.
Fits(m, c) ==
  /\ c.fn \in Ranges => c.p + c.n <= Cells + 1 /\ c.q + c.n <= Cells + 1
  /\ c.fn \in Strings \ {"strcpy"} => IsText(m, c.p)
  /\ c.fn \in {"strcmp", "strcpy"} => IsText(m, c.q)
  /\ c.fn = "strcpy" => c.p <= c.q
  /\ c.fn \notin {"memmove", "memcmp", "strcmp", "strcpy"} => c.q = 1
  /\ c.fn = "abs" => c.p = 1 /\ \A i \in 1 .. Cells : m[i] = 0

\* A count of cells, a byte to look for, a base, a number.
Longs == -2 ^ (LongBits - 1) .. 2 ^ (LongBits - 1) - 1
Arguments(fn) ==
  CASE fn \in Ranges -> 0 .. Cells
    [] fn \in {"strchr", "strrchr"} -> Bytes
    [] fn = "strtol" -> {10}
    [] fn = "abs" -> Longs
    [] OTHER -> {0}

\* strrchr begins at the last character, the others at the first; memmove at the end
\* that it does not overwrite.
CstrInit ==
  /\ cell \in [1 .. Cells -> Bytes] /\ before = cell
  /\ call \in UNION {[fn : {f}, p : 1 .. Cells, q : 1 .. Cells, n : Arguments(f)] : f \in Ranges \cup Strings \cup {"abs"}}
  /\ Fits(cell, call)
  /\ turn = 0 /\ sum = 0 /\ negative = FALSE /\ over = "no"

Turn(s) == sum' = s /\ turn' = turn + 1 /\ UNCHANGED <<cell, negative, over>>
Return(v) == sum' = v /\ over' = "yes" /\ UNCHANGED <<cell, turn, negative>>
Write(i, b) == cell' = [cell EXCEPT ![i] = b] /\ turn' = turn + 1 /\ UNCHANGED <<sum, negative, over>>
Running(fns) == over = "no" /\ call.fn \in fns /\ UNCHANGED <<before, call>>

NULL == 0

-----------------------------------------------------------------------------
StrLen ==
  /\ Running({"strlen"})
  /\ IF cell[call.p + turn] # 0 THEN Turn(sum + 1) ELSE Return(sum)

StrCmp ==
  LET a == cell[call.p + turn]  b == cell[call.q + turn] IN
    /\ Running({"strcmp"})
    /\ IF a # 0 /\ a = b THEN Turn(0) ELSE Return(a - b)

MemCmp ==
  /\ Running({"memcmp"})
  /\ IF turn = call.n THEN Return(0)
     ELSE LET a == cell[call.p + turn] % 256  b == cell[call.q + turn] % 256 IN
       IF a # b THEN Return(b - a) ELSE Turn(0)

StrChr ==
  LET s == call.p + turn IN
    /\ Running({"strchr"})
    /\ IF cell[s] # 0 /\ cell[s] # call.n THEN Turn(0)
       ELSE Return(IF cell[s] # 0 THEN s ELSE NULL)

\* The last character of an empty string is before it, and the search goes down from
\* there until it meets the byte.
StrRChr ==
  LET p == EndOf(cell, call.p) - 1 - turn IN
    /\ Running({"strrchr"})
    /\ IF p < call.p THEN over' = "outside" /\ UNCHANGED <<cell, turn, sum, negative>>
       ELSE IF cell[p] # call.n /\ call.p # p THEN Turn(0)
       ELSE Return(IF cell[p] = call.n THEN p ELSE NULL)

\* A defect: a move always starts with the first byte.
UpwardsAlways == TRUE
Upwards == call.p < call.q

\* The bytes are copied one at a time, and overlap.
MemMove ==
  LET k == IF Upwards THEN turn ELSE call.n - 1 - turn IN
    /\ Running({"memmove"})
    /\ IF turn = call.n THEN Return(0) ELSE Write(call.p + k, cell[call.q + k])

MemSet ==
  /\ Running({"memset"})
  /\ IF turn = call.n THEN Return(0) ELSE Write(call.p + turn, 49)

StrCpy ==
  LET b == cell[call.q + turn] IN
    /\ Running({"strcpy"})
    /\ cell' = [cell EXCEPT ![call.p + turn] = b]
    /\ IF b # 0 THEN turn' = turn + 1 /\ UNCHANGED over ELSE over' = "yes" /\ UNCHANGED turn
    /\ UNCHANGED <<sum, negative>>

\* A copy of the string and its end; `sum` is the room that malloc is asked for.
StrDup ==
  /\ Running({"strdup"})
  /\ Return(EndOf(cell, call.p) - call.p + 1)

Wrapped(v) == ((v + 2 ^ (LongBits - 1)) % (2 ^ LongBits)) - 2 ^ (LongBits - 1)

\* Signs may come anywhere among the digits, and the last stays.
StrToL ==
  LET b == cell[call.p + turn] IN
    /\ Running({"strtol"})
    /\ IF b = SignChar THEN negative' = TRUE /\ turn' = turn + 1 /\ UNCHANGED <<cell, sum, over>>
       ELSE IF IsDigit(b) THEN Turn(Wrapped(sum * call.n + b - 48))
       ELSE Return(IF negative THEN Wrapped(-sum) ELSE sum)

\* abs, labs and llabs: of the least number there is none.
Abs ==
  /\ Running({"abs"})
  /\ Return(IF call.n >= 0 THEN call.n ELSE Wrapped(-call.n))

CstrNext ==
  \/ StrLen \/ StrCmp \/ MemCmp \/ StrChr \/ StrRChr \/ MemMove \/ MemSet \/ StrCpy \/ StrDup \/ StrToL \/ Abs

-----------------------------------------------------------------------------
TextAt(p) == SubSeq(before, p, EndOf(before, p) - 1)
Slice(m, p, n) == SubSeq(m, p, p + n - 1)
ValueOfDigits(s) == FoldLeft(LAMBDA v, b : v * 10 + b - 48, 0, s)
Found(p, b) == {i \in p .. EndOf(before, p) - 1 : before[i] = b}
Kept(from, n) == \A i \in 1 .. Cells : i \notin from .. from + n - 1 => cell[i] = before[i]

\* What a call has written is what was in its source when it began, though the two
\* overlap, and nothing else is touched (string.cpp:51-83).
CopiesWhole ==
  over = "yes" =>
    CASE call.fn = "memmove" -> Slice(cell, call.p, call.n) = Slice(before, call.q, call.n) /\ Kept(call.p, call.n)
      [] call.fn = "memset" -> Slice(cell, call.p, call.n) = [i \in 1 .. call.n |-> 49] /\ Kept(call.p, call.n)
      [] call.fn = "strcpy" -> LET t == TextAt(call.q) \o <<0>> IN Slice(cell, call.p, Len(t)) = t /\ Kept(call.p, Len(t))
      [] OTHER -> cell = before

\* What a call answers: lengths, places, and 0 exactly for what is equal (the sign of
\* memcmp is the other way round, string.cpp:88); numbers with one sign in front, if
\* they fit; no sign, but for the least number, in abs; strrchr of an empty string leaves it (string.cpp:36-43).
AnswersRight ==
  /\ over = "outside" => call.fn = "strrchr" /\ before[call.p] = 0
  /\ over = "yes" =>
       CASE call.fn = "strlen" -> sum = Len(TextAt(call.p))
         [] call.fn = "strdup" -> sum = Len(TextAt(call.p)) + 1
         [] call.fn = "strcmp" -> sum = 0 <=> TextAt(call.p) = TextAt(call.q)
         [] call.fn = "memcmp" -> sum = 0 <=> Slice(before, call.p, call.n) = Slice(before, call.q, call.n)
         [] call.fn = "strchr" -> sum = IF call.n = 0 \/ Found(call.p, call.n) = {} THEN NULL
                                       ELSE CHOOSE i \in Found(call.p, call.n) : \A j \in Found(call.p, call.n) : i <= j
         [] call.fn = "strrchr" -> sum = IF Found(call.p, call.n) = {} THEN NULL
                                        ELSE CHOOSE i \in Found(call.p, call.n) : \A j \in Found(call.p, call.n) : i >= j
         [] call.fn = "strtol" ->
              LET t == TextAt(call.p)  digits == IF t # <<>> /\ t[1] = SignChar THEN Tail(t) ELSE t  v == ValueOfDigits(digits) IN
                (\A i \in DOMAIN digits : IsDigit(digits[i])) /\ v \in Longs => sum = IF digits = t THEN v ELSE -v
         [] call.fn = "abs" -> sum = (IF call.n < 0 THEN -call.n ELSE call.n) \/ call.n - 1 \notin Longs
         [] OTHER -> TRUE

CStringsRight == CopiesWhole /\ AnswersRight
=============================================================================
