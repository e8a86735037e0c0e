----------------------------- MODULE Utf8String -----------------------------
(***************************************************************************)
(* rodvin::string (libc/string), which holds every name, path, command and *)
(* attribute: a buffer of bytes in UTF-8 that callers fill and read        *)
(* character by character.                                                 *)
(*                                                                         *)
(* A string is its capacity and its bytes; the buffer has a byte more than *)
(* the capacity, for the zero at the end.  One that was made without an    *)
(* argument has no buffer.  `stray` is set once something was written      *)
(* outside of a buffer, or through NULL; what follows from that is not     *)
(* followed.                                                               *)
(***************************************************************************)
EXTENDS Integers, Sequences, SequencesExt

CONSTANTS
  Letters,     \* code points that get into strings
  MaxLetters,  \* bound: characters of a string
  MaxEdits,    \* bound: calls of one behaviour
  AtZero       \* the bytes in memory from address 0 up to the first zero

LastCode == 1114111
CodePoints == 1 .. LastCode

ASSUME Utf8Assumption ==
  /\ Letters \subseteq CodePoints /\ MaxLetters \in Nat /\ MaxEdits \in Nat
  /\ \A i \in DOMAIN AtZero : AtZero[i] \in 1 .. 255

NoString == [null |-> TRUE, capacity |-> 0, bytes |-> <<>>, stray |-> FALSE]
Size(s) == Len(s.bytes)
Sized(bytes) == [null |-> FALSE, capacity |-> Len(bytes), bytes |-> bytes, stray |-> FALSE]

-----------------------------------------------------------------------------
(* Characters. *)

\* A byte of a character that is not its first: six bits, from one place on.
Bits(c, place) == 128 + ((c \div place) % 64)

\* What push_back adds for a character.
Encode(c) ==
  IF c < 128 THEN <<c>>
  ELSE IF c < 2048 THEN <<192 + c \div 64, Bits(c, 1)>>
  ELSE IF c < 65536 THEN <<224 + c \div 4096, Bits(c, 64), Bits(c, 1)>>
  ELSE <<240 + c \div 262144, Bits(c, 4096), Bits(c, 64), Bits(c, 1)>>

\* getByte; behind the last byte is the zero.
ByteAt(s, i) == IF i < Size(s) THEN s.bytes[i + 1] ELSE 0
Continues(b) == b \div 64 = 2

\* operator* of an iterator at offset i.
CharAt(s, i) ==
  LET v == ByteAt(s, i)
      low(k) == ByteAt(s, i + k) % 64
  IN CASE v < 128 -> v
       [] v \in 128 .. 223 -> (v % 32) * 64 + low(1)
       [] v \in 224 .. 239 -> (v % 16) * 4096 + low(1) * 64 + low(2)
       [] OTHER -> (v % 8) * 262144 + low(1) * 4096 + low(2) * 64 + low(3)

\* operator++ and operator--
After(s, i) == CHOOSE j \in i + 1 .. Size(s) + 1 :
  ~Continues(ByteAt(s, j)) /\ \A k \in i + 1 .. j - 1 : Continues(ByteAt(s, k))
Before(s, i) == CHOOSE j \in 0 .. i - 1 :
  ~Continues(ByteAt(s, j)) /\ \A k \in j + 1 .. i - 1 : Continues(ByteAt(s, k))

\* The characters from begin() to end(), and back again.
Chars(s) ==
  LET from[i \in 0 .. Size(s)] ==
        IF i = Size(s) THEN <<>> ELSE <<CharAt(s, i)>> \o from[After(s, i)]
  IN from[0]
CharsBack(s) ==
  LET from[i \in 0 .. Size(s)] ==
        IF i = 0 THEN <<>> ELSE <<CharAt(s, Before(s, i))>> \o from[Before(s, i)]
  IN from[Size(s)]

\* length()
Length(s) == Len(SelectSeq(s.bytes, LAMBDA b : ~Continues(b)))

\* The offset of the k-th character.
Offset(s, k) ==
  LET at[n \in 0 .. k] == IF n = 0 THEN 0 ELSE After(s, at[n - 1]) IN at[k]

-----------------------------------------------------------------------------
(* Strings. *)

Reserve(s, n) == IF n < s.capacity THEN s ELSE [s EXCEPT !.capacity = n, !.null = FALSE]

\* Bytes written into the buffer a string has.
Filled(s, bytes) ==
  [s EXCEPT !.bytes = bytes, !.stray = @ \/ s.null \/ Len(bytes) > s.capacity]

PushBack(s, c) == Filled(Reserve(s, Size(s) + 8), s.bytes \o Encode(c))

\* A defect: only one byte goes.
PopBackByte(s) == [s EXCEPT !.bytes = Front(@)]

\* pop_back steps back over the bytes that continue a character.  On a string without
\* one it reads before the buffer, and size_ wraps.
PopBack(s) ==
  IF s.bytes = <<>> THEN [s EXCEPT !.stray = TRUE]
  ELSE [s EXCEPT !.bytes = SubSeq(@, 1, Before(s, Size(s)))]

\* string(uint32_t*) ends with the first zero.
FromCodes(cs) ==
  LET n == SelectInSeq(Append(cs, 0), LAMBDA c : c = 0) - 1
      turn[i \in 0 .. n] == IF i = 0 THEN Filled(Reserve(NoString, 8), <<>>) ELSE PushBack(turn[i - 1], cs[i])
  IN turn[n]

\* getUtf16Char takes a pair of surrogates, or one unit; a surrogate alone stands for
\* the character that replaces what cannot be read.
Lead(u) == u \in 55296 .. 56319
Trail(u) == u \in 56320 .. 57343
Replacement == 65533
Taken(us) ==
  IF Lead(us[1]) /\ Len(us) > 1 /\ Trail(us[2])
  THEN [units |-> 2, char |-> 65536 + (us[1] % 1024) * 1024 + (us[2] % 1024)]
  ELSE [units |-> 1, char |-> IF Lead(us[1]) \/ Trail(us[1]) THEN Replacement ELSE us[1]]

\* string(uint16_t*), of which the names of files are made.
FromUnits(us) ==
  LET from[i \in 1 .. Len(us) + 1] ==
        IF i > Len(us) THEN <<>>
        ELSE LET t == Taken(SubSeq(us, i, Len(us))) IN <<t.char>> \o from[i + t.units]
  IN FromCodes(from[1])

\* string(const string&) and operator=.  strcpy out of a string without a buffer copies
\* what is at address 0 into a buffer for the zero.
Copy(t) == IF t.null THEN [Sized(<<>>) EXCEPT !.stray = AtZero # <<>>] ELSE [Sized(t.bytes) EXCEPT !.stray = t.stray]

\* operator+=
Plus(s, t) == Filled(Reserve(s, Size(s) + Size(t)), s.bytes \o t.bytes)

\* resize writes zeros behind the end or cuts, and a zero at the end in any case.
Resize(s, n) ==
  LET r == IF n > s.capacity THEN Reserve(s, n) ELSE s
  IN Filled(r, IF n <= Size(s) THEN SubSeq(s.bytes, 1, n) ELSE s.bytes \o [i \in 1 .. n - Size(s) |-> 0])
Clear(s) == Resize(s, 0)

\* substr(start, n), in bytes.  rv has no buffer for an empty piece, and resize writes
\* the zero of its end through NULL.
Substr(s, start, n) == Filled(Resize(NoString, n), SubSeq(s.bytes, start + 1, start + n))

\* replace(start, length, t), in bytes
Replace(s, start, length, t) ==
  LET size == Size(s) - length + Size(t)
  IN Filled(IF size > s.capacity THEN Reserve(s, size) ELSE s,
            SubSeq(s.bytes, 1, start) \o t.bytes \o SubSeq(s.bytes, start + length + 1, Size(s)))

-----------------------------------------------------------------------------
(* One string that is edited. *)

VARIABLES
  str,      \* the string
  meant,    \* history: the characters it ought to have
  bare,     \* history: a string without a buffer was copied, cleared, or cut out
  edits     \* number of calls

strVars == <<str, meant, bare, edits>>

StrInit == str = NoString /\ meant = <<>> /\ bare = FALSE /\ edits = 0

Texts == SeqOf(Letters, 1)

Edit(s, chars) ==
  /\ ~str.stray /\ edits < MaxEdits /\ Len(chars) <= MaxLetters
  /\ edits' = edits + 1
  /\ str' = s /\ meant' = chars

EditPush(c) == Edit(PushBack(str, c), Append(meant, c)) /\ UNCHANGED bare
EditPop == meant # <<>> /\ Edit(PopBack(str), Front(meant)) /\ UNCHANGED bare
EditPlus(cs) == Edit(Plus(str, FromCodes(cs)), meant \o cs) /\ UNCHANGED bare

\* UTF-16 as a directory holds it, whole or with a half of a pair in it.
Units(c) == IF c < 65536 THEN <<c>>
            ELSE <<55296 + (c - 65536) \div 1024, 56320 + ((c - 65536) % 1024)>>
EditUnits(c, d, half) ==
  LET u == IF half = 0 THEN <<>> ELSE <<half>> IN
    /\ meant = <<>>
    /\ Edit(FromUnits(Units(c) \o u \o Units(d)),
            <<c>> \o (IF half = 0 THEN <<>> ELSE <<Replacement>>) \o <<d>>)
    /\ UNCHANGED bare

EditCopy == Edit(Copy(str), meant) /\ bare' = (bare \/ str.null)
EditClear == Edit(Clear(str), <<>>) /\ bare' = (bare \/ str.null)

\* Whole characters, from the k-th to before the m-th.
EditSubstr(k, m) ==
  /\ Edit(Substr(str, Offset(str, k), Offset(str, m) - Offset(str, k)), SubSeq(meant, k + 1, m))
  /\ bare' = (bare \/ k = m)
EditReplace(k, m, cs) ==
  /\ meant # <<>>
  /\ Edit(Replace(str, Offset(str, k), Offset(str, m) - Offset(str, k), FromCodes(cs)),
          SubSeq(meant, 1, k) \o cs \o SubSeq(meant, m + 1, Len(meant)))
  /\ UNCHANGED bare

StrNext ==
  \/ \E c \in Letters : EditPush(c)
  \/ EditPop \/ EditCopy \/ EditClear
  \/ \E cs \in Texts : EditPlus(cs)
  \/ \E c, d \in Letters, half \in {0, 55296, 57343} : EditUnits(c, d, half)
  \/ \E m \in 0 .. Len(meant) : \E k \in 0 .. m :
       EditSubstr(k, m) \/ \E cs \in Texts : EditReplace(k, m, cs)

-----------------------------------------------------------------------------
\* However a string came about, from UTF-16 or piece by piece, read forwards or
\* backwards it has the characters that were put in, as many as length() says; no
\* call cuts one in two, and none writes outside of the buffer, unless it copies,
\* clears or cuts out a string without one (string:19-163, 172-257).
StringIsText ==
  /\ str.stray => bare
  /\ ~str.stray =>
       /\ Chars(str) = meant
       /\ CharsBack(str) = Reverse(meant)
       /\ Length(str) = Len(meant)
=============================================================================
