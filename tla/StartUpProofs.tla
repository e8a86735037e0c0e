---------------------------- MODULE StartUpProofs ----------------------------
(***************************************************************************)
(* The start of a Raspberry Pi and of a PC stays right: theorems           *)
(* RpiStaysRight, PcStaysRight and TablesStayRight.                        *)
(*                                                                         *)
(* Of the Raspberry Pi, what the divider of the SD clock comes to is       *)
(* calculated first, quotient by quotient: the ten bits of the register    *)
(* leave eleven powers of two.  RpiInv is the inductive invariant.  Its    *)
(* part about the mailbox says where the one question can be - behind      *)
(* everything else in the inbox, or answered in the buffer, with `got` not *)
(* yet set in the first case - and its part about the clock what the       *)
(* register and its copy hold from the reset on.                           *)
(*                                                                         *)
(* Of the PC, PcInv is the inductive invariant: what the keyboard          *)
(* controller holds at each place of the constructor of PS2 (KeysInv);     *)
(* what the selected drive has sent (SectorsInv); and, of the search of    *)
(* the buses, that exactly the functions behind a frame of the stack were  *)
(* found on its bus, and all those of a bus that has no frame any more     *)
(* (ScanInv), that the screen is the first display found and the mapped    *)
(* one the last (ScreenInv), and that each disk is registered once for     *)
(* every controller found (DisksInv).                                      *)
(*                                                                         *)
(* Of the tables for interrupts, TablesInv says what is set at each place  *)
(* of platform_setup_interrupts; what the processor reads in them follows  *)
(* from the bytes of their descriptors.                                    *)
(***************************************************************************)
EXTENDS MCStartUp, SequenceTheorems, FiniteSetTheorems, TLAPS

-----------------------------------------------------------------------------
(***************************************************************************)
(* The divider of the SD clock.                                            *)
(***************************************************************************)

\* The powers of two that a word has room for.
IsPower(c, v) ==
  \/ (c = 0 /\ v = 1) \/ (c = 1 /\ v = 2) \/ (c = 2 /\ v = 4) \/ (c = 3 /\ v = 8)
  \/ (c = 4 /\ v = 16) \/ (c = 5 /\ v = 32) \/ (c = 6 /\ v = 64) \/ (c = 7 /\ v = 128)
  \/ (c = 8 /\ v = 256) \/ (c = 9 /\ v = 512) \/ (c = 10 /\ v = 1024) \/ (c = 11 /\ v = 2048)
  \/ (c = 12 /\ v = 4096) \/ (c = 13 /\ v = 8192) \/ (c = 14 /\ v = 16384) \/ (c = 15 /\ v = 32768)
  \/ (c = 16 /\ v = 65536) \/ (c = 17 /\ v = 131072) \/ (c = 18 /\ v = 262144) \/ (c = 19 /\ v = 524288)
  \/ (c = 20 /\ v = 1048576) \/ (c = 21 /\ v = 2097152) \/ (c = 22 /\ v = 4194304) \/ (c = 23 /\ v = 8388608)
  \/ (c = 24 /\ v = 16777216) \/ (c = 25 /\ v = 33554432) \/ (c = 26 /\ v = 67108864) \/ (c = 27 /\ v = 134217728)
  \/ (c = 28 /\ v = 268435456) \/ (c = 29 /\ v = 536870912) \/ (c = 30 /\ v = 1073741824) \/ (c = 31 /\ v = 2 * 1073741824)

LEMMA PowerIs ==
  ASSUME NEW c \in 0 .. 31
  PROVE  2 ^ c \in Nat /\ IsPower(c, 2 ^ c)
<1>1. CASE c = 0 BY <1>1 DEF IsPower
<1>2. CASE c = 1 BY <1>2 DEF IsPower
<1>3. CASE c = 2 BY <1>3 DEF IsPower
<1>4. CASE c = 3 BY <1>4 DEF IsPower
<1>5. CASE c = 4 BY <1>5 DEF IsPower
<1>6. CASE c = 5 BY <1>6 DEF IsPower
<1>7. CASE c = 6 BY <1>7 DEF IsPower
<1>8. CASE c = 7 BY <1>8 DEF IsPower
<1>9. CASE c = 8 BY <1>9 DEF IsPower
<1>10. CASE c = 9 BY <1>10 DEF IsPower
<1>11. CASE c = 10 BY <1>11 DEF IsPower
<1>12. CASE c = 11 BY <1>12 DEF IsPower
<1>13. CASE c = 12 BY <1>13 DEF IsPower
<1>14. CASE c = 13 BY <1>14 DEF IsPower
<1>15. CASE c = 14 BY <1>15 DEF IsPower
<1>16. CASE c = 15 BY <1>16 DEF IsPower
<1>17. CASE c = 16 BY <1>17 DEF IsPower
<1>18. CASE c = 17 BY <1>18 DEF IsPower
<1>19. CASE c = 18 BY <1>19 DEF IsPower
<1>20. CASE c = 19 BY <1>20 DEF IsPower
<1>21. CASE c = 20 BY <1>21 DEF IsPower
<1>22. CASE c = 21 BY <1>22 DEF IsPower
<1>23. CASE c = 22 BY <1>23 DEF IsPower
<1>24. CASE c = 23 BY <1>24 DEF IsPower
<1>25. CASE c = 24 BY <1>25 DEF IsPower
<1>26. CASE c = 25 BY <1>26 DEF IsPower
<1>27. CASE c = 26 BY <1>27 DEF IsPower
<1>28. CASE c = 27 BY <1>28 DEF IsPower
<1>29. CASE c = 28 BY <1>29 DEF IsPower
<1>30. CASE c = 29 BY <1>30 DEF IsPower
<1>31. CASE c = 30 BY <1>31 DEF IsPower
<1>32. CASE c = 31 BY <1>32 DEF IsPower
<1> QED
  BY <1>1, <1>2, <1>3, <1>4, <1>5, <1>6, <1>7, <1>8, <1>9, <1>10, <1>11, <1>12, <1>13, <1>14, <1>15, <1>16,
     <1>17, <1>18, <1>19, <1>20, <1>21, <1>22, <1>23, <1>24, <1>25, <1>26, <1>27, <1>28, <1>29, <1>30, <1>31, <1>32

\* A number of eleven bits is between two powers of two.
Between(n, b) ==
  \/ b = 0 /\ n \in 1 .. 1
  \/ b = 1 /\ n \in 2 .. 3
  \/ b = 2 /\ n \in 4 .. 7
  \/ b = 3 /\ n \in 8 .. 15
  \/ b = 4 /\ n \in 16 .. 31
  \/ b = 5 /\ n \in 32 .. 63
  \/ b = 6 /\ n \in 64 .. 127
  \/ b = 7 /\ n \in 128 .. 255
  \/ b = 8 /\ n \in 256 .. 511
  \/ b = 9 /\ n \in 512 .. 1023
  \/ b = 10 /\ n \in 1024 .. 2047

\* The highest bit is found if there is one.
LEMMA FirstBitFound ==
  ASSUME NEW n \in Nat, NEW k \in 0 .. 31, NEW v, v = 2 ^ k, v <= n, n < 2 * v
  PROVE  FirstBit(n) \in 0 .. 31 /\ 2 ^ FirstBit(n) <= n /\ n < 2 * 2 ^ FirstBit(n)
BY Zenon DEF FirstBit

\* The highest bit of a number of eleven.
LEMMA FirstBitIs ==
  ASSUME NEW n \in Nat
  PROVE  n \in 1 .. 2047 => Between(n, FirstBit(n))
<1>1. ASSUME n \in 1 .. 2047
      PROVE  FirstBit(n) \in 0 .. 31 /\ 2 ^ FirstBit(n) <= n /\ n < 2 * 2 ^ FirstBit(n)
  <2>1. CASE n \in 1 .. 1
    <3>1. PICK c \in 0 .. 31 : c = 0 OBVIOUS
    <3>2. PICK v : v = 2 ^ c OBVIOUS
    <3>3. v = 1 BY <3>1, <3>2
    <3>4. v <= n /\ n < 2 * v BY <2>1, <3>3
    <3> QED BY <3>2, <3>4, FirstBitFound, Zenon
  <2>2. CASE n \in 2 .. 3
    <3>1. PICK c \in 0 .. 31 : c = 1 OBVIOUS
    <3>2. PICK v : v = 2 ^ c OBVIOUS
    <3>3. v = 2 BY <3>1, <3>2
    <3>4. v <= n /\ n < 2 * v BY <2>2, <3>3
    <3> QED BY <3>2, <3>4, FirstBitFound, Zenon
  <2>3. CASE n \in 4 .. 7
    <3>1. PICK c \in 0 .. 31 : c = 2 OBVIOUS
    <3>2. PICK v : v = 2 ^ c OBVIOUS
    <3>3. v = 4 BY <3>1, <3>2
    <3>4. v <= n /\ n < 2 * v BY <2>3, <3>3
    <3> QED BY <3>2, <3>4, FirstBitFound, Zenon
  <2>4. CASE n \in 8 .. 15
    <3>1. PICK c \in 0 .. 31 : c = 3 OBVIOUS
    <3>2. PICK v : v = 2 ^ c OBVIOUS
    <3>3. v = 8 BY <3>1, <3>2
    <3>4. v <= n /\ n < 2 * v BY <2>4, <3>3
    <3> QED BY <3>2, <3>4, FirstBitFound, Zenon
  <2>5. CASE n \in 16 .. 31
    <3>1. PICK c \in 0 .. 31 : c = 4 OBVIOUS
    <3>2. PICK v : v = 2 ^ c OBVIOUS
    <3>3. v = 16 BY <3>1, <3>2
    <3>4. v <= n /\ n < 2 * v BY <2>5, <3>3
    <3> QED BY <3>2, <3>4, FirstBitFound, Zenon
  <2>6. CASE n \in 32 .. 63
    <3>1. PICK c \in 0 .. 31 : c = 5 OBVIOUS
    <3>2. PICK v : v = 2 ^ c OBVIOUS
    <3>3. v = 32 BY <3>1, <3>2
    <3>4. v <= n /\ n < 2 * v BY <2>6, <3>3
    <3> QED BY <3>2, <3>4, FirstBitFound, Zenon
  <2>7. CASE n \in 64 .. 127
    <3>1. PICK c \in 0 .. 31 : c = 6 OBVIOUS
    <3>2. PICK v : v = 2 ^ c OBVIOUS
    <3>3. v = 64 BY <3>1, <3>2
    <3>4. v <= n /\ n < 2 * v BY <2>7, <3>3
    <3> QED BY <3>2, <3>4, FirstBitFound, Zenon
  <2>8. CASE n \in 128 .. 255
    <3>1. PICK c \in 0 .. 31 : c = 7 OBVIOUS
    <3>2. PICK v : v = 2 ^ c OBVIOUS
    <3>3. v = 128 BY <3>1, <3>2
    <3>4. v <= n /\ n < 2 * v BY <2>8, <3>3
    <3> QED BY <3>2, <3>4, FirstBitFound, Zenon
  <2>9. CASE n \in 256 .. 511
    <3>1. PICK c \in 0 .. 31 : c = 8 OBVIOUS
    <3>2. PICK v : v = 2 ^ c OBVIOUS
    <3>3. v = 256 BY <3>1, <3>2
    <3>4. v <= n /\ n < 2 * v BY <2>9, <3>3
    <3> QED BY <3>2, <3>4, FirstBitFound, Zenon
  <2>10. CASE n \in 512 .. 1023
    <3>1. PICK c \in 0 .. 31 : c = 9 OBVIOUS
    <3>2. PICK v : v = 2 ^ c OBVIOUS
    <3>3. v = 512 BY <3>1, <3>2
    <3>4. v <= n /\ n < 2 * v BY <2>10, <3>3
    <3> QED BY <3>2, <3>4, FirstBitFound, Zenon
  <2>11. CASE n \in 1024 .. 2047
    <3>1. PICK c \in 0 .. 31 : c = 10 OBVIOUS
    <3>2. PICK v : v = 2 ^ c OBVIOUS
    <3>3. v = 1024 BY <3>1, <3>2
    <3>4. v <= n /\ n < 2 * v BY <2>11, <3>3
    <3> QED BY <3>2, <3>4, FirstBitFound, Zenon
  <2> QED BY <1>1, <2>1, <2>2, <2>3, <2>4, <2>5, <2>6, <2>7, <2>8, <2>9, <2>10, <2>11
<1>2. ASSUME n \in 1 .. 2047 PROVE Between(n, FirstBit(n))
  <2>1. PICK b \in 0 .. 31 : b = FirstBit(n) BY <1>1, <1>2
  <2>2. 2 ^ b \in Nat /\ IsPower(b, 2 ^ b) BY PowerIs
  <2>3. PICK v \in Nat : v = 2 ^ b BY <2>2
  <2>4. v <= n /\ n < 2 * v BY <1>1, <1>2, <2>1, <2>3
  <2>5. IsPower(b, v) BY <2>2, <2>3
  <2>6. b \in 0 .. 10 BY <1>2, <2>4, <2>5 DEF IsPower
  <2>7. Between(n, b) BY <1>2, <2>4, <2>5, <2>6 DEF IsPower, Between
  <2> QED BY <2>1, <2>7
<1> QED BY <1>2

\* What the clock is divided by, for a quotient: that if it is a power of two, or the next
\* one, as far as the register's ten bits go.
Divided(q) ==
  LET divisor == IF q = 0 THEN 31 ELSE FirstBit(q) + (IF q # 2 ^ FirstBit(q) THEN 1 ELSE 0)
      power == IF divisor = 0 THEN 0 ELSE 2 ^ (divisor - 1)
  IN  IF power >= 1024 THEN 1023 ELSE power

DividesBy(q, t) ==
  \/ (q = 1 /\ t = 1) \/ (q = 2 /\ t = 2) \/ (q = 3 /\ t = 4)
  \/ (q = 4 /\ t = 4) \/ (q \in 5 .. 7 /\ t = 8)
  \/ (q = 8 /\ t = 8) \/ (q \in 9 .. 15 /\ t = 16)
  \/ (q = 16 /\ t = 16) \/ (q \in 17 .. 31 /\ t = 32)
  \/ (q = 32 /\ t = 32) \/ (q \in 33 .. 63 /\ t = 64)
  \/ (q = 64 /\ t = 64) \/ (q \in 65 .. 127 /\ t = 128)
  \/ (q = 128 /\ t = 128) \/ (q \in 129 .. 255 /\ t = 256)
  \/ (q = 256 /\ t = 256) \/ (q \in 257 .. 511 /\ t = 512)
  \/ (q = 512 /\ t = 512) \/ (q \in 513 .. 1023 /\ t = 1024)
  \/ (q = 1024 /\ t = 1024) \/ (q \in 1025 .. 2047 /\ t = 2046)

LEMMA TimesIs ==
  ASSUME NEW q \in Nat, q >= 1, q <= 2047
  PROVE  DividesBy(q, Times(Divided(q)))
<1>0. Between(q, FirstBit(q)) BY FirstBitIs
<1>1. PICK b \in 0 .. 10 : b = FirstBit(q) /\ Between(q, b)
  <2>1. FirstBit(q) \in 0 .. 10 BY <1>0 DEF Between
  <2> QED BY <1>0, <2>1
<1>2. PICK v : v = 2 ^ b OBVIOUS
<1>3. Divided(q) = LET divisor == b + (IF q # v THEN 1 ELSE 0)
                       power == IF divisor = 0 THEN 0 ELSE 2 ^ (divisor - 1)
                   IN  IF power >= 1024 THEN 1023 ELSE power
  BY <1>1, <1>2 DEF Divided
<1>4. CASE b = 0
  <2>1. q \in 1 .. 1 /\ v = 1 BY <1>1, <1>2, <1>4 DEF Between
  <2>2. Divided(q) = 0 BY <1>3, <1>4, <2>1
  <2>3. Times(Divided(q)) = 1 BY <2>2 DEF Times
  <2> QED BY <2>1, <2>3 DEF DividesBy
<1>5. CASE b = 1
  <2>1. q \in 2 .. 3 /\ v = 2 BY <1>1, <1>2, <1>5 DEF Between
  <2>2. 2 ^ 0 = 1 /\ 2 ^ 1 = 2 OBVIOUS
  <2>3. q = 2 => Divided(q) = 1 BY <1>3, <1>5, <2>1, <2>2
  <2>4. q # 2 => Divided(q) = 2 BY <1>3, <1>5, <2>1, <2>2
  <2>5. q = 2 => Times(Divided(q)) = 2 BY <2>3 DEF Times
  <2>6. q # 2 => Times(Divided(q)) = 4 BY <2>4 DEF Times
  <2> QED BY <2>1, <2>5, <2>6 DEF DividesBy
<1>6. CASE b = 2
  <2>1. q \in 4 .. 7 /\ v = 4 BY <1>1, <1>2, <1>6 DEF Between
  <2>2. 2 ^ 1 = 2 /\ 2 ^ 2 = 4 OBVIOUS
  <2>3. q = 4 => Divided(q) = 2 BY <1>3, <1>6, <2>1, <2>2
  <2>4. q # 4 => Divided(q) = 4 BY <1>3, <1>6, <2>1, <2>2
  <2>5. q = 4 => Times(Divided(q)) = 4 BY <2>3 DEF Times
  <2>6. q # 4 => Times(Divided(q)) = 8 BY <2>4 DEF Times
  <2> QED BY <2>1, <2>5, <2>6 DEF DividesBy
<1>7. CASE b = 3
  <2>1. q \in 8 .. 15 /\ v = 8 BY <1>1, <1>2, <1>7 DEF Between
  <2>2. 2 ^ 2 = 4 /\ 2 ^ 3 = 8 OBVIOUS
  <2>3. q = 8 => Divided(q) = 4 BY <1>3, <1>7, <2>1, <2>2
  <2>4. q # 8 => Divided(q) = 8 BY <1>3, <1>7, <2>1, <2>2
  <2>5. q = 8 => Times(Divided(q)) = 8 BY <2>3 DEF Times
  <2>6. q # 8 => Times(Divided(q)) = 16 BY <2>4 DEF Times
  <2> QED BY <2>1, <2>5, <2>6 DEF DividesBy
<1>8. CASE b = 4
  <2>1. q \in 16 .. 31 /\ v = 16 BY <1>1, <1>2, <1>8 DEF Between
  <2>2. 2 ^ 3 = 8 /\ 2 ^ 4 = 16 OBVIOUS
  <2>3. q = 16 => Divided(q) = 8 BY <1>3, <1>8, <2>1, <2>2
  <2>4. q # 16 => Divided(q) = 16 BY <1>3, <1>8, <2>1, <2>2
  <2>5. q = 16 => Times(Divided(q)) = 16 BY <2>3 DEF Times
  <2>6. q # 16 => Times(Divided(q)) = 32 BY <2>4 DEF Times
  <2> QED BY <2>1, <2>5, <2>6 DEF DividesBy
<1>9. CASE b = 5
  <2>1. q \in 32 .. 63 /\ v = 32 BY <1>1, <1>2, <1>9 DEF Between
  <2>2. 2 ^ 4 = 16 /\ 2 ^ 5 = 32 OBVIOUS
  <2>3. q = 32 => Divided(q) = 16 BY <1>3, <1>9, <2>1, <2>2
  <2>4. q # 32 => Divided(q) = 32 BY <1>3, <1>9, <2>1, <2>2
  <2>5. q = 32 => Times(Divided(q)) = 32 BY <2>3 DEF Times
  <2>6. q # 32 => Times(Divided(q)) = 64 BY <2>4 DEF Times
  <2> QED BY <2>1, <2>5, <2>6 DEF DividesBy
<1>10. CASE b = 6
  <2>1. q \in 64 .. 127 /\ v = 64 BY <1>1, <1>2, <1>10 DEF Between
  <2>2. 2 ^ 5 = 32 /\ 2 ^ 6 = 64 OBVIOUS
  <2>3. q = 64 => Divided(q) = 32 BY <1>3, <1>10, <2>1, <2>2
  <2>4. q # 64 => Divided(q) = 64 BY <1>3, <1>10, <2>1, <2>2
  <2>5. q = 64 => Times(Divided(q)) = 64 BY <2>3 DEF Times
  <2>6. q # 64 => Times(Divided(q)) = 128 BY <2>4 DEF Times
  <2> QED BY <2>1, <2>5, <2>6 DEF DividesBy
<1>11. CASE b = 7
  <2>1. q \in 128 .. 255 /\ v = 128 BY <1>1, <1>2, <1>11 DEF Between
  <2>2. 2 ^ 6 = 64 /\ 2 ^ 7 = 128 OBVIOUS
  <2>3. q = 128 => Divided(q) = 64 BY <1>3, <1>11, <2>1, <2>2
  <2>4. q # 128 => Divided(q) = 128 BY <1>3, <1>11, <2>1, <2>2
  <2>5. q = 128 => Times(Divided(q)) = 128 BY <2>3 DEF Times
  <2>6. q # 128 => Times(Divided(q)) = 256 BY <2>4 DEF Times
  <2> QED BY <2>1, <2>5, <2>6 DEF DividesBy
<1>12. CASE b = 8
  <2>1. q \in 256 .. 511 /\ v = 256 BY <1>1, <1>2, <1>12 DEF Between
  <2>2. 2 ^ 7 = 128 /\ 2 ^ 8 = 256 OBVIOUS
  <2>3. q = 256 => Divided(q) = 128 BY <1>3, <1>12, <2>1, <2>2
  <2>4. q # 256 => Divided(q) = 256 BY <1>3, <1>12, <2>1, <2>2
  <2>5. q = 256 => Times(Divided(q)) = 256 BY <2>3 DEF Times
  <2>6. q # 256 => Times(Divided(q)) = 512 BY <2>4 DEF Times
  <2> QED BY <2>1, <2>5, <2>6 DEF DividesBy
<1>13. CASE b = 9
  <2>1. q \in 512 .. 1023 /\ v = 512 BY <1>1, <1>2, <1>13 DEF Between
  <2>2. 2 ^ 8 = 256 /\ 2 ^ 9 = 512 OBVIOUS
  <2>3. q = 512 => Divided(q) = 256 BY <1>3, <1>13, <2>1, <2>2
  <2>4. q # 512 => Divided(q) = 512 BY <1>3, <1>13, <2>1, <2>2
  <2>5. q = 512 => Times(Divided(q)) = 512 BY <2>3 DEF Times
  <2>6. q # 512 => Times(Divided(q)) = 1024 BY <2>4 DEF Times
  <2> QED BY <2>1, <2>5, <2>6 DEF DividesBy
<1>14. CASE b = 10
  <2>1. q \in 1024 .. 2047 /\ v = 1024 BY <1>1, <1>2, <1>14 DEF Between
  <2>2. 2 ^ 9 = 512 /\ 2 ^ 10 = 1024 OBVIOUS
  <2>3. q = 1024 => Divided(q) = 512 BY <1>3, <1>14, <2>1, <2>2
  <2>4. q # 1024 => Divided(q) = 1023 BY <1>3, <1>14, <2>1, <2>2
  <2>5. q = 1024 => Times(Divided(q)) = 1024 BY <2>3 DEF Times
  <2>6. q # 1024 => Times(Divided(q)) = 2046 BY <2>4 DEF Times
  <2> QED BY <2>1, <2>5, <2>6 DEF DividesBy
<1> QED BY <1>4, <1>5, <1>6, <1>7, <1>8, <1>9, <1>10, <1>11, <1>12, <1>13, <1>14

\* The powers of two that the divider can be.
TenBits == {1, 2, 4, 8, 16, 32, 64, 128, 256, 512, 1024}

LEMMA PowersHave ==
  ASSUME NEW m \in PowersOfTwo
  PROVE  m <= 2047 => m \in TenBits
<1>1. PICK b \in 0 .. 30 : m = 2 ^ b BY Zenon DEF PowersOfTwo
<1>2. b \in 0 .. 31 OBVIOUS
<1>3. IsPower(b, 2 ^ b) BY <1>2, PowerIs, Zenon
<1>4. IsPower(b, m) BY <1>1, <1>3, Zenon
<1> QED BY <1>4 DEF IsPower, TenBits

LEMMA PowersAre ==
  ASSUME NEW m \in Nat, m <= 2047
  PROVE  m \in PowersOfTwo <=> m \in TenBits
<1>1. m \in PowersOfTwo => m \in TenBits BY PowersHave
<1>2. 1 \in PowersOfTwo
  <2>1. 1 = 2 ^ 0 /\ 0 \in 0 .. 30 OBVIOUS
  <2> QED BY <2>1 DEF PowersOfTwo
<1>3. 2 \in PowersOfTwo
  <2>1. 2 = 2 ^ 1 /\ 1 \in 0 .. 30 OBVIOUS
  <2> QED BY <2>1 DEF PowersOfTwo
<1>4. 4 \in PowersOfTwo
  <2>1. 4 = 2 ^ 2 /\ 2 \in 0 .. 30 OBVIOUS
  <2> QED BY <2>1 DEF PowersOfTwo
<1>5. 8 \in PowersOfTwo
  <2>1. 8 = 2 ^ 3 /\ 3 \in 0 .. 30 OBVIOUS
  <2> QED BY <2>1 DEF PowersOfTwo
<1>6. 16 \in PowersOfTwo
  <2>1. 16 = 2 ^ 4 /\ 4 \in 0 .. 30 OBVIOUS
  <2> QED BY <2>1 DEF PowersOfTwo
<1>7. 32 \in PowersOfTwo
  <2>1. 32 = 2 ^ 5 /\ 5 \in 0 .. 30 OBVIOUS
  <2> QED BY <2>1 DEF PowersOfTwo
<1>8. 64 \in PowersOfTwo
  <2>1. 64 = 2 ^ 6 /\ 6 \in 0 .. 30 OBVIOUS
  <2> QED BY <2>1 DEF PowersOfTwo
<1>9. 128 \in PowersOfTwo
  <2>1. 128 = 2 ^ 7 /\ 7 \in 0 .. 30 OBVIOUS
  <2> QED BY <2>1 DEF PowersOfTwo
<1>10. 256 \in PowersOfTwo
  <2>1. 256 = 2 ^ 8 /\ 8 \in 0 .. 30 OBVIOUS
  <2> QED BY <2>1 DEF PowersOfTwo
<1>11. 512 \in PowersOfTwo
  <2>1. 512 = 2 ^ 9 /\ 9 \in 0 .. 30 OBVIOUS
  <2> QED BY <2>1 DEF PowersOfTwo
<1>12. 1024 \in PowersOfTwo
  <2>1. 1024 = 2 ^ 10 /\ 10 \in 0 .. 30 OBVIOUS
  <2> QED BY <2>1 DEF PowersOfTwo
<1> QED BY <1>1, <1>2, <1>3, <1>4, <1>5, <1>6, <1>7, <1>8, <1>9, <1>10, <1>11, <1>12 DEF TenBits

LEMMA RatesCompare ==
  ASSUME NEW k \in Nat, NEW r \in Nat, NEW t \in Nat
  PROVE  /\ r < 4 => /\ 4 * k + r > 4 * t <=> k > t \/ (k = t /\ r > 0)
                     /\ 4 > 4 * k + r <=> k = 0
                     /\ k = 2046 /\ 4 * k + r <= 8184 => r = 0
         /\ r < 250 => /\ 250 * k + r > 250 * t <=> k > t \/ (k = t /\ r > 0)
                       /\ 250 > 250 * k + r <=> k = 0
                       /\ k = 2046 /\ 250 * k + r <= 8184 => r = 0
OBVIOUS

LEMMA DividedIs ==
  ASSUME NEW n \in Nat, n <= 2046
  PROVE  /\ Times(Divided(n)) \in Nat
         /\ n = 0 => Times(Divided(n)) = 2046
         /\ n # 0 => DividesBy(n, Times(Divided(n)))
<1>1. CASE n = 0
  <2>1. 2 ^ 30 >= 1024 OBVIOUS
  <2>2. Divided(n) = 1023 BY <1>1, <2>1 DEF Divided
  <2> QED BY <1>1, <2>2 DEF Times
<1>2. CASE n # 0
  <2>1. n >= 1 /\ n <= 2047 BY <1>2
  <2>2. DividesBy(n, Times(Divided(n))) BY <2>1, TimesIs
  <2>3. Times(Divided(n)) \in Nat BY <2>2 DEF DividesBy
  <2> QED BY <1>2, <2>2, <2>3
<1> QED BY <1>1, <1>2

\* The quotient and one less, of which one is a power of two.
LEMMA OneIsPower ==
  ASSUME NEW n \in Nat, n > 1, n <= 2046
  PROVE  {n, n - 1} \cap PowersOfTwo # {} <=>
           \/ n \in TenBits
           \/ n - 1 \in TenBits
<1>1. n \in PowersOfTwo <=> n \in TenBits
  <2>1. n <= 2047 OBVIOUS
  <2> QED BY <2>1, PowersAre
<1>2. PICK m \in Nat : m = n - 1 OBVIOUS
<1>3. m \in PowersOfTwo <=> m \in TenBits
  <2>1. m <= 2047 BY <1>2
  <2> QED BY <2>1, PowersAre
<1>4. {n, m} \cap PowersOfTwo # {} <=> n \in TenBits \/ m \in TenBits BY <1>1, <1>3
<1> QED BY <1>2, <1>4

\* The arithmetic of it: with a remainder the quotient is one less than it was.
LEMMA QuotientsCompare ==
  ASSUME NEW k \in Nat, NEW r \in Nat, k <= 2046, k = 2046 => r = 0,
         NEW q \in Nat, q = IF k = 0 THEN 1 ELSE k - (IF r # 0 THEN 1 ELSE 0),
         NEW t \in Nat, q = 0 => t = 2046, q # 0 => DividesBy(q, t)
  PROVE  k > t \/ (k = t /\ r > 0) <=>
           r # 0 /\ k > 1 /\ (\/ k \in TenBits
                             \/ k - 1 \in TenBits)
<1>1. CASE q = 0 BY <1>1 DEF TenBits
<1>2. CASE q # 0 /\ r = 0 BY <1>2 DEF DividesBy, TenBits
<1>3. CASE q # 0 /\ r # 0 BY <1>3 DEF DividesBy, TenBits
<1> QED BY <1>1, <1>2, <1>3

\* So with the divider of that quotient.
LEMMA TooFastAt ==
  ASSUME NEW k \in Nat, NEW r \in Nat, k <= 2046, k = 2046 => r = 0
  PROVE  LET q == IF k = 0 THEN 1 ELSE k - (IF r # 0 THEN 1 ELSE 0)
             t == Times(Divided(q))
         IN  /\ t \in Nat
             /\ k > t \/ (k = t /\ r > 0) <=>
                  r # 0 /\ k > 1 /\ {k, k - 1} \cap PowersOfTwo # {}
<1>1. PICK q \in Nat : q = IF k = 0 THEN 1 ELSE k - (IF r # 0 THEN 1 ELSE 0) OBVIOUS
<1>2. q <= 2046 BY <1>1
<1>3. PICK t \in Nat : t = Times(Divided(q)) BY <1>2, DividedIs
<1>4. (q = 0 => t = 2046) /\ (q # 0 => DividesBy(q, t)) BY <1>2, <1>3, DividedIs
<1>5. k > t \/ (k = t /\ r > 0) <=> r # 0 /\ k > 1 /\ (k \in TenBits \/ k - 1 \in TenBits)
  BY <1>1, <1>4, QuotientsCompare
<1>6. k > 1 => ({k, k - 1} \cap PowersOfTwo # {} <=> k \in TenBits \/ k - 1 \in TenBits)
  BY OneIsPower
<1> QED BY <1>1, <1>3, <1>5, <1>6

\* The card's clock is too fast just when TooFastOnlyIf says so, for base clocks
\* that the register's ten bits can divide.
TooFast(base, target) ==
  base > target * Times(GetClockDivider(base, target)) <=>
    LET quotient == base \div target IN
      base % target # 0 /\ quotient > 1 /\ {quotient, quotient - 1} \cap PowersOfTwo # {}

LEMMA TooFastSplit ==
  ASSUME NEW base \in Nat, NEW target \in {4, 250}, base > 0, base <= 8184,
         NEW k \in Nat, NEW r \in Nat, k = base \div target, r = base % target
  PROVE  TooFast(base, target)
<1>1. k <= 2046 /\ (k = 2046 => r = 0) /\ (target > base <=> k = 0)
  <2>1. CASE target = 4 BY <2>1
  <2>2. CASE target = 250 BY <2>2
  <2> QED BY <2>1, <2>2
<1>2. \A t \in Nat : base > target * t <=> k > t \/ (k = t /\ r > 0)
  <2>1. CASE target = 4
    <3>1. base = 4 * k + r /\ r < 4 BY <2>1
    <3> QED BY <2>1, <3>1, RatesCompare
  <2>2. CASE target = 250
    <3>1. base = 250 * k + r /\ r < 250 BY <2>2
    <3> QED BY <2>2, <3>1, RatesCompare
  <2> QED BY <2>1, <2>2
<1> DEFINE q == IF k = 0 THEN 1 ELSE k - (IF r # 0 THEN 1 ELSE 0)
           t == Times(Divided(q))
<1>3. GetClockDivider(base, target) = Divided(q) BY <1>1 DEF GetClockDivider, Divided
<1>4. /\ t \in Nat
      /\ k > t \/ (k = t /\ r > 0) <=>
           r # 0 /\ k > 1 /\ {k, k - 1} \cap PowersOfTwo # {}
  BY <1>1, TooFastAt
<1> HIDE DEF q
<1>5. base > target * Times(GetClockDivider(base, target)) <=> k > t \/ (k = t /\ r > 0)
  BY <1>2, <1>3, <1>4
<1> HIDE DEF t
<1> QED BY <1>4, <1>5 DEF TooFast

LEMMA TooFastIs ==
  ASSUME NEW base \in Nat, NEW target \in {4, 250}, base > 0, base <= 8184
  PROVE  TooFast(base, target)
<1>1. base \div target \in Nat /\ base % target \in Nat
  <2>1. CASE target = 4 BY <2>1
  <2>2. CASE target = 250 BY <2>2
  <2> QED BY <2>1, <2>2
<1> QED BY <1>1, TooFastSplit

-----------------------------------------------------------------------------
(***************************************************************************)
(* The invariant of the start of a Raspberry Pi.                           *)
(***************************************************************************)

PropertyCalls == {"memory", "off", "on", "clock"}
Calls == PropertyCalls \cup {"screen", "set_power"}

\* Where platform_setup can be, what the mailbox holds, and which callback a channel has.
PlacesOK ==
  /\ pc = <<pc[1], pc[2]>>
  /\ \/ pc[1] \in Calls /\ pc[2] \in {"ask", "send", "wait"}
     \/ pc[1] = "card" /\ pc[2] \in {"reset", "enable", "divide", "stable", "identify", "new rate", "clock on"}
     \/ pc[1] = "started" /\ pc[2] \in {"idle", "no card"}
  /\ inbox \in Seq(Channels) /\ outbox \in Seq([channel : Channels, value : {0}])
  /\ cbs \in [Channels -> {Ignore, "prop_cb", "mode_cb", "power_cb"}]
  /\ \A c \in Channels : cbs[c] = "prop_cb" => c = "property"
  /\ given \in Nat /\ strict \in BOOLEAN

\* No question is on its way, and no answer to one.
NotAsked == \A i \in 1 .. Len(inbox) : inbox[i] # "property"
NotReplied == \A i \in 1 .. Len(outbox) : outbox[i].channel # "property"

\* The question waits behind all else, and nobody has said that it is answered.
Asks(p) == prop.tag = <<"asks", p>> /\ "prop_cb" \notin got
Waits(p) ==
  /\ Asks(p) /\ NotReplied
  /\ inbox # <<>> /\ inbox[Len(inbox)] = "property"
  /\ \A i \in 1 .. Len(inbox) - 1 : inbox[i] # "property"
Replied(p) == prop.tag = <<"answers", p>> /\ prop.data \in Values(p) /\ NotAsked

\* The buffer holds the question that is being asked or the answer to it.
QuestionOK ==
  stray # "property" =>
    /\ pc[1] \in PropertyCalls /\ pc[2] = "wait" => Waits(pc[1]) \/ Replied(pc[1])
    /\ ~(pc[1] \in PropertyCalls /\ pc[2] = "wait") => NotAsked /\ NotReplied
    /\ pc[1] \in PropertyCalls /\ pc[2] = "send" => Asks(pc[1])

HeapOK == stray # "property" /\ heap # {} => heap = Regions(KernelEnd, given - KernelEnd)

MailInv == PlacesOK /\ QuestionOK /\ HeapOK

\* The base clock is one that the VideoCore named, or the one assumed.
RateOK ==
  /\ rate \in Clocks \cup {0, 1000}
  /\ pc[1] = "clock" /\ pc[2] # "ask" => prop.tag[2] = "clock" /\ prop.data \in Clocks \cup {0}

\* What the register and its copy hold, and that nobody will tell set_power of its answer.
CardFields == {"enable", "sd", "divisor"}
CardOK ==
  /\ DOMAIN control1 = CardFields /\ DOMAIN stale = CardFields
  /\ pc = <<"card", "stable">> =>
       IF strict THEN control1 = Off ELSE control1.divisor = GetClockDivider(rate, 4)
  /\ pc = <<"card", "identify">> => control1.sd /\ control1.divisor = GetClockDivider(rate, 4)
  /\ \/ pc[1] = "card" /\ pc[2] \in {"identify", "new rate", "clock on"}
     \/ pc = <<"started", "idle">>
     => ~strict
  /\ pc[1] \in {"started", "set_power"} => (strict <=> ~control1.sd)
  /\ pc[1] = "set_power" /\ pc[2] # "ask" => "power_cb" \notin got

ClockInv == PlacesOK /\ RateOK /\ CardOK

RpiInv == MailInv /\ ClockInv

\* What a step does to the mailbox and to what has been heard of it.
LEMMA TakesQuestion ==
  ASSUME NEW Items, NEW s \in Seq(Items), s # <<>>
  PROVE  /\ Tail(s) \in Seq(Items) /\ Head(s) \in Items /\ Head(s) = s[1]
         /\ Len(Tail(s)) = Len(s) - 1 /\ Len(s) \in Nat \ {0}
         /\ \A i \in 1 .. Len(s) - 1 : Tail(s)[i] = s[i + 1]
OBVIOUS

LEMMA PutsIn ==
  ASSUME NEW Items, NEW s \in Seq(Items), NEW e \in Items
  PROVE  /\ Append(s, e) \in Seq(Items) /\ Len(Append(s, e)) = Len(s) + 1 /\ Append(s, e) # <<>>
         /\ Append(s, e)[Len(s) + 1] = e
         /\ \A i \in 1 .. Len(s) : Append(s, e)[i] = s[i]
         /\ Len(s) \in Nat
OBVIOUS

LEMMA RpiStarts ==
  ASSUME RpiInit
  PROVE  RpiInv
<1>1. PlacesOK
  <2>1. given \in Nat BY RpiAssumption DEF RpiInit
  <2>2. outbox \in Seq([channel : Channels, value : {0}])
    <3>1. stray \in Channels \cup {"none"} BY RpiAssumption DEF RpiInit
    <3>2. CASE stray = "none" BY <3>2 DEF RpiInit
    <3>3. CASE stray # "none"
      <4>1. [channel |-> stray, value |-> 0] \in [channel : Channels, value : {0}] BY <3>1, <3>3
      <4> QED BY <3>3, <4>1 DEF RpiInit
    <3> QED BY <3>2, <3>3
  <2> QED BY <2>1, <2>2 DEF RpiInit, PlacesOK, Calls, PropertyCalls, Ignore
<1>2. QuestionOK
  <2>1. stray # "property" => NotReplied BY DEF RpiInit, NotReplied
  <2>2. NotAsked BY DEF RpiInit, NotAsked
  <2> QED BY <2>1, <2>2 DEF RpiInit, QuestionOK
<1>3. HeapOK /\ RateOK BY DEF RpiInit, HeapOK, RateOK
<1>4. CardOK BY DEF RpiInit, CardOK, CardFields, Off
<1> QED BY <1>1, <1>2, <1>3, <1>4 DEF RpiInv, MailInv, ClockInv

LEMMA VcKeeps ==
  ASSUME RpiInv, VcAnswers
  PROVE  RpiInv'
<1> DEFINE answer == [channel |-> Head(inbox), value |-> 0]
<1>1. PlacesOK /\ QuestionOK /\ HeapOK /\ RateOK /\ CardOK BY DEF RpiInv, MailInv, ClockInv
<1>2. /\ inbox' = Tail(inbox) /\ Tail(inbox) \in Seq(Channels)
      /\ Head(inbox) \in Channels /\ Head(inbox) = inbox[1]
      /\ Len(inbox') = Len(inbox) - 1 /\ Len(inbox) \in Nat \ {0}
      /\ \A i \in 1 .. Len(inbox) - 1 : inbox'[i] = inbox[i + 1]
  BY <1>1, TakesQuestion DEF VcAnswers, PlacesOK
<1>3. /\ outbox' = Append(outbox, answer) /\ outbox' \in Seq([channel : Channels, value : {0}])
      /\ Len(outbox') = Len(outbox) + 1 /\ outbox'[Len(outbox) + 1] = answer
      /\ \A i \in 1 .. Len(outbox) : outbox'[i] = outbox[i]
      /\ Len(outbox) \in Nat
  <2>1. answer \in [channel : Channels, value : {0}] BY <1>2
  <2> HIDE DEF answer
  <2>2. outbox' = Append(outbox, answer) BY DEF VcAnswers, answer
  <2>3. outbox \in Seq([channel : Channels, value : {0}]) BY <1>1 DEF PlacesOK
  <2> QED BY <2>1, <2>2, <2>3, PutsIn
<1>4. UNCHANGED <<pc, cbs, got, heap, rate, control1, stale, given, strict, stray>>
  BY DEF VcAnswers, card, settings
<1>5. PlacesOK' BY <1>1, <1>2, <1>3, <1>4 DEF PlacesOK
<1>6. QuestionOK'
  <2>1. SUFFICES ASSUME stray # "property" PROVE QuestionOK'
    BY <1>4 DEF QuestionOK
  <2>2. CASE NotAsked
    <3>1. Head(inbox) # "property" BY <1>2, <2>2 DEF NotAsked
    <3>2. prop' = prop BY <3>1 DEF VcAnswers
    <3>3. NotAsked' BY <1>2, <2>2 DEF NotAsked
    <3>4. NotReplied => NotReplied' BY <1>3, <3>1 DEF NotReplied
    <3>5. ~Waits(pc[1]) BY <1>2, <2>2 DEF Waits, NotAsked
    <3>6. Replied(pc[1]) => Replied(pc[1])' BY <1>4, <3>2, <3>3 DEF Replied, Values
    <3> QED BY <1>1, <1>4, <3>2, <3>3, <3>4, <3>5, <3>6, <2>1 DEF QuestionOK, Asks
  <2>3. CASE ~NotAsked
    <3>1. pc[1] \in PropertyCalls /\ pc[2] = "wait" /\ Waits(pc[1])
      BY <1>1, <2>1, <2>3 DEF QuestionOK, Replied
    <3>2. CASE Len(inbox) = 1
      <4>1. Head(inbox) = "property" BY <1>2, <3>1, <3>2 DEF Waits
      <4>2. prop.tag[2] = pc[1] BY <3>1 DEF Waits, Asks
      <4>3. PICK v \in Values(pc[1]) : prop' = [tag |-> <<"answers", pc[1]>>, data |-> v]
        BY <4>1, <4>2 DEF VcAnswers
      <4>4. NotAsked' BY <1>2, <3>2 DEF NotAsked
      <4>5. Replied(pc[1])' BY <1>4, <4>3, <4>4 DEF Replied, Values
      <4> QED BY <1>4, <3>1, <4>5 DEF QuestionOK
    <3>3. CASE Len(inbox) # 1
      <4>1. Head(inbox) # "property" BY <1>2, <3>1, <3>3 DEF Waits
      <4>2. prop' = prop BY <4>1 DEF VcAnswers
      <4>3. NotReplied' BY <1>3, <3>1, <4>1 DEF NotReplied, Waits
      <4>4. inbox'[Len(inbox')] = "property" /\ inbox' # <<>>
        <5>1. Len(inbox) - 1 \in 1 .. Len(inbox) - 1 /\ (Len(inbox) - 1) + 1 = Len(inbox) BY <1>2, <3>3
        <5>2. inbox'[Len(inbox) - 1] = inbox[Len(inbox)] BY <1>2, <5>1
        <5>3. inbox[Len(inbox)] = "property" BY <3>1 DEF Waits
        <5>4. Len(inbox') # 0 BY <1>2, <5>1
        <5> QED BY <1>2, <5>2, <5>3, <5>4
      <4>5. \A i \in 1 .. Len(inbox') - 1 : inbox'[i] # "property" BY <1>2, <3>1 DEF Waits
      <4>6. Waits(pc[1])' BY <1>4, <3>1, <4>2, <4>3, <4>4, <4>5 DEF Waits, Asks
      <4> QED BY <1>4, <3>1, <4>6 DEF QuestionOK
    <3> QED BY <3>2, <3>3
  <2> QED BY <2>2, <2>3
<1>7. HeapOK' BY <1>1, <1>4 DEF HeapOK, Regions
<1>8. RateOK'
  <2>1. CASE pc[1] = "clock" /\ pc[2] # "ask" /\ prop' # prop
    <3>1. prop.tag[2] = "clock" BY <1>1, <2>1 DEF RateOK
    <3>2. PICK v \in Clocks : prop' = [tag |-> <<"answers", "clock">>, data |-> v]
      BY <2>1, <3>1 DEF VcAnswers, Values
    <3> QED BY <1>1, <1>4, <3>2 DEF RateOK
  <2>2. CASE ~(pc[1] = "clock" /\ pc[2] # "ask" /\ prop' # prop) BY <1>1, <1>4, <2>2 DEF RateOK
  <2> QED BY <2>1, <2>2
<1>9. CardOK' BY <1>1, <1>4 DEF CardOK
<1> QED BY <1>5, <1>6, <1>7, <1>8, <1>9 DEF RpiInv, MailInv, ClockInv

\* The places a request goes through.
LEMMA CallPlace ==
  ASSUME PlacesOK, pc[2] \in {"ask", "send", "wait"}
  PROVE  /\ pc = <<pc[1], pc[2]>> /\ pc[1] \in Calls
         /\ ChannelOf(pc[1]) \in Channels
         /\ CallbackOf(ChannelOf(pc[1])) \in {"prop_cb", "mode_cb", "power_cb"}
         /\ ChannelOf(pc[1]) = "property" <=> pc[1] \in PropertyCalls
         /\ CallbackOf(ChannelOf(pc[1])) = "prop_cb" <=> pc[1] \in PropertyCalls
         /\ CallbackOf(ChannelOf(pc[1])) = "power_cb" <=> pc[1] = "set_power"
<1>1. pc = <<pc[1], pc[2]>> /\ pc[1] \in Calls BY DEF PlacesOK
<1>2. CASE pc[1] \in PropertyCalls
  <2>1. ChannelOf(pc[1]) = "property" BY <1>2 DEF PropertyCalls, ChannelOf
  <2>2. CallbackOf("property") = "prop_cb" BY DEF CallbackOf
  <2> QED BY <1>1, <1>2, <2>1, <2>2 DEF PropertyCalls, Channels
<1>3. CASE pc[1] = "screen"
  <2>1. ChannelOf(pc[1]) = "framebuffer" BY <1>3 DEF ChannelOf
  <2>2. CallbackOf("framebuffer") = "mode_cb" BY DEF CallbackOf
  <2> QED BY <1>1, <1>3, <2>1, <2>2 DEF PropertyCalls, Channels
<1>4. CASE pc[1] = "set_power"
  <2>1. ChannelOf(pc[1]) = "power" BY <1>4 DEF ChannelOf
  <2>2. CallbackOf("power") = "power_cb" BY DEF CallbackOf
  <2> QED BY <1>1, <1>4, <2>1, <2>2 DEF PropertyCalls, Channels
<1> QED BY <1>1, <1>2, <1>3, <1>4 DEF Calls

LEMMA AskKeeps ==
  ASSUME RpiInv, Ask
  PROVE  RpiInv'
<1> DEFINE c == ChannelOf(pc[1])
<1>1. PlacesOK /\ QuestionOK /\ HeapOK /\ RateOK /\ CardOK BY DEF RpiInv, MailInv, ClockInv
<1>2. /\ pc = <<pc[1], "ask">> /\ pc[1] \in Calls
      /\ c \in Channels /\ CallbackOf(c) \in {"prop_cb", "mode_cb", "power_cb"}
      /\ c = "property" <=> pc[1] \in PropertyCalls
      /\ CallbackOf(c) = "prop_cb" <=> pc[1] \in PropertyCalls
      /\ CallbackOf(c) = "power_cb" <=> pc[1] = "set_power"
  <2>1. pc[2] \in {"ask", "send", "wait"} BY DEF Ask
  <2> QED BY <1>1, <2>1, CallPlace DEF Ask
<1>3. /\ got' = got \ {CallbackOf(c)}
      /\ prop' = IF c = "property" THEN [tag |-> <<"asks", pc[1]>>, data |-> 0] ELSE prop
      /\ cbs' = [cbs EXCEPT ![c] = CallbackOf(c)]
      /\ pc' = <<pc[1], "send">>
      /\ UNCHANGED <<inbox, outbox, heap, rate, control1, stale, given, strict, stray>>
  BY DEF Ask, Forget, card, settings
<1> HIDE DEF c
<1>4. PlacesOK' BY <1>1, <1>2, <1>3 DEF PlacesOK
<1>5. QuestionOK'
  <2>1. stray # "property" => NotAsked /\ NotReplied BY <1>1, <1>2 DEF QuestionOK
  <2>2. stray # "property" => NotAsked' /\ NotReplied' BY <1>3, <2>1 DEF NotAsked, NotReplied
  <2>3. pc[1] \in PropertyCalls => Asks(pc[1])' BY <1>2, <1>3 DEF Asks
  <2> QED BY <1>3, <2>2, <2>3 DEF QuestionOK
<1>6. HeapOK' BY <1>1, <1>3 DEF HeapOK, Regions
<1>7. RateOK'
  <2>1. pc[1] = "clock" => prop' = [tag |-> <<"asks", "clock">>, data |-> 0]
    BY <1>2, <1>3 DEF PropertyCalls
  <2> QED BY <1>1, <1>3, <2>1 DEF RateOK
<1>8. CardOK'
  <2>1. pc[1] = "set_power" => "power_cb" \notin got' BY <1>2, <1>3
  <2> QED BY <1>1, <1>2, <1>3, <2>1 DEF CardOK, Calls, PropertyCalls
<1> QED BY <1>4, <1>5, <1>6, <1>7, <1>8 DEF RpiInv, MailInv, ClockInv

LEMMA SendKeeps ==
  ASSUME RpiInv, Send
  PROVE  RpiInv'
<1> DEFINE c == ChannelOf(pc[1])
<1>1. PlacesOK /\ QuestionOK /\ HeapOK /\ RateOK /\ CardOK BY DEF RpiInv, MailInv, ClockInv
<1>2. /\ pc = <<pc[1], "send">> /\ pc[1] \in Calls
      /\ c \in Channels
      /\ c = "property" <=> pc[1] \in PropertyCalls
  <2>1. pc[2] \in {"ask", "send", "wait"} BY DEF Send
  <2> QED BY <1>1, <2>1, CallPlace DEF Send
<1>3. /\ inbox' = Append(inbox, c) /\ pc' = <<pc[1], "wait">>
      /\ UNCHANGED <<outbox, cbs, got, prop, heap, rate, control1, stale, given, strict, stray>>
  BY DEF Send, card, settings
<1> HIDE DEF c
<1>4. /\ inbox' \in Seq(Channels) /\ Len(inbox') = Len(inbox) + 1 /\ inbox' # <<>>
      /\ inbox'[Len(inbox) + 1] = c /\ \A i \in 1 .. Len(inbox) : inbox'[i] = inbox[i]
      /\ Len(inbox) \in Nat
  <2>1. inbox \in Seq(Channels) BY <1>1 DEF PlacesOK
  <2>2. c \in Channels /\ inbox' = Append(inbox, c) BY <1>2, <1>3
  <2> QED BY <2>1, <2>2, PutsIn
<1>5. PlacesOK' BY <1>1, <1>2, <1>3, <1>4 DEF PlacesOK
<1>6. QuestionOK'
  <2>1. SUFFICES ASSUME stray # "property" PROVE QuestionOK'
    BY <1>3 DEF QuestionOK
  <2>2. NotAsked /\ NotReplied BY <1>1, <1>2, <2>1 DEF QuestionOK
  <2>3. NotReplied' BY <1>3, <2>2 DEF NotReplied
  <2>4. CASE pc[1] \in PropertyCalls
    <3>1. Asks(pc[1])' BY <1>1, <1>2, <1>3, <2>1, <2>4 DEF QuestionOK, Asks
    <3>2. \A i \in 1 .. Len(inbox') - 1 : inbox'[i] # "property" BY <1>4, <2>2 DEF NotAsked
    <3>3. inbox'[Len(inbox')] = "property" BY <1>2, <1>4, <2>4
    <3>4. Waits(pc[1])' BY <1>3, <1>4, <2>3, <3>1, <3>2, <3>3 DEF Waits, Asks
    <3> QED BY <1>3, <2>4, <3>4 DEF QuestionOK
  <2>5. CASE pc[1] \notin PropertyCalls
    <3>1. NotAsked' BY <1>2, <1>4, <2>2, <2>5 DEF NotAsked
    <3> QED BY <1>3, <2>3, <2>5, <3>1 DEF QuestionOK
  <2> QED BY <2>4, <2>5
<1>7. HeapOK' BY <1>1, <1>3 DEF HeapOK, Regions
<1>8. RateOK' BY <1>1, <1>2, <1>3 DEF RateOK
<1>9. CardOK'
  <2>1. pc[1] # "card" /\ pc[1] # "started" BY <1>2 DEF Calls, PropertyCalls
  <2>2. pc'[1] = pc[1] /\ pc'[2] = "wait" BY <1>3
  <2>3. pc[1] = "set_power" => "power_cb" \notin got BY <1>1, <1>2 DEF CardOK
  <2> QED BY <1>1, <1>3, <2>1, <2>2, <2>3 DEF CardOK
<1> QED BY <1>5, <1>6, <1>7, <1>8, <1>9 DEF RpiInv, MailInv, ClockInv

LEMMA PollKeeps ==
  ASSUME RpiInv, Poll
  PROVE  RpiInv'
<1>1. PlacesOK /\ QuestionOK /\ HeapOK /\ RateOK /\ CardOK BY DEF RpiInv, MailInv, ClockInv
<1>2. /\ outbox' = Tail(outbox) /\ Tail(outbox) \in Seq([channel : Channels, value : {0}])
      /\ Head(outbox) \in [channel : Channels, value : {0}] /\ Head(outbox) = outbox[1]
      /\ Len(outbox') = Len(outbox) - 1 /\ Len(outbox) \in Nat \ {0}
      /\ \A i \in 1 .. Len(outbox) - 1 : outbox'[i] = outbox[i + 1]
  <2>1. outbox \in Seq([channel : Channels, value : {0}]) /\ outbox # <<>> /\ outbox' = Tail(outbox)
    BY <1>1 DEF Poll, PlacesOK
  <2> QED BY <2>1, TakesQuestion
<1>3. /\ UNCHANGED <<pc, inbox, cbs, prop, heap, rate, control1, stale, given, strict, stray>>
      /\ got' \in {got, got \cup {cbs[Head(outbox).channel]}}
      /\ pc[2] = "wait" /\ pc[1] # "set_power"
  BY DEF Poll, Polls, card, settings
<1>4. PlacesOK' BY <1>1, <1>2, <1>3 DEF PlacesOK
<1>5. QuestionOK'
  <2>1. NotReplied => NotReplied' BY <1>2 DEF NotReplied
  <2>2. NotReplied /\ "prop_cb" \notin got => "prop_cb" \notin got'
    <3>1. NotReplied => Head(outbox).channel \in Channels \ {"property"} BY <1>2 DEF NotReplied
    <3>2. NotReplied => cbs[Head(outbox).channel] # "prop_cb" BY <1>1, <3>1 DEF PlacesOK
    <3> QED BY <1>3, <3>2
  <2>3. NotAsked => NotAsked' BY <1>3 DEF NotAsked
  <2>4. Waits(pc[1]) => Waits(pc[1])' BY <1>3, <2>1, <2>2 DEF Waits, Asks
  <2>5. Replied(pc[1]) => Replied(pc[1])' BY <1>3, <2>3 DEF Replied, Values
  <2> QED BY <1>1, <1>3, <2>1, <2>3, <2>4, <2>5 DEF QuestionOK
<1>6. HeapOK' BY <1>1, <1>3 DEF HeapOK, Regions
<1>7. RateOK' BY <1>1, <1>3 DEF RateOK
<1>8. CardOK' BY <1>1, <1>3 DEF CardOK
<1> QED BY <1>4, <1>5, <1>6, <1>7, <1>8 DEF RpiInv, MailInv, ClockInv

\* When the flag is seen and the mailbox is drained, the buffer holds the answer.
LEMMA AnsweredIs ==
  ASSUME RpiInv, Answered, stray # "property"
  PROVE  /\ pc[1] \in PropertyCalls => Replied(pc[1])
         /\ NotAsked
         /\ pc[1] # "set_power" => NotReplied
<1>1. PlacesOK /\ QuestionOK BY DEF RpiInv, MailInv
<1>2. pc[2] = "wait" BY DEF Answered
<1>3. pc[1] \in Calls BY <1>1, <1>2, CallPlace
<1>4. CASE pc[1] \in PropertyCalls
  <2>1. CallbackOf(ChannelOf(pc[1])) = "prop_cb" BY <1>1, <1>2, <1>4, CallPlace
  <2>2. "prop_cb" \in got BY <2>1 DEF Answered
  <2>3. Replied(pc[1]) BY <1>1, <1>2, <1>4, <2>2 DEF QuestionOK, Waits, Asks
  <2>4. outbox = <<>> BY <1>2, <1>4 DEF Answered, Polls, PropertyCalls
  <2> QED BY <2>3, <2>4 DEF Replied, NotReplied
<1>5. CASE pc[1] \notin PropertyCalls BY <1>1, <1>5 DEF QuestionOK
<1> QED BY <1>4, <1>5

\* A step that leaves the mailbox alone and goes on to where nothing is asked.
LEMMA MailLeft ==
  ASSUME RpiInv, ~(pc'[1] \in PropertyCalls /\ pc'[2] \in {"send", "wait"}),
         stray # "property" => NotAsked /\ NotReplied,
         UNCHANGED <<inbox, outbox, stray>>
  PROVE  QuestionOK'
BY DEF QuestionOK, NotAsked, NotReplied

LEMMA SetupMemoryKeeps ==
  ASSUME RpiInv, SetupMemory
  PROVE  RpiInv'
<1>1. PlacesOK /\ QuestionOK /\ HeapOK /\ RateOK /\ CardOK BY DEF RpiInv, MailInv, ClockInv
<1>2. /\ pc[1] = "memory" /\ Answered
      /\ heap' = Regions(KernelEnd, prop.data - KernelEnd) /\ pc' = <<"screen", "ask">>
      /\ UNCHANGED <<inbox, outbox, cbs, got, prop, rate, control1, stale, given, strict, stray>>
  BY DEF SetupMemory, asked, card, settings
<1>3. stray # "property" => Replied("memory") /\ NotAsked /\ NotReplied
  BY <1>2, AnsweredIs DEF PropertyCalls
<1>4. PlacesOK' BY <1>1, <1>2 DEF PlacesOK, Calls
<1>5. QuestionOK' BY <1>2, <1>3, MailLeft DEF PropertyCalls
<1>6. HeapOK'
  <2>1. stray # "property" => prop.data = given BY <1>3 DEF Replied, Values
  <2> QED BY <1>2, <2>1 DEF HeapOK, Regions
<1>7. RateOK' BY <1>1, <1>2 DEF RateOK
<1>8. CardOK' BY <1>1, <1>2 DEF CardOK
<1> QED BY <1>4, <1>5, <1>6, <1>7, <1>8 DEF RpiInv, MailInv, ClockInv

LEMMA GoOnKeeps ==
  ASSUME RpiInv, GoOn
  PROVE  RpiInv'
<1>1. PlacesOK /\ QuestionOK /\ HeapOK /\ RateOK /\ CardOK BY DEF RpiInv, MailInv, ClockInv
<1>2. /\ pc[1] \in {"screen", "off", "on"} /\ Answered
      /\ \/ pc' = <<"off", "ask">> \/ pc' = <<"on", "ask">> \/ pc' = <<"card", "reset">>
      /\ UNCHANGED <<inbox, outbox, cbs, got, prop, heap, rate, control1, stale, given, strict, stray>>
  BY DEF GoOn, Following, asked, card, settings
<1>3. stray # "property" => NotAsked /\ NotReplied BY <1>2, AnsweredIs
<1>4. /\ pc' = <<pc'[1], pc'[2]>> /\ pc'[1] \in {"off", "on", "card"}
      /\ pc'[2] = IF pc'[1] = "card" THEN "reset" ELSE "ask"
  BY <1>2
<1>5. PlacesOK' BY <1>1, <1>2, <1>4 DEF PlacesOK, Calls, PropertyCalls
<1>6. QuestionOK' BY <1>2, <1>3, MailLeft
<1>7. HeapOK' BY <1>1, <1>2 DEF HeapOK, Regions
<1>8. RateOK' BY <1>1, <1>2 DEF RateOK
<1>9. CardOK'
  <2>1. pc' # <<"card", "stable">> /\ pc' # <<"card", "identify">> /\ pc' # <<"started", "idle">> BY <1>2
  <2> QED BY <1>1, <1>2, <1>4, <2>1 DEF CardOK
<1> QED BY <1>5, <1>6, <1>7, <1>8, <1>9 DEF RpiInv, MailInv, ClockInv

LEMMA BaseClockKeeps ==
  ASSUME RpiInv, GetBaseClock
  PROVE  RpiInv'
<1>1. PlacesOK /\ QuestionOK /\ HeapOK /\ RateOK /\ CardOK BY DEF RpiInv, MailInv, ClockInv
<1>2. /\ pc[1] = "clock" /\ Answered
      /\ rate' = IF prop.data = 0 THEN 1000 ELSE prop.data
      /\ pc' = <<"card", "enable">>
      /\ UNCHANGED <<inbox, outbox, cbs, got, prop, heap, control1, stale, given, strict, stray>>
  BY DEF GetBaseClock, asked, card, settings
<1>3. stray # "property" => NotAsked /\ NotReplied BY <1>2, AnsweredIs
<1>4. PlacesOK' BY <1>1, <1>2 DEF PlacesOK
<1>5. QuestionOK' BY <1>2, <1>3, MailLeft
<1>6. HeapOK' BY <1>1, <1>2 DEF HeapOK, Regions
<1>7. RateOK'
  <2>1. prop.data \in Clocks \cup {0} BY <1>1, <1>2 DEF RateOK, Answered
  <2> QED BY <1>2, <2>1 DEF RateOK
<1>8. CardOK' BY <1>1, <1>2 DEF CardOK
<1> QED BY <1>4, <1>5, <1>6, <1>7, <1>8 DEF RpiInv, MailInv, ClockInv

LEMMA SetPowerKeeps ==
  ASSUME RpiInv, SetPower
  PROVE  RpiInv'
<1>1. PlacesOK /\ QuestionOK /\ HeapOK /\ RateOK /\ CardOK BY DEF RpiInv, MailInv, ClockInv
<1>2. /\ pc[1] = "started" /\ pc' = <<"set_power", "ask">>
      /\ UNCHANGED <<inbox, outbox, cbs, got, prop, heap, rate, control1, stale, given, strict, stray>>
  BY DEF SetPower, asked, card, settings
<1>3. stray # "property" => NotAsked /\ NotReplied BY <1>1, <1>2 DEF QuestionOK, PropertyCalls
<1>4. PlacesOK' BY <1>1, <1>2 DEF PlacesOK, Calls
<1>5. QuestionOK' BY <1>2, <1>3, MailLeft
<1>6. HeapOK' BY <1>1, <1>2 DEF HeapOK, Regions
<1>7. RateOK' BY <1>1, <1>2 DEF RateOK
<1>8. CardOK' BY <1>1, <1>2 DEF CardOK
<1> QED BY <1>4, <1>5, <1>6, <1>7, <1>8 DEF RpiInv, MailInv, ClockInv

\* It never does.
LEMMA PowerWaits ==
  ASSUME RpiInv, SetPowerReturns
  PROVE  FALSE
<1>1. PlacesOK /\ CardOK BY DEF RpiInv, MailInv, ClockInv
<1>2. pc[1] = "set_power" /\ pc[2] = "wait" /\ CallbackOf(ChannelOf(pc[1])) \in got
  BY DEF SetPowerReturns, Answered
<1>3. CallbackOf(ChannelOf(pc[1])) = "power_cb" BY <1>2 DEF CallbackOf, ChannelOf
<1> QED BY <1>1, <1>2, <1>3 DEF CardOK

\* The three steps of a switch of the clock's rate.
LEMMA SwitchIs ==
  ASSUME SwitchClockRate
  PROVE  /\ pc[1] = "card" /\ pc[2] \in {"identify", "new rate", "clock on"}
         /\ pc' = <<pc'[1], pc'[2]>>
         /\ \/ pc'[1] = "card" /\ pc'[2] \in {"new rate", "clock on"}
            \/ pc'[1] = "started" /\ pc'[2] = "idle" /\ control1' = [control1 EXCEPT !.sd = TRUE]
         /\ DOMAIN control1' = DOMAIN control1 /\ stale' = stale
<1>1. CASE pc = <<"card", "identify">>
  <2>1. pc' = <<"card", "new rate">> /\ control1' = [control1 EXCEPT !.sd = FALSE] /\ stale' = stale
    BY <1>1 DEF SwitchClockRate
  <2> QED BY <1>1, <2>1
<1>2. CASE pc = <<"card", "new rate">>
  <2>1. /\ pc' = <<"card", "clock on">> /\ stale' = stale
        /\ control1' = [control1 EXCEPT !.divisor = GetClockDivider(rate, 250)]
    BY <1>2 DEF SwitchClockRate
  <2> QED BY <1>2, <2>1
<1>3. CASE pc = <<"card", "clock on">>
  <2>1. pc' = <<"started", "idle">> /\ control1' = [control1 EXCEPT !.sd = TRUE] /\ stale' = stale
    BY <1>3 DEF SwitchClockRate
  <2> QED BY <1>3, <2>1
<1> QED BY <1>1, <1>2, <1>3 DEF SwitchClockRate

LEMMA CardClockKeeps ==
  ASSUME RpiInv, CardClock
  PROVE  RpiInv'
<1>1. PlacesOK /\ QuestionOK /\ HeapOK /\ RateOK /\ CardOK BY DEF RpiInv, MailInv, ClockInv
<1>2. UNCHANGED <<inbox, outbox, cbs, got, prop, heap, rate, given, strict, stray>>
  BY DEF CardClock, ResetController, EnableClock, SetIdentificationRate, AwaitStable, SwitchClockRate,
         asked, settings
<1>3. /\ pc[1] = "card"
      /\ pc' = <<pc'[1], pc'[2]>>
      /\ \/ pc'[1] = "clock" /\ pc'[2] = "ask"
         \/ pc'[1] = "started" /\ pc'[2] \in {"idle", "no card"}
         \/ pc'[1] = "card" /\ pc'[2] \in {"divide", "stable", "identify", "new rate", "clock on"}
  <2>1. CASE ResetController BY <2>1 DEF ResetController
  <2>2. CASE EnableClock BY <2>2 DEF EnableClock
  <2>3. CASE SetIdentificationRate BY <2>3 DEF SetIdentificationRate
  <2>4. CASE AwaitStable
    <3>1. pc = <<"card", "stable">> /\ (pc' = <<"started", "no card">> \/ pc' = <<"card", "identify">>)
      BY <2>4 DEF AwaitStable
    <3>2. CASE pc' = <<"started", "no card">> BY <3>1, <3>2
    <3>3. CASE pc' = <<"card", "identify">> BY <3>1, <3>3
    <3> QED BY <3>1, <3>2, <3>3
  <2>5. CASE SwitchClockRate BY <2>5, SwitchIs
  <2> QED BY <2>1, <2>2, <2>3, <2>4, <2>5 DEF CardClock
<1>4. PlacesOK' BY <1>1, <1>2, <1>3 DEF PlacesOK, Calls, PropertyCalls
<1>5. stray # "property" => NotAsked /\ NotReplied BY <1>1, <1>3 DEF QuestionOK, PropertyCalls
<1>6. QuestionOK' BY <1>2, <1>3, <1>5, MailLeft DEF PropertyCalls
<1>7. HeapOK' BY <1>1, <1>2 DEF HeapOK, Regions
<1>8. RateOK'
  <2>1. ~(pc'[1] = "clock" /\ pc'[2] # "ask") BY <1>3
  <2> QED BY <1>1, <1>2, <2>1 DEF RateOK
<1>9. CardOK'
  <2>1. CASE ResetController
    <3>1. stale' = [control1 EXCEPT !.enable = FALSE, !.sd = FALSE] /\ pc' = <<"clock", "ask">>
          /\ control1' \in {Off, stale'}
      BY <2>1 DEF ResetController, AfterReset
    <3>2. DOMAIN stale' = CardFields BY <1>1, <3>1 DEF CardOK
    <3>3. DOMAIN control1' = CardFields BY <3>1, <3>2 DEF Off, CardFields
    <3> QED BY <3>1, <3>2, <3>3 DEF CardOK
  <2>2. CASE EnableClock
    <3>1. control1' = [control1 EXCEPT !.enable = TRUE] /\ pc' = <<"card", "divide">> /\ stale' = stale
      BY <2>2 DEF EnableClock
    <3>2. DOMAIN control1' = CardFields BY <1>1, <3>1 DEF CardOK
    <3> QED BY <1>1, <3>1, <3>2 DEF CardOK
  <2>3. CASE SetIdentificationRate
    <3>1. /\ control1' = IF strict THEN Off ELSE [stale EXCEPT !.divisor = GetClockDivider(rate, 4)]
          /\ pc' = <<"card", "stable">> /\ stale' = stale
      BY <2>3 DEF SetIdentificationRate, AfterReset
    <3>2. DOMAIN control1' = CardFields BY <1>1, <3>1 DEF CardOK, Off, CardFields
    <3>3. ~strict => control1'.divisor = GetClockDivider(rate, 4) BY <1>1, <3>1 DEF CardOK, CardFields
    <3> QED BY <1>1, <1>2, <3>1, <3>2, <3>3 DEF CardOK
  <2>4. CASE AwaitStable
    <3>1. pc = <<"card", "stable">> /\ stale' = stale BY <2>4 DEF AwaitStable
    <3>2. CASE strict
      <4>1. control1 = Off BY <1>1, <3>1, <3>2 DEF CardOK
      <4>2. pc' = <<"started", "no card">> /\ control1' = control1 BY <2>4, <3>2, <4>1 DEF AwaitStable, Off
      <4> QED BY <1>1, <1>2, <3>1, <3>2, <4>1, <4>2 DEF CardOK, Off
    <3>3. CASE ~strict
      <4>1. pc' = <<"card", "identify">> /\ control1' = [control1 EXCEPT !.sd = TRUE]
        BY <2>4, <3>3 DEF AwaitStable
      <4>2. control1.divisor = GetClockDivider(rate, 4) BY <1>1, <3>1, <3>3 DEF CardOK
      <4>3. DOMAIN control1' = CardFields /\ control1'.sd /\ control1'.divisor = control1.divisor
        BY <1>1, <4>1 DEF CardOK, CardFields
      <4> QED BY <1>1, <1>2, <3>1, <3>3, <4>1, <4>2, <4>3 DEF CardOK
    <3> QED BY <3>2, <3>3
  <2>5. CASE SwitchClockRate
    <3>1. ~strict
      <4>1. pc[1] = "card" /\ pc[2] \in {"identify", "new rate", "clock on"} BY <2>5, SwitchIs
      <4> QED BY <1>1, <4>1 DEF CardOK
    <3>2. DOMAIN control1' = CardFields /\ DOMAIN stale' = CardFields BY <1>1, <2>5, SwitchIs DEF CardOK
    <3>3. /\ \/ pc'[1] = "card" /\ pc'[2] \in {"new rate", "clock on"}
             \/ pc'[1] = "started" /\ pc'[2] = "idle" /\ control1' = [control1 EXCEPT !.sd = TRUE]
      BY <2>5, SwitchIs
    <3>4. pc'[1] = "started" => control1'.sd BY <1>1, <3>3 DEF CardOK, CardFields
    <3>5. pc' # <<"card", "stable">> /\ pc' # <<"card", "identify">> /\ pc'[1] # "set_power"
      <4>1. pc'[2] \in {"new rate", "clock on", "idle"} /\ pc'[1] # "set_power"
        <5>1. CASE pc'[1] = "card" BY <3>3, <5>1
        <5>2. CASE pc'[1] # "card" BY <3>3, <5>2
        <5> QED BY <5>1, <5>2
      <4>2. ASSUME pc' = <<"card", "stable">> PROVE FALSE
        <5>1. pc'[2] = "stable" BY <4>2
        <5> QED BY <4>1, <5>1
      <4>3. ASSUME pc' = <<"card", "identify">> PROVE FALSE
        <5>1. pc'[2] = "identify" BY <4>3
        <5> QED BY <4>1, <5>1
      <4> QED BY <4>1, <4>2, <4>3
    <3>6. ~strict' BY <1>2, <3>1
    <3> QED BY <3>2, <3>4, <3>5, <3>6 DEF CardOK
  <2> QED BY <2>1, <2>2, <2>3, <2>4, <2>5 DEF CardClock
<1> QED BY <1>4, <1>6, <1>7, <1>8, <1>9 DEF RpiInv, MailInv, ClockInv

\* A step that is not of this machine.
LEMMA RpiStutters ==
  ASSUME RpiInv, UNCHANGED rpiVars
  PROVE  RpiInv'
<1>1. UNCHANGED <<pc, inbox, outbox, cbs, got, prop, heap, rate, control1, stale, given, strict, stray>>
  BY DEF rpiVars, asked, card, settings
<1>2. PlacesOK /\ QuestionOK /\ HeapOK /\ RateOK /\ CardOK BY DEF RpiInv, MailInv, ClockInv
<1>3. PlacesOK' BY <1>1, <1>2 DEF PlacesOK
<1>4. QuestionOK'
  <2>1. (NotAsked' <=> NotAsked) /\ (NotReplied' <=> NotReplied) BY <1>1 DEF NotAsked, NotReplied
  <2>2. \A p \in PropertyCalls : Asks(p)' <=> Asks(p) BY <1>1 DEF Asks
  <2>3. \A p \in PropertyCalls : Waits(p)' <=> Waits(p) BY <1>1, <2>1 DEF Waits, Asks
  <2>4. \A p \in PropertyCalls : Replied(p)' <=> Replied(p) BY <1>1, <2>1 DEF Replied, Values
  <2> QED BY <1>1, <1>2, <2>1, <2>2, <2>3, <2>4 DEF QuestionOK
<1>5. HeapOK' BY <1>1, <1>2 DEF HeapOK, Regions
<1>6. RateOK' BY <1>1, <1>2 DEF RateOK
<1>7. CardOK' BY <1>1, <1>2 DEF CardOK
<1> QED BY <1>3, <1>4, <1>5, <1>6, <1>7 DEF RpiInv, MailInv, ClockInv

LEMMA RpiKeeps ==
  ASSUME RpiInv, RpiNext
  PROVE  RpiInv'
BY VcKeeps, AskKeeps, SendKeeps, PollKeeps, SetupMemoryKeeps, GoOnKeeps, BaseClockKeeps, SetPowerKeeps,
   PowerWaits, CardClockKeeps DEF RpiNext, Setup

-----------------------------------------------------------------------------
(***************************************************************************)
(* What follows from it.                                                   *)
(***************************************************************************)

LEMMA UnionOfTwo ==
  ASSUME NEW H, NEW a, NEW b, H = {a, b}
  PROVE  UNION {Within(r) : r \in H} = Within(a) \cup Within(b)
OBVIOUS

\* The two regions of the heap, whichever part of the ramdisk the memory ends in.
LEMMA HeapIsRest ==
  ASSUME given \in Nat, heap = Regions(KernelEnd, given - KernelEnd)
  PROVE  UNION {Within(r) : r \in heap} = (KernelEnd .. given - 1) \ (RamdiskStart .. RamdiskEnd - 1)
<1> DEFINE rest == (1 .. given - 1) \ (8 .. 11)
<1>1. CASE given > 12
  <2>1. heap = {<<12, given - 12>>, <<1, 7>>}
    BY <1>1 DEF Regions, KernelEnd, RamdiskStart, RamdiskEnd
  <2>2. UNION {Within(r) : r \in heap} = Within(<<12, given - 12>>) \cup Within(<<1, 7>>)
    BY <2>1, UnionOfTwo
  <2>3. Within(<<12, given - 12>>) = 12 .. given - 1 /\ Within(<<1, 7>>) = 1 .. 7
    BY <1>1 DEF Within
  <2>4. (12 .. given - 1) \cup (1 .. 7) = rest BY <1>1
  <2>5. UNION {Within(r) : r \in heap} = rest BY <2>2, <2>3, <2>4
  <2> QED BY <2>5 DEF KernelEnd, RamdiskStart, RamdiskEnd
<1>2. CASE given <= 12
  <2>1. PICK n \in Int : n = IF given > 8 THEN 7 ELSE given - 1 OBVIOUS
  <2>2. heap = {<<1, n>>} BY <1>2, <2>1 DEF Regions, KernelEnd, RamdiskStart, RamdiskEnd
  <2>3. UNION {Within(r) : r \in heap} = Within(<<1, n>>) \cup Within(<<1, n>>)
    BY <2>2, UnionOfTwo
  <2>4. Within(<<1, n>>) = 1 .. n BY DEF Within
  <2>5. 1 .. n = rest BY <1>2, <2>1
  <2>6. UNION {Within(r) : r \in heap} = rest BY <2>3, <2>4, <2>5
  <2> QED BY <2>6 DEF KernelEnd, RamdiskStart, RamdiskEnd
<1> QED BY <1>1, <1>2

LEMMA RpiIsRight ==
  ASSUME RpiInv, \A c \in Clocks : c <= 8184
  PROVE  AnswersOwn /\ HeapIsTheRest /\ CommandsClocked /\ TooFastOnlyIf
<1>1. PlacesOK /\ QuestionOK /\ HeapOK /\ RateOK /\ CardOK BY DEF RpiInv, MailInv, ClockInv
<1>2. AnswersOwn
  <2>1. SUFFICES ASSUME pc[1] \in PropertyCalls, Answered, stray # "property"
                 PROVE  prop.tag = <<"answers", pc[1]>>
    BY DEF AnswersOwn, PropertyCalls
  <2> QED BY <2>1, AnsweredIs DEF Replied
<1>3. HeapIsTheRest BY <1>1, HeapIsRest DEF HeapIsTheRest, HeapOK, PlacesOK
<1>4. CommandsClocked
  <2>1. pc = <<"card", "identify">> => ~strict BY <1>1 DEF CardOK
  <2>2. pc = <<"started", "idle">> => control1.sd BY <1>1 DEF CardOK
  <2> QED BY <1>1, <2>1, <2>2 DEF CommandsClocked, CardOK
<1>5. TooFastOnlyIf
  <2>1. rate \in Nat /\ rate <= 8184 BY <1>1, RpiAssumption DEF RateOK
  <2>2. SUFFICES ASSUME rate # 0, NEW target \in {4, 250} PROVE TooFast(rate, target)
    BY DEF TooFastOnlyIf, TooFast
  <2>3. rate > 0 BY <2>1, <2>2
  <2> QED BY <2>1, <2>3, TooFastIs
<1> QED BY <1>2, <1>3, <1>4, <1>5

\* RpiRight, on a Raspberry Pi's start in every order of the VideoCore's answers and
\* platform_setup's steps, for any depth of the mailbox, message waiting and memory; for
\* base clocks up to 818.4 MHz, which the divider's ten bits can bring down to 400 kHz.
THEOREM RpiStaysRight ==
  ASSUME \A c \in Clocks : c <= 8184
  PROVE  Spec => []RpiRight
<1>1. Init => RpiInv BY RpiStarts DEF Init
<1>2. RpiInv /\ [Next]_startUpVars => RpiInv'
  <2>1. SUFFICES ASSUME RpiInv, [Next]_startUpVars PROVE RpiInv' OBVIOUS
  <2>2. CASE OnRpi(RpiNext) BY <2>1, <2>2, RpiKeeps DEF OnRpi
  <2>3. CASE ~OnRpi(RpiNext)
    <3>1. UNCHANGED rpiVars BY <2>1, <2>3 DEF Next, OnMedium, OnPc, OnTables, startUpVars
    <3> QED BY <2>1, <3>1, RpiStutters
  <2> QED BY <2>2, <2>3
<1>3. RpiInv => RpiRight BY RpiIsRight DEF RpiRight
<1> QED BY <1>1, <1>2, <1>3, PTL DEF Spec

-----------------------------------------------------------------------------
(***************************************************************************)
(* The keys.                                                               *)
(***************************************************************************)

\* What the controller holds at each place of the constructor of PS2: the byte that was
\* written last, unless it was taken; and a key, nothing, or the answer to a question.
LastWritten ==
  <<Empty, "disable 1", "disable 2", "disable 2", "read config", Empty, "write config", "irq off",
    "self test", Empty, "test 1", Empty, "write config", "irq on", "enable 1", "enable 1">>
Reads == {5, 9, 11}
InputOK == ctl.input \in {Empty, LastWritten[ps2]}
OutputOK ==
  /\ ps2 \in 1 .. 3 =>
       keys.flushed = 0 /\ ((ctl.output = Nothing /\ keys.taken = 0) \/ ctl.output = Key(keys.taken))
  /\ ps2 \in 4 .. 14 =>
       /\ keys.flushed = keys.taken
       /\ ctl.output = IF ps2 \in Reads /\ ctl.input = Empty THEN Answer(LastWritten[ps2]) ELSE Nothing
  /\ ps2 \in 15 .. 16 =>
       \/ ctl.output = Nothing /\ keys.taken = keys.flushed + Len(handled)
       \/ ctl.output = Key(keys.taken) /\ keys.taken = keys.flushed + Len(handled) + 1
DisabledOK == ps2 \in 2 .. 14 /\ ctl.input # "disable 1" => ~ctl.enabled

KeysInv ==
  /\ ctl = [input |-> ctl.input, output |-> ctl.output, enabled |-> ctl.enabled, irq |-> ctl.irq]
  /\ ctl.enabled \in BOOLEAN /\ ctl.irq \in BOOLEAN
  /\ keys \in [pressed : Nat, taken : Nat, flushed : Nat]
  /\ handled \in Seq(Nat) /\ \A i \in 1 .. Len(handled) : handled[i] = keys.flushed + i
  /\ ~mixedUp
  /\ listening => ps2 = 16
  /\ ps2 # 16 => handled = <<>>
  /\ ps2 \in 1 .. 16 /\ InputOK /\ OutputOK /\ DisabledOK

-----------------------------------------------------------------------------
(***************************************************************************)
(* The search of the buses.                                                *)
(***************************************************************************)

\* A machine: the device of a slot with one function is its only one.
Bridges(m) == {d \in DOMAIN m.devices : m.devices[d].kind = "bridge"}
Buses(m) == {0} \cup {d[1] : d \in DOMAIN m.devices} \cup {m.devices[d].bus : d \in DOMAIN m.devices}
Formed(m) ==
  /\ DOMAIN m.devices \subseteq Nat \X (0 .. Slots - 1) \X (0 .. Functions - 1)
  /\ \A d \in DOMAIN m.devices :
       /\ m.devices[d].kind # "absent" /\ m.devices[d].multi \in BOOLEAN
       /\ LET first == <<d[1], d[2], 0>> IN
            d[3] > 0 /\ first \in DOMAIN m.devices => m.devices[first].multi
  /\ \A d \in Bridges(m) : m.devices[d].bus \in Nat

\* One whose buses are numbered as the firmware should: every bridge has a bus of its own
\* that is not the first, and some way leads to every device.
WellBuilt(m) ==
  /\ Formed(m)
  /\ \A d \in Bridges(m) : m.devices[d].bus # 0 /\ \A e \in Bridges(m) : m.devices[d].bus = m.devices[e].bus => d = e
  /\ \A B \in SUBSET Buses(m) :
       0 \in B /\ (\A d \in Bridges(m) : d[1] \in B => m.devices[d].bus \in B) =>
         \A d \in DOMAIN m.devices : d[1] \in B

\* One where a bridge on the first bus leads back to it.
BackToFirst(m) == {d \in Bridges(m) : d[1] = 0 /\ m.devices[d].bus = 0}
LeadsBack(m) == Formed(m) /\ BackToFirst(m) # {}

\* The buses that were begun, and the functions that a frame has behind it.
Seen == ToSet(found)
Begun == {0} \cup {machine.devices[d].bus : d \in Bridges(machine) \cap Seen}
Passed(f, d) == d[2] < f.slot \/ (d[2] = f.slot /\ d[3] < f.function)

FrameOK(f, devices) ==
  /\ f.bus \in Nat /\ f.slot \in 0 .. Slots /\ f.function \in 0 .. f.count /\ f.count \in {1, Functions}
  /\ f.slot = Slots => f.function = 0
  /\ f.function = 0 => f.count = 1
  /\ LET first == <<f.bus, f.slot, 0>> IN
       f.function > 0 => f.count = IF first \in DOMAIN devices /\ ~devices[first].multi THEN 1 ELSE Functions

Frames == [bus : Nat, slot : Nat, function : Nat, count : Nat]
StackInv == scan \in Seq(Frames) /\ \A i \in 1 .. Len(scan) : FrameOK(scan[i], machine.devices)

\* A frame of the first bus has a bridge back to it before it always.
LoopInv ==
  \A d \in BackToFirst(machine) :
    ~Scanned /\ \E i \in 1 .. Len(scan) : scan[i].bus = 0 /\ ~Passed(scan[i], d)

ScanInv ==
  /\ StackInv /\ \A i \in 1 .. Len(scan) : scan[i].bus \in Begun
  /\ \A i, j \in 1 .. Len(scan) : scan[i].bus = scan[j].bus => i = j
  /\ found \in Seq(Devices) /\ \A i, j \in 1 .. Len(found) : found[i] = found[j] => i = j
  /\ \A d \in Devices :
       /\ d \in Seen => d[1] \in Begun
       /\ d[1] \in Begun /\ (\A i \in 1 .. Len(scan) : scan[i].bus # d[1]) => d \in Seen
       /\ \A i \in 1 .. Len(scan) : scan[i].bus = d[1] => (d \in Seen <=> Passed(scan[i], d))
  /\ Scanned => scan = <<>>

ScreenInv ==
  \/ /\ screen.root = <<>> /\ screen.mapped = <<>> /\ \A i \in 1 .. Len(found) : found[i] \notin OfKind("vga")
  \/ \E i, j \in 1 .. Len(found) :
       /\ screen.root = found[i] /\ screen.mapped = found[j] /\ {found[i], found[j]} \subseteq OfKind("vga")
       /\ \A k \in 1 .. Len(found) : found[k] \in OfKind("vga") => i <= k /\ k <= j

-----------------------------------------------------------------------------
(***************************************************************************)
(* The disks.                                                              *)
(***************************************************************************)

\* The units that the controller found last has still to be asked for.
Pending == IF stage = "probe" THEN ToSet(probe) ELSE IF stage = "read" THEN ToSet(Tail(probe)) ELSE {}
Copies(s, unit) == {i \in 1 .. Len(s) : s[i] = unit}
Ides == {d \in Seen : machine.devices[d].kind = "ide"}

\* What readBlock has read of a disk is what the drive was told to send.
SectorsInv ==
  /\ stage \in {"scan", "probe", "read", "ps2", "running"}
  /\ probe \in Seq(ToSet(Units)) /\ \A i, j \in 1 .. Len(probe) : probe[i] = probe[j] => i = j
  /\ stage \in {"probe", "read"} <=> probe # <<>>
  /\ disks \in Seq(ToSet(Units))
  /\ buffer \in [want : Nat, from : Nat, blocks : Seq(Nat), reads : Nat]
  /\ \A i \in 1 .. Len(buffer.blocks) : buffer.blocks[i] = buffer.from + i - 1
  /\ Len(buffer.blocks) <= buffer.want
  /\ drive = [unit |-> drive.unit, status |-> drive.status, next |-> drive.next, left |-> drive.left]
  /\ drive.unit \in ToSet(Units) \/ drive = NoDrive
  /\ stage \in {"scan", "ps2"} => drive = NoDrive
  /\ stage \in {"read", "running"} /\ drive # NoDrive =>
       drive.next = buffer.from + Len(buffer.blocks) /\ Len(buffer.blocks) < buffer.want

\* Each disk is registered once for every controller, if the one found last has nothing
\* left to ask for.
DisksCounted ==
  /\ IsFiniteSet(Ides)
  /\ \A unit \in ToSet(Units) :
       /\ IsFiniteSet(Copies(disks, unit))
       /\ Cardinality(Copies(disks, unit)) + (IF Kind(unit) = "ata" /\ unit \in Pending THEN 1 ELSE 0) =
            IF Kind(unit) = "ata" THEN Cardinality(Ides) ELSE 0
DisksInv ==
  /\ stage = "probe" => drive.unit \in {"none", probe[1]}
  /\ drive.status = "absent" => Kind(drive.unit) = "none"
  /\ DisksCounted

PcInv ==
  /\ machine \in Machines /\ KeysInv /\ SectorsInv
  /\ Formed(machine) => StackInv /\ LoopInv
  /\ WellBuilt(machine) => ScanInv /\ ScreenInv /\ DisksInv

-----------------------------------------------------------------------------
(***************************************************************************)
(* The keys stay in order.                                                 *)
(***************************************************************************)

\* Nothing, an answer and a key are different, and a key is known by its number.
LEMMA AnswerIsNotNothing == \A q \in Questions : Answer(q) # Nothing
<1> TAKE q \in Questions
<1>1. Answer(q)[1] = q /\ Nothing[1] = "empty" /\ q # "empty" BY DEF Answer, Nothing, Empty, Questions
<1> QED BY <1>1

LEMMA KeyIsNotNothing == \A k \in Nat : Key(k) # Nothing
<1> TAKE k \in Nat
<1>1. Key(k)[1] = "key" /\ Nothing[1] = "empty" BY DEF Key, Nothing, Empty
<1> QED BY <1>1

LEMMA KeyIsNoAnswer == \A k \in Nat, q \in Questions : Key(k) # Answer(q)
<1> TAKE k \in Nat, q \in Questions
<1>1. Key(k)[1] = "key" /\ Answer(q)[1] = q /\ q # "key" BY DEF Key, Answer, Questions
<1> QED BY <1>1

LEMMA KeyHasNumber == \A k \in Nat : Key(k)[1] = "key" /\ Key(k)[2] = k /\ Nothing[1] # "key"
BY DEF Key, Nothing, Empty

\* The places of the constructor by what was written last.
LEMMA LastWrittenIs ==
  /\ LastWritten[1] = Empty /\ LastWritten[2] = "disable 1" /\ LastWritten[3] = "disable 2"
  /\ LastWritten[4] = "disable 2" /\ LastWritten[5] = "read config" /\ LastWritten[6] = Empty
  /\ LastWritten[7] = "write config" /\ LastWritten[8] = "irq off" /\ LastWritten[9] = "self test"
  /\ LastWritten[10] = Empty /\ LastWritten[11] = "test 1" /\ LastWritten[12] = Empty
  /\ LastWritten[13] = "write config" /\ LastWritten[14] = "irq on" /\ LastWritten[15] = "enable 1"
  /\ LastWritten[16] = "enable 1"
BY DEF LastWritten

\* What is asked is answered, and only "disable 1" and "enable 1" close and open the port.
LEMMA WrittenByPlace ==
  ASSUME NEW p \in 1 .. 16
  PROVE  /\ p \in Reads <=> LastWritten[p] \in Questions
         /\ p \in 2 .. 14 => LastWritten[p] # "enable 1"
         /\ p # 2 => LastWritten[p] # "disable 1"
<1>1. CASE p = 1 BY <1>1, LastWrittenIs DEF Reads, Questions, Empty
<1>2. CASE p = 2 BY <1>2, LastWrittenIs DEF Reads, Questions
<1>3. CASE p = 3 BY <1>3, LastWrittenIs DEF Reads, Questions
<1>4. CASE p = 4 BY <1>4, LastWrittenIs DEF Reads, Questions
<1>5. CASE p = 5 BY <1>5, LastWrittenIs DEF Reads, Questions
<1>6. CASE p = 6 BY <1>6, LastWrittenIs DEF Reads, Questions, Empty
<1>7. CASE p = 7 BY <1>7, LastWrittenIs DEF Reads, Questions
<1>8. CASE p = 8 BY <1>8, LastWrittenIs DEF Reads, Questions
<1>9. CASE p = 9 BY <1>9, LastWrittenIs DEF Reads, Questions
<1>10. CASE p = 10 BY <1>10, LastWrittenIs DEF Reads, Questions, Empty
<1>11. CASE p = 11 BY <1>11, LastWrittenIs DEF Reads, Questions
<1>12. CASE p = 12 BY <1>12, LastWrittenIs DEF Reads, Questions, Empty
<1>13. CASE p = 13 BY <1>13, LastWrittenIs DEF Reads, Questions
<1>14. CASE p = 14 BY <1>14, LastWrittenIs DEF Reads, Questions
<1>15. CASE p = 15
  <2>1. p \notin Reads /\ p \notin 2 .. 14 BY <1>15 DEF Reads
  <2> QED BY <1>15, <2>1, LastWrittenIs DEF Questions
<1>16. CASE p = 16
  <2>1. p \notin Reads /\ p \notin 2 .. 14 BY <1>16 DEF Reads
  <2> QED BY <1>16, <2>1, LastWrittenIs DEF Questions
<1>17. p \in {1, 2, 3, 4, 5, 6, 7, 8, 9, 10, 11, 12, 13, 14, 15, 16} OBVIOUS
<1> QED
  BY <1>1, <1>2, <1>3, <1>4, <1>5, <1>6, <1>7, <1>8, <1>9, <1>10, <1>11, <1>12, <1>13, <1>14, <1>15, <1>16, <1>17, Zenon

LEMMA KeysStart ==
  ASSUME PcInit
  PROVE  KeysInv
<1>1. ctl \in [input : {Empty}, output : {Nothing, Key(0)}, enabled : {TRUE}, irq : BOOLEAN] BY DEF PcInit
<1>2. /\ ctl = [input |-> ctl.input, output |-> ctl.output, enabled |-> ctl.enabled, irq |-> ctl.irq]
      /\ ctl.input = Empty /\ ctl.output \in {Nothing, Key(0)} /\ ctl.enabled \in BOOLEAN /\ ctl.irq \in BOOLEAN
  BY <1>1
<1>4. keys = [pressed |-> 0, taken |-> 0, flushed |-> 0] /\ ps2 = 1 /\ handled = <<>> /\ ~mixedUp /\ ~listening
  BY DEF PcInit
<1>5. InputOK /\ DisabledOK BY <1>2, <1>4 DEF InputOK, DisabledOK
<1>6. OutputOK
  <2>1. keys.flushed = 0 /\ keys.taken = 0 BY <1>4
  <2> QED BY <1>2, <1>4, <2>1 DEF OutputOK
<1>7. handled \in Seq(Nat) /\ Len(handled) = 0 BY <1>4
<1>8. keys \in [pressed : Nat, taken : Nat, flushed : Nat] BY <1>4
<1> QED BY <1>2, <1>4, <1>5, <1>6, <1>7, <1>8 DEF KeysInv

LEMMA KeysLeft ==
  ASSUME KeysInv, UNCHANGED <<ps2, ctl, keys, mixedUp, listening, handled>>
  PROVE  KeysInv'
<1>1. (InputOK /\ OutputOK /\ DisabledOK)' = (InputOK /\ OutputOK /\ DisabledOK)
  BY DEF InputOK, OutputOK, DisabledOK
<1> QED BY <1>1 DEF KeysInv

\* The controller takes what was written.
LEMMA TakesKeepsKeys ==
  ASSUME KeysInv, ControllerTakes
  PROVE  KeysInv'
<1> DEFINE asks == ctl.input \in Questions
           on == CASE ctl.input = "disable 1" -> FALSE [] ctl.input = "enable 1" -> TRUE [] OTHER -> ctl.enabled
           line == CASE ctl.input = "irq off" -> FALSE [] ctl.input = "irq on" -> TRUE [] OTHER -> ctl.irq
<1>1. /\ ctl.input # Empty /\ ctl.enabled \in BOOLEAN /\ ctl.irq \in BOOLEAN
      /\ UNCHANGED <<ps2, keys, mixedUp, listening, handled>>
  BY DEF KeysInv, ControllerTakes
<1>2. ctl' = [input |-> Empty, output |-> IF asks THEN Answer(ctl.input) ELSE ctl.output, enabled |-> on, irq |-> line]
  BY DEF ControllerTakes
<1>3. on \in BOOLEAN /\ line \in BOOLEAN BY <1>1
<1>4. (ctl.input = "disable 1" => ~on) /\ (ctl.input \notin {"disable 1", "enable 1"} => on = ctl.enabled) OBVIOUS
<1> HIDE DEF on, line, asks
<1>6. /\ ctl' = [input |-> ctl'.input, output |-> ctl'.output, enabled |-> ctl'.enabled, irq |-> ctl'.irq]
      /\ ctl'.input = Empty /\ ctl'.enabled = on /\ ctl'.irq = line
      /\ ctl'.output = IF asks THEN Answer(ctl.input) ELSE ctl.output
  BY <1>2
<1>7. InputOK' BY <1>6 DEF InputOK
<1>8. PICK p \in 1 .. 16 : p = ps2 BY DEF KeysInv
<1>9. p' = p /\ InputOK /\ OutputOK /\ DisabledOK BY DEF KeysInv
<1>10. ctl.input = LastWritten[p] BY <1>1, <1>8, <1>9 DEF InputOK
<1>11. asks <=> p \in Reads BY <1>10, WrittenByPlace DEF asks
<1>12. OutputOK'
  <2>1. CASE p \in 1 .. 3
    <3>1. ~asks BY <1>11, <2>1 DEF Reads
    <3> QED BY <1>1, <1>6, <1>8, <1>9, <2>1, <3>1 DEF OutputOK
  <2>2. CASE p \in 4 .. 14
    <3>1. ctl'.output = IF p \in Reads THEN Answer(LastWritten[p]) ELSE Nothing
      <4>1. ctl.output = Nothing BY <1>1, <1>8, <1>9, <2>2 DEF OutputOK
      <4> QED BY <1>6, <1>10, <1>11, <4>1
    <3> QED BY <1>1, <1>6, <1>8, <1>9, <2>2, <3>1 DEF OutputOK
  <2>3. CASE p \in 15 .. 16
    <3>1. ~asks /\ p \notin 1 .. 3 /\ p \notin 4 .. 14 BY <1>11, <2>3 DEF Reads
    <3> QED BY <1>1, <1>6, <1>8, <1>9, <2>3, <3>1 DEF OutputOK
  <2> QED BY <2>1, <2>2, <2>3
<1>13. DisabledOK'
  <2>1. p \in 2 .. 14 => ctl.input # "enable 1" BY <1>10, WrittenByPlace
  <2> QED BY <1>1, <1>4, <1>6, <1>8, <1>9, <2>1 DEF DisabledOK
<1> QED BY <1>1, <1>3, <1>6, <1>7, <1>8, <1>12, <1>13 DEF KeysInv

\* A key is taken while the buffer is empty.
LEMMA SentKeepsKeys ==
  ASSUME KeysInv, KeySent
  PROVE  KeysInv'
<1>1. /\ keys \in [pressed : Nat, taken : Nat, flushed : Nat] /\ ctl.enabled /\ ctl.output = Nothing
      /\ ctl = [input |-> ctl.input, output |-> ctl.output, enabled |-> ctl.enabled, irq |-> ctl.irq]
      /\ UNCHANGED <<ps2, mixedUp, listening, handled>> /\ Len(handled) \in Nat
      /\ ps2 \in 1 .. 16 /\ InputOK /\ OutputOK /\ DisabledOK
  BY DEF KeysInv, KeySent
<1>2. keys' = [keys EXCEPT !.taken = @ + 1] /\ ctl' = [ctl EXCEPT !.output = Key(keys'.taken)]
  BY DEF KeySent
<1>3. /\ keys' \in [pressed : Nat, taken : Nat, flushed : Nat]
      /\ keys'.taken = keys.taken + 1 /\ keys'.flushed = keys.flushed
  BY <1>1, <1>2
<1>4. /\ ctl'.output = Key(keys'.taken) /\ ctl'.input = ctl.input /\ ctl'.enabled = ctl.enabled /\ ctl'.irq = ctl.irq
      /\ ctl' = [input |-> ctl'.input, output |-> ctl'.output, enabled |-> ctl'.enabled, irq |-> ctl'.irq]
  BY <1>1, <1>2
<1>5. InputOK' /\ DisabledOK' BY <1>1, <1>4 DEF InputOK, DisabledOK
<1>6. PICK p \in 1 .. 16 : p = ps2 BY <1>1
<1>7. OutputOK'
  <2>1. ctl.output # Key(keys.taken) BY <1>1, KeyIsNotNothing
  <2>2. CASE p \in 1 .. 3
    <3>1. keys'.flushed = 0 BY <1>1, <1>3, <1>6, <2>2 DEF OutputOK
    <3> QED BY <1>1, <1>4, <1>6, <2>2, <3>1 DEF OutputOK
  <2>3. CASE p \in 4 .. 14
    <3>1. ctl.input = "disable 1"
      <4>1. ctl.enabled /\ DisabledOK BY <1>1
      <4>2. p \in 2 .. 14 BY <2>3
      <4> QED BY <1>6, <4>1, <4>2 DEF DisabledOK
    <3>2. LastWritten[p] # "disable 1"
      <4>1. p # 2 BY <2>3
      <4> QED BY <4>1, WrittenByPlace
    <3> QED BY <1>1, <1>6, <3>1, <3>2 DEF InputOK, Empty
  <2>4. CASE p \in 15 .. 16
    <3>1. keys.taken = keys.flushed + Len(handled) BY <1>1, <1>6, <2>1, <2>4 DEF OutputOK
    <3>2. keys'.taken = keys'.flushed + Len(handled') + 1 BY <1>1, <1>3, <3>1
    <3>3. p \notin 1 .. 3 /\ p \notin 4 .. 14 /\ ps2' = p BY <1>1, <1>6, <2>4
    <3> QED BY <1>4, <2>4, <3>2, <3>3 DEF OutputOK
  <2> QED BY <2>2, <2>3, <2>4
<1>8. \A i \in 1 .. Len(handled') : handled'[i] = keys'.flushed + i BY <1>1, <1>3 DEF KeysInv
<1> QED BY <1>1, <1>3, <1>4, <1>5, <1>7, <1>8 DEF KeysInv

LEMMA PressKeepsKeys ==
  ASSUME KeysInv, PressKey
  PROVE  KeysInv'
<1>1. keys' = [keys EXCEPT !.pressed = @ + 1] /\ UNCHANGED <<ps2, ctl, mixedUp, listening, handled>>
  BY DEF PressKey, irqVars
<1>2. keys \in [pressed : Nat, taken : Nat, flushed : Nat] BY DEF KeysInv
<1>3. /\ keys' \in [pressed : Nat, taken : Nat, flushed : Nat]
      /\ keys'.taken = keys.taken /\ keys'.flushed = keys.flushed
  BY <1>1, <1>2
<1>4. InputOK' = InputOK /\ DisabledOK' = DisabledOK BY <1>1 DEF InputOK, DisabledOK
<1>5. OutputOK' = OutputOK BY <1>1, <1>3 DEF OutputOK
<1> QED BY <1>1, <1>3, <1>4, <1>5 DEF KeysInv
\* The steps of the constructor by what they are.
LEMMA ScriptLength == Len(Script) = 15
BY DEF Script

LEMMA ScriptEnds == Script[3][1] = "flush" /\ Script[15][1] = "register"
BY DEF Script

LEMMA ScriptIs ==
  /\ Script[1] = <<"write", "disable 1">> /\ Script[2] = <<"write", "disable 2">>
  /\ Script[3] = <<"flush", "output">> /\ Script[4] = <<"write", "read config">>
  /\ Script[5] = <<"read", "read config">> /\ Script[6] = <<"write", "write config">>
  /\ Script[7] = <<"write", "irq off">> /\ Script[8] = <<"write", "self test">>
  /\ Script[9] = <<"read", "self test">> /\ Script[10] = <<"write", "test 1">>
  /\ Script[11] = <<"read", "test 1">> /\ Script[12] = <<"write", "write config">>
  /\ Script[13] = <<"write", "irq on">> /\ Script[14] = <<"write", "enable 1">>
  /\ Script[15] = <<"register", "keyboard">>
BY DEF Script

LEMMA WriteStep ==
  ASSUME Ps2Step, NEW v, Script[ps2] = <<"write", v>>
  PROVE  /\ ctl.input = Empty /\ ctl' = [ctl EXCEPT !.input = v]
         /\ (~mixedUp => ~mixedUp') /\ ~listening' /\ ps2' = ps2 + 1 /\ keys' = keys /\ handled' = handled
<1>1. Script[ps2][1] = "write" /\ Script[ps2][2] = v BY Script[ps2] = <<"write", v>>
<1>2. Script[ps2] # <<"read", "self test">>
  <2>1. <<"read", "self test">>[1] = "read" OBVIOUS
  <2> QED BY <1>1, <2>1
<1>3. ctl.input = Empty /\ ctl' = [ctl EXCEPT !.input = v] BY <1>1 DEF Ps2Step
<1>4. ps2' = ps2 + 1 /\ keys' = keys /\ handled' = handled BY <1>1, <1>2 DEF Ps2Step, irqVars
<1>5. (~mixedUp => ~mixedUp') /\ ~listening' BY <1>1 DEF Ps2Step
<1> QED BY <1>3, <1>4, <1>5

LEMMA ReadStep ==
  ASSUME Ps2Step, NEW q, Script[ps2] = <<"read", q>>
  PROVE  /\ ctl.output # Nothing /\ ctl' = [ctl EXCEPT !.output = Nothing]
         /\ mixedUp' = (mixedUp \/ ctl.output # Answer(q)) /\ ~listening'
         /\ ps2' = ps2 + 1 \/ (q = "self test" /\ ps2' = 16)
         /\ keys' = keys /\ handled' = handled
<1>1. Script[ps2][1] = "read" /\ Script[ps2][2] = q BY Script[ps2] = <<"read", q>>
<1>2. Script[ps2] = <<"read", "self test">> => q = "self test"
  <2>1. <<"read", "self test">>[2] = "self test" OBVIOUS
  <2> QED BY <1>1, <2>1
<1>3. Len(Script) + 1 = 16 BY ScriptLength
<1>4. ctl.output # Nothing /\ ctl' = [ctl EXCEPT !.output = Nothing] BY <1>1 DEF Ps2Step
<1>5. mixedUp' = (mixedUp \/ ctl.output # Answer(q)) /\ ~listening' /\ keys' = keys /\ handled' = handled
  BY <1>1 DEF Ps2Step, irqVars
<1>6. ps2' = ps2 + 1 \/ (q = "self test" /\ ps2' = 16) BY <1>2, <1>3 DEF Ps2Step
<1> QED BY <1>4, <1>5, <1>6

LEMMA OtherStep ==
  ASSUME Ps2Step
  PROVE  /\ ps2 = 3 => /\ ctl' = [ctl EXCEPT !.output = Nothing] /\ ~listening' /\ ps2' = 4
                       /\ keys' = IF ctl.output[1] = "key" THEN [keys EXCEPT !.flushed = ctl.output[2]] ELSE keys
         /\ ps2 = 15 => ctl' = ctl /\ ps2' = 16 /\ keys' = keys
         /\ ps2 \in {3, 15} => (~mixedUp => ~mixedUp') /\ handled' = handled
<1>1. <<"read", "self test">>[1] = "read" OBVIOUS
<1>2. CASE ps2 = 3
  <2>1. Script[ps2][1] = "flush" BY <1>2, ScriptEnds
  <2>2. Script[ps2] # <<"read", "self test">> BY <1>1, <2>1
  <2>3. ctl' = [ctl EXCEPT !.output = Nothing] BY <2>1 DEF Ps2Step
  <2>4. ps2' = ps2 + 1 /\ handled' = handled BY <2>2, Zenon DEF Ps2Step, irqVars
  <2>5. (~mixedUp => ~mixedUp') /\ ~listening' BY <2>1 DEF Ps2Step
  <2>6. keys' = IF ctl.output[1] = "key" THEN [keys EXCEPT !.flushed = ctl.output[2]] ELSE keys BY <2>1 DEF Ps2Step
  <2> QED BY <1>2, <2>3, <2>4, <2>5, <2>6
<1>3. CASE ps2 = 15
  <2>1. Script[ps2][1] = "register" BY <1>3, ScriptEnds
  <2>2. Script[ps2] # <<"read", "self test">> BY <1>1, <2>1
  <2>3. ctl' = ctl BY <2>1 DEF Ps2Step
  <2>4. ps2' = ps2 + 1 /\ handled' = handled BY <2>2, Zenon DEF Ps2Step, irqVars
  <2>5. (~mixedUp => ~mixedUp') /\ keys' = keys BY <2>1 DEF Ps2Step
  <2> QED BY <1>3, <2>3, <2>4, <2>5
<1> QED BY <1>2, <1>3

\* What the steps write and what they wait for, by place.
LEMMA WritesByPlace ==
  ASSUME NEW p \in 1 .. 15, NEW n \in 2 .. 16, n = p + 1, p \notin Reads, p # 3, p # 15
  PROVE  /\ Script[p] = <<"write", LastWritten[n]>> /\ LastWritten[n] # Empty
         /\ p = 1 => LastWritten[n] = "disable 1"
<1>1. CASE p = 1
  <2>1. n = 2 BY <1>1
  <2> QED BY <1>1, <2>1, ScriptIs, LastWrittenIs, Zenon DEF Empty
<1>2. CASE p = 2
  <2>1. n = 3 /\ p # 1 BY <1>2
  <2> QED BY <1>2, <2>1, ScriptIs, LastWrittenIs, Zenon DEF Empty
<1>3. CASE p = 4
  <2>1. n = 5 /\ p # 1 BY <1>3
  <2> QED BY <1>3, <2>1, ScriptIs, LastWrittenIs, Zenon DEF Empty
<1>4. CASE p = 6
  <2>1. n = 7 /\ p # 1 BY <1>4
  <2> QED BY <1>4, <2>1, ScriptIs, LastWrittenIs, Zenon DEF Empty
<1>5. CASE p = 7
  <2>1. n = 8 /\ p # 1 BY <1>5
  <2> QED BY <1>5, <2>1, ScriptIs, LastWrittenIs, Zenon DEF Empty
<1>6. CASE p = 8
  <2>1. n = 9 /\ p # 1 BY <1>6
  <2> QED BY <1>6, <2>1, ScriptIs, LastWrittenIs, Zenon DEF Empty
<1>7. CASE p = 10
  <2>1. n = 11 /\ p # 1 BY <1>7
  <2> QED BY <1>7, <2>1, ScriptIs, LastWrittenIs, Zenon DEF Empty
<1>8. CASE p = 12
  <2>1. n = 13 /\ p # 1 BY <1>8
  <2> QED BY <1>8, <2>1, ScriptIs, LastWrittenIs, Zenon DEF Empty
<1>9. CASE p = 13
  <2>1. n = 14 /\ p # 1 BY <1>9
  <2> QED BY <1>9, <2>1, ScriptIs, LastWrittenIs, Zenon DEF Empty
<1>10. CASE p = 14
  <2>1. n = 15 /\ p # 1 BY <1>10
  <2> QED BY <1>10, <2>1, ScriptIs, LastWrittenIs, Zenon DEF Empty
<1>11. p \in {1, 2, 4, 6, 7, 8, 10, 12, 13, 14} BY DEF Reads
<1> QED BY <1>1, <1>2, <1>3, <1>4, <1>5, <1>6, <1>7, <1>8, <1>9, <1>10, <1>11, Zenon

LEMMA ReadsByPlace ==
  ASSUME NEW p \in Reads
  PROVE  Script[p] = <<"read", LastWritten[p]>>
<1>1. CASE p = 5 BY <1>1, ScriptIs, LastWrittenIs
<1>2. CASE p = 9 BY <1>2, ScriptIs, LastWrittenIs
<1>3. CASE p = 11 BY <1>3, ScriptIs, LastWrittenIs
<1> QED BY <1>1, <1>2, <1>3 DEF Reads

\* A byte is written.
LEMMA WriteKeepsKeys ==
  ASSUME KeysInv, Ps2Step, NEW p \in 1 .. 15, p = ps2, p \notin Reads, p # 3, p # 15
  PROVE  KeysInv'
<1>1. PICK n \in 2 .. 16 : n = p + 1 OBVIOUS
<1>2. PICK v : v = LastWritten[n] OBVIOUS
<1>3. Script[p] = <<"write", v>> /\ v # Empty /\ (p = 1 => v = "disable 1") BY <1>1, <1>2, WritesByPlace
<1>4. /\ ctl.input = Empty /\ ctl' = [ctl EXCEPT !.input = v]
      /\ (~mixedUp => ~mixedUp') /\ ~listening' /\ ps2' = ps2 + 1 /\ keys' = keys /\ handled' = handled
  BY <1>3, WriteStep
<1>5. ps2' = n BY <1>1, <1>4
<1>6. /\ ctl = [input |-> ctl.input, output |-> ctl.output, enabled |-> ctl.enabled, irq |-> ctl.irq]
      /\ OutputOK /\ DisabledOK /\ ctl.enabled \in BOOLEAN /\ ctl.irq \in BOOLEAN
  BY DEF KeysInv
<1>7. /\ ctl'.input = v /\ ctl'.output = ctl.output /\ ctl'.enabled = ctl.enabled /\ ctl'.irq = ctl.irq
      /\ ctl' = [input |-> ctl'.input, output |-> ctl'.output, enabled |-> ctl'.enabled, irq |-> ctl'.irq]
  BY <1>4, <1>6
<1>8. InputOK' BY <1>2, <1>5, <1>7 DEF InputOK
<1>9. handled = <<>> /\ Len(handled) = 0 /\ keys.flushed \in Nat /\ keys.taken \in Nat
  <2>1. ps2 # 16 OBVIOUS
  <2> QED BY <2>1 DEF KeysInv
<1>10. DisabledOK'
  <2>1. CASE p = 1 BY <1>3, <1>7, <2>1 DEF DisabledOK
  <2>2. CASE p # 1
    <3>1. p \in 2 .. 14 /\ ctl.input # "disable 1" BY <1>4, <2>2 DEF Empty
    <3>2. ~ctl.enabled BY <1>6, <3>1 DEF DisabledOK
    <3> QED BY <1>7, <3>2 DEF DisabledOK
  <2> QED BY <2>1, <2>2
<1>11. OutputOK'
  <2>1. CASE p \in 1 .. 2
    <3>1. n \in 2 .. 3 BY <1>1, <2>1
    <3>2. keys.flushed = 0 /\ ((ctl.output = Nothing /\ keys.taken = 0) \/ ctl.output = Key(keys.taken))
      BY <1>6, <2>1 DEF OutputOK
    <3> QED BY <1>4, <1>5, <1>7, <3>1, <3>2 DEF OutputOK
  <2>2. CASE p \in 4 .. 14
    <3>1. keys.flushed = keys.taken /\ ctl.output = Nothing BY <1>6, <2>2 DEF OutputOK
    <3>2. n \in 5 .. 15 BY <1>1, <2>2
    <3>3. keys.taken = keys.flushed + Len(handled) BY <1>9, <3>1
    <3>4. CASE n \in 5 .. 14
      <4>1. n \notin 1 .. 3 /\ n \in 4 .. 14 /\ n \notin 15 .. 16 BY <3>4
      <4> QED BY <1>3, <1>4, <1>5, <1>7, <3>1, <4>1 DEF OutputOK
    <3>5. CASE n = 15
      <4>1. n \notin 1 .. 3 /\ n \notin 4 .. 14 BY <3>5
      <4> QED BY <1>4, <1>5, <1>7, <3>1, <3>3, <4>1 DEF OutputOK
    <3> QED BY <3>2, <3>4, <3>5
  <2> QED BY <2>1, <2>2
<1> QED BY <1>4, <1>5, <1>6, <1>7, <1>8, <1>9, <1>10, <1>11 DEF KeysInv

\* A byte is read: it is the answer.
LEMMA ReadKeepsKeys ==
  ASSUME KeysInv, Ps2Step, NEW p \in Reads, p = ps2
  PROVE  KeysInv'
<1>1. p \in 4 .. 14 BY DEF Reads
<1>2. /\ ctl.output # Nothing /\ ctl' = [ctl EXCEPT !.output = Nothing]
      /\ mixedUp' = (mixedUp \/ ctl.output # Answer(LastWritten[p])) /\ ~listening'
      /\ ps2' = ps2 + 1 \/ ps2' = 16
      /\ keys' = keys /\ handled' = handled
  BY ReadsByPlace, ReadStep
<1>3. /\ ctl = [input |-> ctl.input, output |-> ctl.output, enabled |-> ctl.enabled, irq |-> ctl.irq]
      /\ InputOK /\ OutputOK /\ DisabledOK /\ ctl.enabled \in BOOLEAN /\ ctl.irq \in BOOLEAN
  BY DEF KeysInv
<1>4. ctl.input = Empty /\ ctl.output = Answer(LastWritten[p]) /\ keys.flushed = keys.taken
  BY <1>1, <1>2, <1>3 DEF OutputOK
<1>5. ~mixedUp' BY <1>2, <1>4 DEF KeysInv
<1>6. /\ ctl'.input = Empty /\ ctl'.output = Nothing /\ ctl'.enabled = ctl.enabled /\ ctl'.irq = ctl.irq
      /\ ctl' = [input |-> ctl'.input, output |-> ctl'.output, enabled |-> ctl'.enabled, irq |-> ctl'.irq]
  BY <1>2, <1>3, <1>4
<1>7. PICK n \in {6, 10, 12, 16} : n = ps2'
  <2>1. p + 1 \in {6, 10, 12} BY DEF Reads
  <2> QED BY <1>2, <2>1
<1>8. handled = <<>> /\ Len(handled) = 0 /\ keys.flushed \in Nat /\ keys.taken \in Nat
  <2>1. ps2 # 16 BY DEF Reads
  <2> QED BY <2>1 DEF KeysInv
<1>9. keys.taken = keys.flushed + Len(handled) BY <1>4, <1>8
<1>10. InputOK' BY <1>6 DEF InputOK
<1>11. OutputOK' BY <1>2, <1>4, <1>6, <1>7, <1>9 DEF OutputOK, Reads
<1>12. DisabledOK'
  <2>1. p \in 2 .. 14 /\ ctl.input # "disable 1" BY <1>1, <1>4 DEF Empty
  <2>2. ~ctl.enabled BY <1>3, <2>1 DEF DisabledOK
  <2> QED BY <1>6, <2>2 DEF DisabledOK
<1>13. n \in 1 .. 16 OBVIOUS
<1> QED BY <1>2, <1>3, <1>5, <1>6, <1>7, <1>8, <1>10, <1>11, <1>12, <1>13 DEF KeysInv

\* The key that the controller holds is flushed.
LEMMA FlushKeepsKeys ==
  ASSUME KeysInv, Ps2Step, ps2 = 3
  PROVE  KeysInv'
<1>1. /\ ctl' = [ctl EXCEPT !.output = Nothing] /\ ~listening' /\ ps2' = 4 /\ (~mixedUp => ~mixedUp') /\ handled' = handled
      /\ keys' = IF ctl.output[1] = "key" THEN [keys EXCEPT !.flushed = ctl.output[2]] ELSE keys
  BY OtherStep
<1>2. /\ ctl = [input |-> ctl.input, output |-> ctl.output, enabled |-> ctl.enabled, irq |-> ctl.irq]
      /\ InputOK /\ OutputOK /\ DisabledOK /\ ctl.enabled \in BOOLEAN /\ ctl.irq \in BOOLEAN
      /\ keys \in [pressed : Nat, taken : Nat, flushed : Nat]
  BY DEF KeysInv
<1>3. /\ ctl'.input = ctl.input /\ ctl'.output = Nothing /\ ctl'.enabled = ctl.enabled /\ ctl'.irq = ctl.irq
      /\ ctl' = [input |-> ctl'.input, output |-> ctl'.output, enabled |-> ctl'.enabled, irq |-> ctl'.irq]
  BY <1>1, <1>2
<1>4. keys' \in [pressed : Nat, taken : Nat, flushed : Nat] /\ keys'.flushed = keys'.taken
  <2>1. keys.flushed = 0 /\ ((ctl.output = Nothing /\ keys.taken = 0) \/ ctl.output = Key(keys.taken))
    BY <1>2 DEF OutputOK
  <2>2. CASE ctl.output = Nothing /\ keys.taken = 0
    <3>1. ctl.output[1] # "key" BY <2>2, KeyHasNumber
    <3> QED BY <1>1, <1>2, <2>1, <2>2, <3>1
  <2>3. CASE ctl.output = Key(keys.taken)
    <3>1. ctl.output[1] = "key" /\ ctl.output[2] = keys.taken BY <1>2, <2>3, KeyHasNumber
    <3> QED BY <1>1, <1>2, <3>1
  <2> QED BY <2>1, <2>2, <2>3
<1>5. LastWritten[ps2'] = LastWritten[ps2] /\ LastWritten[ps2] # "disable 1" BY <1>1, LastWrittenIs
<1>6. InputOK' BY <1>2, <1>3, <1>5 DEF InputOK
<1>7. OutputOK' BY <1>1, <1>3, <1>4 DEF OutputOK, Reads
<1>8. DisabledOK'
  <2>1. ctl.input # "disable 1" BY <1>2, <1>5 DEF InputOK, Empty
  <2>2. ps2 \in 2 .. 14 OBVIOUS
  <2>3. ~ctl.enabled BY <1>2, <2>1, <2>2 DEF DisabledOK
  <2> QED BY <1>3, <2>3 DEF DisabledOK
<1>9. handled = <<>> /\ Len(handled) = 0 /\ handled \in Seq(Nat) /\ ~mixedUp BY DEF KeysInv
<1> QED BY <1>1, <1>2, <1>3, <1>4, <1>6, <1>7, <1>8, <1>9 DEF KeysInv

LEMMA RegisterKeepsKeys ==
  ASSUME KeysInv, Ps2Step, ps2 = 15
  PROVE  KeysInv'
<1>1. ctl' = ctl /\ ps2' = 16 /\ keys' = keys /\ (~mixedUp => ~mixedUp') /\ handled' = handled BY OtherStep
<1>2. LastWritten[ps2'] = LastWritten[ps2] BY <1>1, LastWrittenIs
<1>3. InputOK' BY <1>1, <1>2 DEF KeysInv, InputOK
<1>4. OutputOK' BY <1>1 DEF KeysInv, OutputOK
<1>5. DisabledOK'
  <2>1. ps2' \notin 2 .. 14 BY <1>1
  <2> QED BY <2>1 DEF DisabledOK
<1>6. ps2' \in 1 .. 16 BY <1>1
<1> QED BY <1>1, <1>3, <1>4, <1>5, <1>6 DEF KeysInv

LEMMA Ps2KeepsKeys ==
  ASSUME KeysInv, Ps2Step
  PROVE  KeysInv'
<1>1. PICK p \in 1 .. 16 : p = ps2 BY DEF KeysInv
<1>2. p <= Len(Script) BY <1>1 DEF Ps2Step
<1>3. p \in 1 .. 15 BY <1>2, ScriptLength
<1> QED BY <1>1, <1>3, WriteKeepsKeys, ReadKeepsKeys, FlushKeepsKeys, RegisterKeepsKeys

\* The handler reads the key that comes after those it has.
LEMMA HandlerKeepsKeys ==
  ASSUME KeysInv, OnInterrupt
  PROVE  KeysInv'
<1>1. CASE ~(listening /\ ctl.output # Nothing)
  <2>1. UNCHANGED <<ps2, ctl, keys, mixedUp, listening, handled>> BY <1>1 DEF OnInterrupt
  <2> QED BY <2>1, KeysLeft
<1>2. CASE listening /\ ctl.output # Nothing
  <2>1. /\ handled' = Append(handled, ctl.output[2]) /\ ctl' = [ctl EXCEPT !.output = Nothing]
        /\ UNCHANGED <<ps2, keys, mixedUp, listening>>
    BY <1>2 DEF OnInterrupt
  <2>2. /\ ctl = [input |-> ctl.input, output |-> ctl.output, enabled |-> ctl.enabled, irq |-> ctl.irq]
        /\ ps2 = 16 /\ InputOK /\ OutputOK /\ DisabledOK /\ ctl.enabled \in BOOLEAN /\ ctl.irq \in BOOLEAN
        /\ keys \in [pressed : Nat, taken : Nat, flushed : Nat] /\ handled \in Seq(Nat)
        /\ \A i \in 1 .. Len(handled) : handled[i] = keys.flushed + i
    BY <1>2 DEF KeysInv
  <2>3. /\ ctl'.input = ctl.input /\ ctl'.output = Nothing /\ ctl'.enabled = ctl.enabled /\ ctl'.irq = ctl.irq
        /\ ctl' = [input |-> ctl'.input, output |-> ctl'.output, enabled |-> ctl'.enabled, irq |-> ctl'.irq]
    BY <2>1, <2>2
  <2>4. ctl.output = Key(keys.taken) /\ keys.taken = keys.flushed + Len(handled) + 1
    BY <1>2, <2>2 DEF OutputOK
  <2>5. ctl.output[2] = keys.taken /\ keys.taken \in Nat /\ keys.flushed \in Nat BY <2>2, <2>4, KeyHasNumber
  <2>6. PICK k \in Nat : k = ctl.output[2] /\ k = keys.flushed + Len(handled) + 1 BY <2>4, <2>5
  <2>7. handled' = Append(handled, k) BY <2>1, <2>6
  <2>8. /\ handled' \in Seq(Nat) /\ Len(handled') = Len(handled) + 1 /\ handled'[Len(handled) + 1] = k
        /\ \A i \in 1 .. Len(handled) : handled'[i] = handled[i]
    BY <2>2, <2>7, AppendProperties
  <2>9. \A i \in 1 .. Len(handled') : handled'[i] = keys'.flushed + i
    <3>1. PICK m \in Nat : m = Len(handled) BY <2>2
    <3>2. PICK f \in Nat : f = keys.flushed /\ keys'.flushed = f BY <2>1, <2>5
    <3>3. Len(handled') = m + 1 /\ handled'[m + 1] = f + (m + 1) BY <2>6, <2>8, <3>1, <3>2
    <3>4. \A i \in 1 .. m : handled'[i] = f + i BY <2>2, <2>8, <3>1, <3>2
    <3>5. ASSUME NEW i \in 1 .. m + 1 PROVE handled'[i] = f + i
      <4>1. CASE i = m + 1 BY <3>3, <4>1
      <4>2. CASE i \in 1 .. m BY <3>4, <4>2
      <4> QED BY <4>1, <4>2
    <3> QED BY <3>2, <3>3, <3>5
  <2>10. keys'.taken = keys'.flushed + Len(handled')
    <3>1. PICK m \in Nat : m = Len(handled) BY <2>2
    <3>2. keys.taken = keys.flushed + m + 1 /\ Len(handled') = m + 1 BY <2>4, <2>8, <3>1
    <3> QED BY <2>1, <2>5, <3>2
  <2>11. InputOK' /\ DisabledOK' BY <2>1, <2>2, <2>3 DEF InputOK, DisabledOK
  <2>12. OutputOK' BY <2>1, <2>2, <2>3, <2>10 DEF OutputOK
  <2> QED BY <2>1, <2>2, <2>3, <2>8, <2>9, <2>11, <2>12 DEF KeysInv
<1> QED BY <1>1, <1>2

LEMMA KeysStep ==
  ASSUME KeysInv, PcNext
  PROVE  KeysInv'
<1>1. CASE PciDetect BY <1>1, KeysLeft DEF PciDetect, keyVars, irqVars
<1>2. CASE PciNextSlot BY <1>2, KeysLeft DEF PciNextSlot, keyVars, irqVars
<1>3. CASE Identify BY <1>3, KeysLeft DEF Identify, keyVars, irqVars
<1>4. CASE IdentifyPoll BY <1>4, KeysLeft DEF IdentifyPoll, keyVars, irqVars
<1>5. CASE ReadSector BY <1>5, KeysLeft DEF ReadSector, keyVars, irqVars
<1>6. CASE Ps2Step BY <1>6, Ps2KeepsKeys
<1>7. CASE EnableInterrupts BY <1>7, KeysLeft DEF EnableInterrupts, keyVars
<1>8. CASE OnInterrupt BY <1>8, HandlerKeepsKeys
<1>9. CASE EndOfInterrupt BY <1>9, KeysLeft DEF EndOfInterrupt, keyVars
<1>10. CASE ReadBlock BY <1>10, KeysLeft DEF ReadBlock, keyVars, irqVars
<1>11. CASE DriveReady BY <1>11, KeysLeft DEF DriveReady, keyVars, irqVars
<1>12. CASE ControllerTakes BY <1>12, TakesKeepsKeys
<1>13. CASE PressKey BY <1>13, PressKeepsKeys
<1>14. CASE KeySent BY <1>14, SentKeepsKeys
<1>15. ASSUME NEW by \in {"apic", "pic", "timer"}, Interrupt(by) PROVE KeysInv'
  BY <1>15, KeysLeft DEF Interrupt, keyVars
<1> QED BY <1>1, <1>2, <1>3, <1>4, <1>5, <1>6, <1>7, <1>8, <1>9, <1>10, <1>11, <1>12, <1>13, <1>14, <1>15
      DEF PcNext, Kernel

\* What is handled is in order.
LEMMA HandledInOrder ==
  ASSUME KeysInv
  PROVE  KeysInOrder
<1>1. handled \in Seq(Nat) /\ \A i \in 1 .. Len(handled) : handled[i] = keys.flushed + i BY DEF KeysInv
<1>2. handled = [i \in 1 .. Len(handled) |-> keys.flushed + i] BY <1>1
<1> QED BY <1>2 DEF KeysInOrder, KeysInv

-----------------------------------------------------------------------------
(***************************************************************************)
(* The sectors of a block.                                                 *)
(***************************************************************************)

\* What is left of a sequence without repetitions when its head is taken.
LEMMA HeadTaken ==
  ASSUME NEW Items, NEW s \in Seq(Items), s # <<>>, \A i, j \in 1 .. Len(s) : s[i] = s[j] => i = j
  PROVE  /\ Tail(s) \in Seq(Items) /\ \A i, j \in 1 .. Len(Tail(s)) : Tail(s)[i] = Tail(s)[j] => i = j
         /\ Head(s) = s[1] /\ Head(s) \in Items
         /\ ToSet(s) = {Head(s)} \cup ToSet(Tail(s)) /\ Head(s) \notin ToSet(Tail(s))
<1>1. PICK n \in Nat : n = Len(s) - 1 /\ Len(s) = n + 1
  <2>1. Len(s) \in Nat \ {0} BY EmptySeq
  <2> QED BY <2>1
<1>2. PICK t \in Seq(Items) : t = Tail(s) /\ Len(t) = n /\ \A i \in 1 .. n : t[i] = s[i + 1]
  <2>1. Tail(s) \in Seq(Items) /\ Len(Tail(s)) = Len(s) - 1 /\ \A i \in 1 .. Len(Tail(s)) : Tail(s)[i] = s[i + 1]
    BY HeadTailProperties
  <2>2. Len(Tail(s)) = n BY <1>1, <2>1
  <2> QED BY <2>1, <2>2
<1>3. Head(s) = s[1] /\ Head(s) \in Items BY HeadTailProperties
<1>4. \A i, j \in 1 .. n : t[i] = t[j] => i = j
  <2> TAKE i, j \in 1 .. n
  <2>1. i + 1 \in 1 .. n + 1 /\ j + 1 \in 1 .. n + 1 OBVIOUS
  <2>2. t[i] = s[i + 1] /\ t[j] = s[j + 1] BY <1>2
  <2>3. t[i] = t[j] => i + 1 = j + 1 BY <1>1, <2>1, <2>2
  <2> QED BY <2>3
<1>5. DOMAIN s = 1 .. n + 1 /\ DOMAIN t = 1 .. n BY <1>1, <1>2
<1>6. Head(s) \notin ToSet(t)
  <2> SUFFICES ASSUME NEW i \in 1 .. n, s[1] = t[i] PROVE FALSE BY <1>3, <1>5 DEF ToSet
  <2>1. i + 1 \in 1 .. n + 1 /\ 1 \in 1 .. n + 1 /\ i + 1 # 1 OBVIOUS
  <2> QED BY <1>1, <1>2, <2>1
<1>7. ToSet(s) = {Head(s)} \cup ToSet(t)
  <2>1. ASSUME NEW i \in 1 .. n + 1 PROVE s[i] \in {Head(s)} \cup ToSet(t)
    <3>1. CASE i = 1 BY <1>3, <3>1
    <3>2. CASE i # 1
      <4>1. PICK j \in 1 .. n : j = i - 1 /\ i = j + 1 BY <3>2
      <4>2. s[i] = t[j] BY <1>2, <4>1
      <4> QED BY <1>5, <4>2 DEF ToSet
    <3> QED BY <3>1, <3>2
  <2>2. ASSUME NEW j \in 1 .. n PROVE t[j] \in ToSet(s)
    <3>1. j + 1 \in 1 .. n + 1 /\ t[j] = s[j + 1] BY <1>2
    <3> QED BY <1>5, <3>1 DEF ToSet
  <2>3. Head(s) \in ToSet(s)
    <3>1. 1 \in 1 .. n + 1 OBVIOUS
    <3> QED BY <1>3, <1>5, <3>1 DEF ToSet
  <2>4. ToSet(s) \subseteq {Head(s)} \cup ToSet(t) BY <1>5, <2>1 DEF ToSet
  <2>5. ToSet(t) \subseteq ToSet(s) BY <1>5, <2>2 DEF ToSet
  <2> QED BY <2>3, <2>4, <2>5
<1> QED BY <1>2, <1>3, <1>4, <1>6, <1>7

LEMMA UnitsAre ==
  /\ Units \in Seq(ToSet(Units)) /\ Units # <<>> /\ \A i, j \in 1 .. Len(Units) : Units[i] = Units[j] => i = j
  /\ ToSet(Units) = {"primary 0", "primary 1", "secondary 0", "secondary 1"}
<1>1. Len(Units) = 4 BY DEF Units
<1>2. Units[1] = "primary 0" /\ Units[2] = "primary 1" /\ Units[3] = "secondary 0" /\ Units[4] = "secondary 1"
  BY DEF Units
<1>3. DOMAIN Units = 1 .. 4 BY DEF Units
<1>4. 1 .. 4 = {1, 2, 3, 4} OBVIOUS
<1>5. ToSet(Units) = {"primary 0", "primary 1", "secondary 0", "secondary 1"}
  <2>1. ToSet(Units) = {Units[i] : i \in {1, 2, 3, 4}} BY <1>3, <1>4 DEF ToSet
  <2> QED BY <1>2, <2>1
<1>6. \A i, j \in {1, 2, 3, 4} : Units[i] = Units[j] => i = j BY <1>2
<1>7. Units # <<>>
  <2>1. Len(<<>>) = 0 OBVIOUS
  <2>2. 4 # 0 OBVIOUS
  <2> QED BY <1>1, <2>1, <2>2, Zenon
<1>8. Units \in Seq({"primary 0", "primary 1", "secondary 0", "secondary 1"}) BY DEF Units
<1>9. \A i, j \in 1 .. Len(Units) : Units[i] = Units[j] => i = j BY <1>1, <1>4, <1>6
<1> QED BY <1>5, <1>7, <1>8, <1>9, Zenon

\* A unit is not the mark of no unit.
LEMMA UnitIsOne == \A unit \in ToSet(Units) : unit # "none"
BY UnitsAre

LEMMA SectorsStart ==
  ASSUME PcInit
  PROVE  SectorsInv
<1>1. /\ stage = "scan" /\ probe = <<>> /\ disks = <<>> /\ drive = NoDrive
      /\ buffer = [want |-> 0, from |-> 0, blocks |-> <<>>, reads |-> 0]
  BY DEF PcInit
<1>2. buffer \in [want : Nat, from : Nat, blocks : Seq(Nat), reads : Nat] /\ Len(buffer.blocks) = 0 /\ buffer.want = 0
  BY <1>1
<1>3. drive = [unit |-> drive.unit, status |-> drive.status, next |-> drive.next, left |-> drive.left]
  BY <1>1 DEF NoDrive
<1>4. probe \in Seq(ToSet(Units)) /\ disks \in Seq(ToSet(Units)) /\ Len(probe) = 0 BY <1>1
<1> QED BY <1>1, <1>2, <1>3, <1>4 DEF SectorsInv

LEMMA SectorsLeft ==
  ASSUME SectorsInv, UNCHANGED <<stage, diskVars>>
  PROVE  SectorsInv'
BY DEF SectorsInv, diskVars

LEMMA DetectKeepsSectors ==
  ASSUME SectorsInv, PciDetect
  PROVE  SectorsInv'
<1>1. /\ stage = "scan" /\ UNCHANGED <<disks, drive, buffer>>
      /\ (stage' = "scan" /\ probe' = probe) \/ (stage' = "probe" /\ probe' = Units)
  BY DEF PciDetect
<1>2. CASE stage' = "scan" /\ probe' = probe BY <1>1, <1>2 DEF SectorsInv
<1>3. CASE stage' = "probe" /\ probe' = Units BY <1>1, <1>3, UnitsAre DEF SectorsInv
<1> QED BY <1>1, <1>2, <1>3

LEMMA SlotKeepsSectors ==
  ASSUME SectorsInv, PciNextSlot
  PROVE  SectorsInv'
<1>1. stage = "scan" /\ UNCHANGED diskVars /\ stage' \in {"scan", "ps2"} BY DEF PciNextSlot
<1> QED BY <1>1 DEF SectorsInv, diskVars

LEMMA IdentifyKeepsSectors ==
  ASSUME SectorsInv, Identify
  PROVE  SectorsInv'
<1>1. /\ stage = "probe" /\ probe # <<>> /\ UNCHANGED <<stage, probe, disks, buffer>>
      /\ drive' = [unit |-> Head(probe), next |-> 0, left |-> 1,
                   status |-> IF Kind(Head(probe)) = "none" THEN "absent" ELSE "busy"]
  BY DEF Identify
<1>2. PICK s : s = IF Kind(Head(probe)) = "none" THEN "absent" ELSE "busy" OBVIOUS
<1>3. drive' = [unit |-> Head(probe), next |-> 0, left |-> 1, status |-> s] BY <1>1, <1>2
<1>4. drive' = [unit |-> drive'.unit, status |-> drive'.status, next |-> drive'.next, left |-> drive'.left]
  BY <1>3
<1>5. drive'.unit \in ToSet(Units)
  <2>1. Head(probe) \in ToSet(Units) BY <1>1, HeadTailProperties DEF SectorsInv
  <2> QED BY <1>3, <2>1
<1> QED BY <1>1, <1>4, <1>5 DEF SectorsInv

LEMMA ReadyKeepsSectors ==
  ASSUME SectorsInv, DriveReady
  PROVE  SectorsInv'
<1>1. drive.status = "busy" /\ UNCHANGED <<stage, probe, disks, buffer>> BY DEF DriveReady
<1>2. PICK s : drive' = [drive EXCEPT !.status = s] BY DEF DriveReady
<1>3. drive = [unit |-> drive.unit, status |-> drive.status, next |-> drive.next, left |-> drive.left] BY DEF SectorsInv
<1>4. /\ drive' = [unit |-> drive'.unit, status |-> drive'.status, next |-> drive'.next, left |-> drive'.left]
      /\ drive'.unit = drive.unit /\ drive'.next = drive.next
  BY <1>2, <1>3
<1>5. drive # NoDrive BY <1>1 DEF NoDrive
<1> QED BY <1>1, <1>4, <1>5 DEF SectorsInv

\* A drive that is told to read sends the first sector first.
LEMMA ReadSent ==
  ASSUME NEW unit \in ToSet(Units), NEW sector \in Nat, NEW count \in Nat \ {0}, SendRead(unit, sector, count),
         buffer \in [want : Nat, from : Nat, blocks : Seq(Nat), reads : Nat]
  PROVE  /\ buffer' \in [want : Nat, from : Nat, blocks : Seq(Nat), reads : Nat]
         /\ Len(buffer'.blocks) = 0 /\ buffer'.want = count /\ buffer'.from = sector
         /\ drive' = [unit |-> drive'.unit, status |-> drive'.status, next |-> drive'.next, left |-> drive'.left]
         /\ drive'.unit = unit /\ drive'.next = sector /\ drive' # NoDrive /\ drive'.status = "busy"
<1>1. drive' = [unit |-> unit, status |-> "busy", next |-> sector, left |-> Sectors(count)] BY DEF SendRead
<1>2. buffer' = [buffer EXCEPT !.want = count, !.from = sector, !.blocks = <<>>] BY DEF SendRead
<1>3. <<>> \in Seq(Nat) /\ Len(<<>>) = 0 OBVIOUS
<1>4. drive'.status # NoDrive.status BY <1>1 DEF NoDrive
<1>5. drive' # NoDrive BY <1>4
<1> QED BY <1>1, <1>2, <1>3, <1>5

LEMMA PollKeepsSectors ==
  ASSUME SectorsInv, IdentifyPoll
  PROVE  SectorsInv'
<1>1. stage = "probe" /\ drive.status \in {"absent", "data"} BY DEF IdentifyPoll
<1>2. drive # NoDrive BY <1>1 DEF NoDrive
<1>3. drive.unit \in ToSet(Units) /\ probe # <<>> BY <1>1, <1>2 DEF SectorsInv
<1>4. CASE drive.status = "data" /\ Registers(drive.unit)
  <2>1. disks' = Append(disks, drive.unit) /\ stage' = "read" /\ SendRead(drive.unit, 0, 1) /\ probe' = probe
    BY <1>4 DEF IdentifyPoll
  <2>2. disks' \in Seq(ToSet(Units)) BY <1>3, <2>1, AppendProperties DEF SectorsInv
  <2>3. PICK unit \in ToSet(Units) : unit = drive.unit BY <1>3
  <2>4. buffer \in [want : Nat, from : Nat, blocks : Seq(Nat), reads : Nat] BY DEF SectorsInv
  <2>5. 0 \in Nat /\ 1 \in Nat \ {0} OBVIOUS
  <2>6. SendRead(unit, 0, 1) BY <2>1, <2>3
  <2>7. /\ buffer' \in [want : Nat, from : Nat, blocks : Seq(Nat), reads : Nat]
        /\ Len(buffer'.blocks) = 0 /\ buffer'.want = 1 /\ buffer'.from = 0
        /\ drive' = [unit |-> drive'.unit, status |-> drive'.status, next |-> drive'.next, left |-> drive'.left]
        /\ drive'.unit = unit /\ drive'.next = 0 /\ drive' # NoDrive
    BY <2>4, <2>5, <2>6, ReadSent
  <2>8. \A i \in 1 .. Len(buffer'.blocks) : buffer'.blocks[i] = buffer'.from + i - 1 BY <2>7
  <2> QED BY <1>1, <2>1, <2>2, <2>7, <2>8 DEF SectorsInv
<1>5. CASE ~(drive.status = "data" /\ Registers(drive.unit))
  <2>1. /\ probe' = Tail(probe) /\ drive' = NoDrive /\ UNCHANGED <<disks, buffer>>
        /\ stage' = IF probe' = <<>> THEN "scan" ELSE "probe"
    BY <1>1, <1>5 DEF IdentifyPoll
  <2>2. probe' \in Seq(ToSet(Units)) /\ \A i, j \in 1 .. Len(probe') : probe'[i] = probe'[j] => i = j
    <3>1. PICK s \in Seq(ToSet(Units)) : s = probe /\ \A i, j \in 1 .. Len(s) : s[i] = s[j] => i = j
      BY DEF SectorsInv
    <3> QED BY <1>3, <2>1, <3>1, HeadTaken
  <2>3. drive' = [unit |-> drive'.unit, status |-> drive'.status, next |-> drive'.next, left |-> drive'.left]
    BY <2>1 DEF NoDrive
  <2> QED BY <2>1, <2>2, <2>3 DEF SectorsInv
<1> QED BY <1>4, <1>5

LEMMA BlockKeepsSectors ==
  ASSUME SectorsInv, ReadBlock
  PROVE  SectorsInv'
<1>1. stage = "running" /\ UNCHANGED <<stage, probe, disks>> BY DEF ReadBlock
<1>2. PICK unit \in ToSet(disks), sector \in 0 .. 1, count \in 1 .. CountRange + 1 : SendRead(unit, sector, count)
  BY DEF ReadBlock
<1>3. unit \in ToSet(Units)
  <2>1. PICK i \in 1 .. Len(disks) : unit = disks[i] BY <1>2 DEF ToSet, SectorsInv
  <2> QED BY <2>1, ElementOfSeq DEF SectorsInv
<1>4. sector \in Nat /\ count \in Nat \ {0} BY PcAssumption DEF PcAssumption
<1>5. buffer \in [want : Nat, from : Nat, blocks : Seq(Nat), reads : Nat] BY DEF SectorsInv
<1>6. /\ buffer' \in [want : Nat, from : Nat, blocks : Seq(Nat), reads : Nat]
      /\ Len(buffer'.blocks) = 0 /\ buffer'.want = count /\ buffer'.from = sector
      /\ drive' = [unit |-> drive'.unit, status |-> drive'.status, next |-> drive'.next, left |-> drive'.left]
      /\ drive'.unit = unit /\ drive'.next = sector /\ drive' # NoDrive
  BY <1>2, <1>3, <1>4, <1>5, ReadSent
<1>7. \A i \in 1 .. Len(buffer'.blocks) : buffer'.blocks[i] = buffer'.from + i - 1 BY <1>6
<1>8. drive'.next = buffer'.from + Len(buffer'.blocks) /\ Len(buffer'.blocks) < buffer'.want BY <1>4, <1>6
<1> QED BY <1>1, <1>3, <1>6, <1>7, <1>8 DEF SectorsInv

\* The sector that comes is the next of the block.
LEMMA ReadKeepsSectors ==
  ASSUME SectorsInv, ReadSector
  PROVE  SectorsInv'
<1> DEFINE last == Len(buffer.blocks) + 1 = buffer.want
<1>1. /\ stage \in {"read", "running"} /\ drive.status = "data" /\ disks' = disks
      /\ buffer' = [buffer EXCEPT !.blocks = Append(@, drive.next),
                                  !.reads = @ + (IF last /\ stage = "running" THEN 1 ELSE 0)]
      /\ drive' = IF last THEN NoDrive ELSE [drive EXCEPT !.status = "busy", !.next = @ + 1, !.left = @ - 1]
  BY DEF ReadSector
<1>2. /\ drive = [unit |-> drive.unit, status |-> drive.status, next |-> drive.next, left |-> drive.left]
      /\ buffer \in [want : Nat, from : Nat, blocks : Seq(Nat), reads : Nat]
      /\ drive.unit \in ToSet(Units) \/ drive = NoDrive
      /\ \A i \in 1 .. Len(buffer.blocks) : buffer.blocks[i] = buffer.from + i - 1
  BY DEF SectorsInv
<1>3. drive # NoDrive BY <1>1 DEF NoDrive
<1>4. drive.next = buffer.from + Len(buffer.blocks) /\ Len(buffer.blocks) < buffer.want
  BY <1>1, <1>3 DEF SectorsInv
<1>5. PICK from \in Nat : from = buffer.from BY <1>2
<1>6. PICK want \in Nat : want = buffer.want BY <1>2
<1>7. PICK b \in Seq(Nat) : b = buffer.blocks BY <1>2
<1>8. PICK n \in Nat : n = Len(b) OBVIOUS
<1>9. PICK k \in Nat : k = drive.next /\ k = from + n /\ n < want BY <1>4, <1>5, <1>6, <1>7, <1>8
<1>10. PICK r \in Nat : r = buffer.reads + (IF last /\ stage = "running" THEN 1 ELSE 0)
  <2>1. buffer.reads \in Nat BY <1>2
  <2> QED BY <2>1
<1>11. PICK c \in Seq(Nat) : /\ c = Append(b, k) /\ Len(c) = n + 1 /\ c[n + 1] = k
                             /\ \A i \in 1 .. n : c[i] = b[i]
  <2>1. /\ Append(b, k) \in Seq(Nat) /\ Len(Append(b, k)) = Len(b) + 1 /\ Append(b, k)[Len(b) + 1] = k
        /\ \A i \in 1 .. Len(b) : Append(b, k)[i] = b[i]
    BY AppendProperties
  <2> QED BY <1>8, <2>1
<1>12. buffer' = [buffer EXCEPT !.blocks = c, !.reads = r] BY <1>1, <1>7, <1>9, <1>10, <1>11
<1>13. /\ buffer' \in [want : Nat, from : Nat, blocks : Seq(Nat), reads : Nat]
       /\ buffer'.blocks = c /\ buffer'.want = want /\ buffer'.from = from
  BY <1>2, <1>5, <1>6, <1>12
<1>14. \A i \in 1 .. n + 1 : c[i] = from + i - 1
  <2> TAKE i \in 1 .. n + 1
  <2>1. CASE i = n + 1 BY <1>9, <1>11, <2>1
  <2>2. CASE i \in 1 .. n BY <1>2, <1>5, <1>7, <1>8, <1>11, <2>2
  <2> QED BY <2>1, <2>2
<1>15. \A i \in 1 .. Len(buffer'.blocks) : buffer'.blocks[i] = buffer'.from + i - 1 BY <1>11, <1>13, <1>14
<1>16. Len(buffer'.blocks) <= buffer'.want BY <1>9, <1>11, <1>13
<1>17. CASE last
  <2>1. drive' = NoDrive BY <1>1, <1>17
  <2>2. drive' = [unit |-> drive'.unit, status |-> drive'.status, next |-> drive'.next, left |-> drive'.left]
    BY <2>1 DEF NoDrive
  <2>3. CASE stage = "read"
    <3>1. probe' = Tail(probe) /\ stage' = IF probe' = <<>> THEN "scan" ELSE "probe"
      BY <1>17, <2>3 DEF ReadSector
    <3>2. PICK s \in Seq(ToSet(Units)) : s = probe /\ \A i, j \in 1 .. Len(s) : s[i] = s[j] => i = j
      BY DEF SectorsInv
    <3>3. s # <<>> BY <2>3, <3>2 DEF SectorsInv
    <3>4. probe' \in Seq(ToSet(Units)) /\ \A i, j \in 1 .. Len(probe') : probe'[i] = probe'[j] => i = j
      BY <3>1, <3>2, <3>3, HeadTaken
    <3> QED BY <1>1, <1>13, <1>15, <1>16, <2>1, <2>2, <3>1, <3>4 DEF SectorsInv
  <2>4. CASE stage = "running"
    <3>1. UNCHANGED <<probe, stage>> BY <2>4 DEF ReadSector
    <3>2. /\ probe' \in Seq(ToSet(Units)) /\ \A i, j \in 1 .. Len(probe') : probe'[i] = probe'[j] => i = j
          /\ stage' \in {"probe", "read"} <=> probe' # <<>>
          /\ disks' \in Seq(ToSet(Units)) /\ stage' = "running"
      BY <1>1, <2>4, <3>1 DEF SectorsInv
    <3> QED BY <1>13, <1>15, <1>16, <2>1, <2>2, <3>2 DEF SectorsInv
  <2> QED BY <1>1, <2>3, <2>4
<1>18. CASE ~last
  <2>1. UNCHANGED <<probe, stage>> BY <1>18 DEF ReadSector
  <2>2. drive' = [drive EXCEPT !.status = "busy", !.next = k + 1, !.left = drive.left - 1] BY <1>1, <1>9, <1>18
  <2>3. PICK w : w = drive.left - 1 OBVIOUS
  <2>4. drive' = [drive EXCEPT !.status = "busy", !.next = k + 1, !.left = w] BY <2>2, <2>3
  <2>5. /\ drive' = [unit |-> drive'.unit, status |-> drive'.status, next |-> drive'.next, left |-> drive'.left]
        /\ drive'.unit = drive.unit /\ drive'.next = k + 1
    BY <1>2, <2>4
  <2>6. n + 1 < want BY <1>6, <1>7, <1>8, <1>9, <1>18
  <2>7. drive'.next = buffer'.from + Len(buffer'.blocks) /\ Len(buffer'.blocks) < buffer'.want
    BY <1>9, <1>11, <1>13, <2>5, <2>6
  <2>8. /\ probe' \in Seq(ToSet(Units)) /\ \A i, j \in 1 .. Len(probe') : probe'[i] = probe'[j] => i = j
        /\ stage' \in {"probe", "read"} <=> probe' # <<>>
        /\ disks' \in Seq(ToSet(Units)) /\ stage' \in {"read", "running"}
    BY <1>1, <2>1 DEF SectorsInv
  <2>9. drive'.unit \in ToSet(Units) BY <1>2, <1>3, <2>5
  <2> QED BY <1>13, <1>15, <1>16, <2>5, <2>7, <2>8, <2>9 DEF SectorsInv
<1> QED BY <1>17, <1>18

LEMMA SectorsStep ==
  ASSUME SectorsInv, PcNext
  PROVE  SectorsInv'
<1>1. CASE PciDetect BY <1>1, DetectKeepsSectors
<1>2. CASE PciNextSlot BY <1>2, SlotKeepsSectors
<1>3. CASE Identify BY <1>3, IdentifyKeepsSectors
<1>4. CASE IdentifyPoll BY <1>4, PollKeepsSectors
<1>5. CASE ReadSector BY <1>5, ReadKeepsSectors
<1>6. CASE Ps2Step BY <1>6, SectorsLeft DEF Ps2Step
<1>7. CASE EnableInterrupts
  <2>1. stage = "ps2" /\ stage' = "running" /\ UNCHANGED diskVars BY <1>7 DEF EnableInterrupts
  <2> QED BY <2>1 DEF SectorsInv, diskVars
<1>8. CASE OnInterrupt BY <1>8, SectorsLeft DEF OnInterrupt
<1>9. CASE EndOfInterrupt BY <1>9, SectorsLeft DEF EndOfInterrupt
<1>10. CASE ReadBlock BY <1>10, BlockKeepsSectors
<1>11. CASE DriveReady BY <1>11, ReadyKeepsSectors
<1>12. CASE ControllerTakes BY <1>12, SectorsLeft DEF ControllerTakes
<1>13. CASE PressKey BY <1>13, SectorsLeft DEF PressKey
<1>14. CASE KeySent BY <1>14, SectorsLeft DEF KeySent
<1>15. ASSUME NEW by \in {"apic", "pic", "timer"}, Interrupt(by) PROVE SectorsInv'
  BY <1>15, SectorsLeft DEF Interrupt
<1> QED BY <1>1, <1>2, <1>3, <1>4, <1>5, <1>6, <1>7, <1>8, <1>9, <1>10, <1>11, <1>12, <1>13, <1>14, <1>15
      DEF PcNext, Kernel

-----------------------------------------------------------------------------
(***************************************************************************)
(* The search of the buses finds each device once.                         *)
(***************************************************************************)

LEMMA Coordinates ==
  ASSUME NEW b, NEW s, NEW f
  PROVE  <<b, s, f>>[1] = b /\ <<b, s, f>>[2] = s /\ <<b, s, f>>[3] = f
OBVIOUS

\* Where a device is.
LEMMA DeviceIs ==
  ASSUME Formed(machine), NEW e \in Devices
  PROVE  e = <<e[1], e[2], e[3]>> /\ e[1] \in Nat /\ e[2] \in 0 .. Slots - 1 /\ e[3] \in 0 .. Functions - 1
<1>1. DOMAIN machine.devices \subseteq Nat \X (0 .. Slots - 1) \X (0 .. Functions - 1) BY DEF Formed
<1>2. e \in Nat \X (0 .. Slots - 1) \X (0 .. Functions - 1) BY <1>1 DEF Devices
<1> QED BY <1>2

LEMMA SizesAre == Slots \in Nat \ {0} /\ Functions \in Nat \ {0}
BY PcAssumption DEF PcAssumption

\* What answers at the place of a frame is what is there.
LEMMA AnswersItself ==
  ASSUME Formed(machine), NEW f, FrameOK(f, machine.devices), f.function < f.count,
         NEW here, here = <<f.bus, f.slot, f.function>>
  PROVE  At(f.bus, f.slot, f.function) = IF here \in Devices THEN machine.devices[here] ELSE Absent
<1> DEFINE first == <<f.bus, f.slot, 0>>
<1>1. f.function \in Nat /\ f.count \in Nat BY SizesAre DEF FrameOK
<1>2. CASE here \in Devices BY <1>2 DEF At, Devices
<1>3. CASE here \notin Devices
  <2>1. ASSUME first \in Devices, ~machine.devices[first].multi PROVE FALSE
    <3>1. f.function # 0 BY <1>3, <2>1
    <3>2. f.function > 0 BY <1>1, <3>1
    <3>3. f.count = 1 BY <2>1, <3>2 DEF FrameOK, Devices
    <3> QED BY <1>1, <3>2, <3>3
  <2> QED BY <1>3, <2>1 DEF At, Devices
<1> QED BY <1>2, <1>3

\* The frame after a function was looked at.
Looked(f, d) == [f EXCEPT !.function = @ + 1, !.count = IF d.multi THEN Functions ELSE @]

LEMMA NextFrame ==
  ASSUME Formed(machine), NEW f \in Frames, FrameOK(f, machine.devices), f.slot < Slots, f.function < f.count,
         NEW here, here = <<f.bus, f.slot, f.function>>,
         NEW d, d = IF here \in Devices THEN machine.devices[here] ELSE Absent,
         NEW next, next = Looked(f, d)
  PROVE  /\ next \in Frames /\ next.bus = f.bus /\ next.slot = f.slot /\ next.function = f.function + 1
         /\ FrameOK(next, machine.devices)
<1> DEFINE first == <<f.bus, f.slot, 0>>
           single == first \in DOMAIN machine.devices /\ ~machine.devices[first].multi
<1>1. f.bus \in Nat /\ f.slot \in Nat /\ f.function \in Nat /\ f.count \in Nat BY DEF Frames
<1>2. PICK c : c = IF d.multi THEN Functions ELSE f.count OBVIOUS
<1>3. next = [f EXCEPT !.function = f.function + 1, !.count = c] BY <1>2 DEF Looked
<1>4. c \in Nat BY <1>1, <1>2, SizesAre
<1>5. /\ next \in Frames /\ next.bus = f.bus /\ next.slot = f.slot /\ next.function = f.function + 1 /\ next.count = c
  <2>1. PICK x \in Nat : x = f.function + 1 BY <1>1
  <2>2. next = [f EXCEPT !.function = x, !.count = c] BY <1>3, <2>1
  <2>3. next \in Frames /\ next.bus = f.bus /\ next.slot = f.slot /\ next.function = x /\ next.count = c
    BY <1>4, <2>2 DEF Frames
  <2> QED BY <2>1, <2>3
<1>6. f.function + 1 <= c /\ c \in {1, Functions} /\ c = IF single THEN 1 ELSE Functions
  <2>1. CASE f.function = 0
    <3>1. f.count = 1 /\ here = first BY <2>1 DEF FrameOK
    <3>2. d.multi <=> ~single
      <4>1. CASE here \in Devices BY <3>1, <4>1 DEF Devices
      <4>2. CASE here \notin Devices BY <3>1, <4>2 DEF Devices, Absent
      <4> QED BY <4>1, <4>2
    <3>3. c = IF single THEN 1 ELSE Functions BY <1>2, <3>1, <3>2
    <3> QED BY <2>1, <3>3, SizesAre
  <2>2. CASE f.function # 0
    <3>1. f.function > 0 BY <1>1, <2>2
    <3>2. f.count = IF single THEN 1 ELSE Functions BY <3>1 DEF FrameOK
    <3>3. f.count # 1 BY <1>1, <3>1
    <3>4. c = Functions /\ ~single /\ f.count = Functions BY <1>2, <3>2, <3>3
    <3> QED BY <1>1, <3>4, SizesAre
  <2> QED BY <2>1, <2>2
<1>7. f.slot \in 0 .. Slots BY DEF FrameOK
<1>8. FrameOK(next, machine.devices)
  <2>1. next.bus \in Nat /\ next.slot \in 0 .. Slots /\ next.slot # Slots BY <1>1, <1>5, <1>7, SizesAre
  <2>2. next.function \in 0 .. next.count /\ next.count \in {1, Functions} /\ next.function # 0 BY <1>1, <1>4, <1>5, <1>6
  <2>3. next.count = IF <<next.bus, next.slot, 0>> \in DOMAIN machine.devices
                          /\ ~machine.devices[<<next.bus, next.slot, 0>>].multi
                     THEN 1 ELSE Functions
    BY <1>5, <1>6
  <2> QED BY <2>1, <2>2, <2>3 DEF FrameOK
<1> QED BY <1>5, <1>8

\* It has one more function behind it.
LEMMA PassedNext ==
  ASSUME Formed(machine), NEW f \in Frames, NEW next \in Frames, NEW e \in Devices, e[1] = f.bus,
         next.slot = f.slot, next.function = f.function + 1
  PROVE  Passed(next, e) <=> Passed(f, e) \/ e = <<f.bus, f.slot, f.function>>
<1>1. e = <<e[1], e[2], e[3]>> /\ e[2] \in 0 .. Slots - 1 /\ e[3] \in 0 .. Functions - 1 BY DeviceIs
<1>2. f.slot \in Nat /\ f.function \in Nat BY DEF Frames
<1>3. e[2] \in Nat /\ e[3] \in Nat BY <1>1, SizesAre
<1>4. e = <<f.bus, f.slot, f.function>> <=> e[2] = f.slot /\ e[3] = f.function
  <2>1. ASSUME e = <<f.bus, f.slot, f.function>> PROVE e[2] = f.slot /\ e[3] = f.function BY <2>1, Coordinates
  <2>2. ASSUME e[2] = f.slot, e[3] = f.function PROVE e = <<f.bus, f.slot, f.function>> BY <1>1, <2>2
  <2> QED BY <2>1, <2>2
<1>5. e[3] < f.function + 1 <=> e[3] < f.function \/ e[3] = f.function BY <1>2, <1>3
<1> QED BY <1>4, <1>5 DEF Passed

LEMMA NotPassedHere ==
  ASSUME NEW f \in Frames
  PROVE  ~Passed(f, <<f.bus, f.slot, f.function>>)
<1>1. f.slot \in Nat /\ f.function \in Nat BY DEF Frames
<1> QED BY <1>1, Coordinates DEF Passed

\* The frame after the functions of a slot.
LEMMA NextSlotFrame ==
  ASSUME Formed(machine), NEW f \in Frames, FrameOK(f, machine.devices), f.slot < Slots, f.function = f.count
  PROVE  /\ NextSlot(f) \in Frames /\ NextSlot(f).bus = f.bus /\ FrameOK(NextSlot(f), machine.devices)
         /\ \A e \in Devices : e[1] = f.bus => (Passed(NextSlot(f), e) <=> Passed(f, e))
<1> DEFINE first == <<f.bus, f.slot, 0>>
           single == first \in DOMAIN machine.devices /\ ~machine.devices[first].multi
<1>1. f.bus \in Nat /\ f.slot \in Nat /\ f.function \in Nat /\ f.count \in Nat BY DEF Frames
<1>2. NextSlot(f) = [f EXCEPT !.slot = f.slot + 1, !.function = 0, !.count = 1] BY DEF NextSlot
<1>3. /\ NextSlot(f) \in Frames /\ NextSlot(f).bus = f.bus /\ NextSlot(f).slot = f.slot + 1
      /\ NextSlot(f).function = 0 /\ NextSlot(f).count = 1
  <2>1. PICK x \in Nat : x = f.slot + 1 BY <1>1
  <2>2. PICK g : g = [f EXCEPT !.slot = x, !.function = 0, !.count = 1] OBVIOUS
  <2>3. g \in Frames /\ g.bus = f.bus /\ g.slot = x /\ g.function = 0 /\ g.count = 1 BY <2>2 DEF Frames
  <2>4. NextSlot(f) = g BY <1>2, <2>1, <2>2
  <2> QED BY <2>1, <2>3, <2>4
<1>4. FrameOK(NextSlot(f), machine.devices)
  <2>1. f.slot + 1 \in 0 .. Slots BY <1>1, SizesAre
  <2> QED BY <1>1, <1>3, <2>1 DEF FrameOK
<1>5. f.function > 0 /\ f.count = IF single THEN 1 ELSE Functions
  <2>1. f.function # 0 BY DEF FrameOK
  <2>2. f.function > 0 BY <1>1, <2>1
  <2> QED BY <2>2 DEF FrameOK
<1>6. ASSUME NEW e \in Devices, e[1] = f.bus PROVE Passed(NextSlot(f), e) <=> Passed(f, e)
  <2>1. e = <<e[1], e[2], e[3]>> /\ e[2] \in 0 .. Slots - 1 /\ e[3] \in 0 .. Functions - 1 BY DeviceIs
  <2>2. e[2] \in Nat /\ e[3] \in Nat BY <2>1, SizesAre
  <2>3. e[2] = f.slot => e[3] < f.function
    <3> SUFFICES ASSUME e[2] = f.slot PROVE e[3] < f.function OBVIOUS
    <3>1. CASE ~single BY <1>5, <2>1, <2>2, <3>1, SizesAre
    <3>2. CASE single
      <4>1. first = <<e[1], e[2], 0>> BY <1>6
      <4>2. ~(e[3] > 0) BY <3>2, <4>1 DEF Formed, Devices
      <4> QED BY <1>5, <2>2, <3>2, <4>2
    <3> QED BY <3>1, <3>2
  <2>4. Passed(f, e) <=> e[2] < f.slot + 1 BY <1>1, <2>2, <2>3 DEF Passed
  <2>5. Passed(NextSlot(f), e) <=> e[2] < f.slot + 1 BY <1>3, <2>2 DEF Passed
  <2> QED BY <2>4, <2>5
<1> QED BY <1>3, <1>4, <1>6

\* The bus is done behind its last slot.
LEMMA AllPassed ==
  ASSUME Formed(machine), NEW f, f.slot = Slots, NEW e \in Devices
  PROVE  Passed(f, e)
<1>1. e[2] \in 0 .. Slots - 1 BY DeviceIs
<1>2. e[2] < Slots BY <1>1, SizesAre
<1> QED BY <1>2 DEF Passed

\* What is in a sequence that another element is appended to.
LEMMA InAppended ==
  ASSUME NEW Items, NEW s \in Seq(Items), NEW x \in Items
  PROVE  ToSet(Append(s, x)) = ToSet(s) \cup {x}
<1>1. PICK n \in Nat : n = Len(s) OBVIOUS
<1>2. PICK t \in Seq(Items) : t = Append(s, x) /\ Len(t) = n + 1 /\ t[n + 1] = x /\ \A i \in 1 .. n : t[i] = s[i]
  <2>1. /\ Append(s, x) \in Seq(Items) /\ Len(Append(s, x)) = Len(s) + 1 /\ Append(s, x)[Len(s) + 1] = x
        /\ \A i \in 1 .. Len(s) : Append(s, x)[i] = s[i]
    BY AppendProperties
  <2> QED BY <1>1, <2>1
<1>3. DOMAIN s = 1 .. n /\ DOMAIN t = 1 .. n + 1 BY <1>1, <1>2
<1>4. ASSUME NEW i \in 1 .. n + 1 PROVE t[i] \in ToSet(s) \cup {x}
  <2>1. CASE i = n + 1 BY <1>2, <2>1
  <2>2. CASE i \in 1 .. n BY <1>2, <1>3, <2>2 DEF ToSet
  <2> QED BY <2>1, <2>2
<1>5. ASSUME NEW i \in 1 .. n PROVE s[i] \in ToSet(t)
  <2>1. i \in 1 .. n + 1 /\ t[i] = s[i] BY <1>2
  <2> QED BY <1>3, <2>1 DEF ToSet
<1>6. x \in ToSet(t)
  <2>1. n + 1 \in 1 .. n + 1 OBVIOUS
  <2> QED BY <1>2, <1>3, <2>1 DEF ToSet
<1>7. ToSet(t) \subseteq ToSet(s) \cup {x} BY <1>3, <1>4 DEF ToSet
<1>8. ToSet(s) \subseteq ToSet(t) BY <1>3, <1>5 DEF ToSet
<1> QED BY <1>2, <1>6, <1>7, <1>8

\* A device that is found for the first time is found once.
LEMMA FoundOnce ==
  ASSUME NEW Items, NEW s \in Seq(Items), \A i, j \in 1 .. Len(s) : s[i] = s[j] => i = j,
         NEW x \in Items, x \notin ToSet(s)
  PROVE  \A i, j \in 1 .. Len(Append(s, x)) : Append(s, x)[i] = Append(s, x)[j] => i = j
<1>1. PICK n \in Nat : n = Len(s) OBVIOUS
<1>2. PICK t \in Seq(Items) : t = Append(s, x) /\ Len(t) = n + 1 /\ t[n + 1] = x /\ \A i \in 1 .. n : t[i] = s[i]
  <2>1. /\ Append(s, x) \in Seq(Items) /\ Len(Append(s, x)) = Len(s) + 1 /\ Append(s, x)[Len(s) + 1] = x
        /\ \A i \in 1 .. Len(s) : Append(s, x)[i] = s[i]
    BY AppendProperties
  <2> QED BY <1>1, <2>1
<1>3. DOMAIN s = 1 .. n BY <1>1
<1>4. \A i \in 1 .. n : t[i] # x BY <1>2, <1>3 DEF ToSet
<1>5. ASSUME NEW i \in 1 .. n + 1, NEW j \in 1 .. n + 1, t[i] = t[j] PROVE i = j
  <2>1. CASE i = n + 1 /\ j \in 1 .. n BY <1>2, <1>4, <1>5, <2>1
  <2>2. CASE j = n + 1 /\ i \in 1 .. n BY <1>2, <1>4, <1>5, <2>2
  <2>3. CASE i \in 1 .. n /\ j \in 1 .. n BY <1>1, <1>2, <1>5, <2>3
  <2>4. CASE i = n + 1 /\ j = n + 1 BY <2>4
  <2> QED BY <2>1, <2>2, <2>3, <2>4
<1> QED BY <1>2, <1>5

LEMMA ScanStart ==
  ASSUME PcInit, WellBuilt(machine)
  PROVE  ScanInv
<1> Formed(machine) BY DEF WellBuilt
<1>1. scan = <<Frame(0)>> /\ found = <<>> /\ stage = "scan" BY DEF PcInit
<1>2. PICK z \in Frames : z = Frame(0) /\ z.bus = 0 /\ z.slot = 0 /\ z.function = 0 /\ z.count = 1
  <2>1. Frame(0) = [bus |-> 0, slot |-> 0, function |-> 0, count |-> 1] BY DEF Frame
  <2>2. Frame(0) \in Frames BY <2>1 DEF Frames
  <2> QED BY <2>1, <2>2
<1>3. scan \in Seq(Frames) /\ Len(scan) = 1 /\ scan[1] = z BY <1>1, <1>2
<1>4. FrameOK(z, machine.devices) BY <1>2, SizesAre DEF FrameOK
<1>5. Seen = {}
  <2>1. DOMAIN found = {} BY <1>1
  <2> QED BY <2>1 DEF Seen, ToSet
<1>6. Begun = {0} BY <1>5 DEF Begun
<1>7. found \in Seq(Devices) /\ Len(found) = 0 BY <1>1
<1>8. \A i \in 1 .. Len(scan) : i = 1 /\ scan[i] = z BY <1>3
<1>9. ASSUME NEW e \in Devices PROVE ~Passed(z, e)
  <2>1. e[2] \in Nat /\ e[3] \in Nat BY DeviceIs, SizesAre
  <2> QED BY <1>2, <2>1 DEF Passed
<1>10. 1 \in 1 .. Len(scan) BY <1>3
<1>11. ASSUME NEW e \in Devices
       PROVE  /\ e \in Seen => e[1] \in Begun
              /\ e[1] \in Begun /\ (\A i \in 1 .. Len(scan) : scan[i].bus # e[1]) => e \in Seen
              /\ \A i \in 1 .. Len(scan) : scan[i].bus = e[1] => (e \in Seen <=> Passed(scan[i], e))
  BY <1>2, <1>5, <1>6, <1>8, <1>9, <1>10
<1>12. ~Scanned BY <1>1 DEF Scanned
<1>13. \A i \in 1 .. Len(scan) : FrameOK(scan[i], machine.devices) /\ scan[i].bus \in Begun
  BY <1>2, <1>4, <1>6, <1>8
<1>14. \A i, j \in 1 .. Len(scan) : scan[i].bus = scan[j].bus => i = j BY <1>8
<1> QED BY <1>3, <1>7, <1>11, <1>12, <1>13, <1>14 DEF ScanInv, StackInv

\* What one turn of pci_detect does, in terms of what is there.
Turn(n, f, next, here, d) ==
  /\ n = Len(scan) /\ f = scan[n] /\ here = <<f.bus, f.slot, f.function>>
  /\ d = IF here \in Devices THEN machine.devices[here] ELSE Absent
  /\ d.kind = "absent" <=> here \notin Devices
  /\ next.bus = f.bus /\ next.slot = f.slot /\ next.function = f.function + 1 /\ FrameOK(next, machine.devices)
  /\ found' = IF here \in Devices THEN Append(found, here) ELSE found
  /\ screen' = IF d.kind = "vga" THEN OnScreen(here) ELSE screen
  /\ stage = "scan" /\ stage' = IF d.kind = "ide" THEN "probe" ELSE "scan"
  /\ probe' = IF d.kind = "ide" THEN Units ELSE probe
  /\ scan' = [scan EXCEPT ![n] = next] \o (IF d.kind = "bridge" THEN <<Frame(d.bus)>> ELSE <<>>)
  /\ machine' = machine /\ disks' = disks /\ drive' = drive /\ buffer' = buffer

LEMMA Detected ==
  ASSUME Formed(machine), StackInv, PciDetect
  PROVE  \E n \in Nat \ {0}, f \in Frames, next \in Frames : \E here, d : Turn(n, f, next, here, d)
<1>1. PICK n \in Nat \ {0} : n = Len(scan)
  <2>1. scan # <<>> /\ scan \in Seq(Frames) BY DEF PciDetect, StackInv
  <2> QED BY <2>1, EmptySeq
<1>2. n \in 1 .. Len(scan) BY <1>1
<1>3. PICK f \in Frames : f = scan[n]
  <2>1. scan \in Seq(Frames) BY DEF StackInv
  <2> QED BY <1>2, <2>1, ElementOfSeq
<1>4. FrameOK(f, machine.devices) BY <1>2, <1>3 DEF StackInv
<1>5. Last(scan) = f BY <1>1, <1>3 DEF Last
<1>6. PICK here : here = <<f.bus, f.slot, f.function>> OBVIOUS
<1>7. f.slot < Slots /\ f.function < f.count BY <1>5 DEF PciDetect
<1>8. PICK d : d = At(f.bus, f.slot, f.function) OBVIOUS
<1>9. d = IF here \in Devices THEN machine.devices[here] ELSE Absent BY <1>4, <1>6, <1>7, <1>8, AnswersItself
<1>10. PICK next \in Frames :
         /\ next = Looked(f, d)
         /\ next.bus = f.bus /\ next.slot = f.slot /\ next.function = f.function + 1 /\ FrameOK(next, machine.devices)
  BY <1>4, <1>6, <1>7, <1>9, NextFrame
<1>12. d.kind = "absent" <=> here \notin Devices
  <2>1. CASE here \in Devices BY <1>9, <2>1 DEF Formed, Devices
  <2>2. CASE here \notin Devices BY <1>9, <2>2 DEF Absent
  <2> QED BY <2>1, <2>2
<1>14. /\ found' = IF d.kind = "absent" THEN found ELSE Append(found, here)
       /\ screen' = IF d.kind = "vga" THEN OnScreen(here) ELSE screen
       /\ stage = "scan" /\ stage' = IF d.kind = "ide" THEN "probe" ELSE "scan"
       /\ probe' = IF d.kind = "ide" THEN Units ELSE probe
       /\ scan' = [scan EXCEPT ![n] = next] \o (IF d.kind = "bridge" THEN <<Frame(d.bus)>> ELSE <<>>)
       /\ machine' = machine /\ disks' = disks /\ drive' = drive /\ buffer' = buffer
  BY <1>1, <1>5, <1>6, <1>8, <1>10, Zenon DEF PciDetect, Looked
<1>15. found' = IF here \in Devices THEN Append(found, here) ELSE found BY <1>12, <1>14
<1>16. Turn(n, f, next, here, d) BY <1>1, <1>3, <1>6, <1>9, <1>10, <1>12, <1>14, <1>15 DEF Turn
<1> WITNESS n \in Nat \ {0}, f \in Frames, next \in Frames
<1> WITNESS here, d
<1> QED BY <1>16

\* It was not found before.
LEMMA NotSeenYet ==
  ASSUME Formed(machine), ScanInv, NEW n \in Nat \ {0}, NEW f \in Frames, NEW next, NEW here, NEW d,
         Turn(n, f, next, here, d)
  PROVE  here \notin Seen
<1>1. n = Len(scan) /\ f = scan[n] /\ here = <<f.bus, f.slot, f.function>> BY DEF Turn
<1>2. n \in 1 .. Len(scan)
  <2>1. n \in Nat /\ n >= 1 OBVIOUS
  <2> QED BY <1>1, <2>1
<1>3. CASE here \in Devices
  <2>1. here[1] = f.bus BY <1>1
  <2>2. here \in Seen <=> Passed(f, here) BY <1>1, <1>2, <1>3, <2>1 DEF ScanInv
  <2> QED BY <1>1, <2>2, NotPassedHere
<1>4. CASE here \notin Devices
  <2>1. found \in Seq(Devices) BY DEF ScanInv
  <2>2. \A i \in DOMAIN found : found[i] \in Devices BY <2>1
  <2> QED BY <1>4, <2>2 DEF Seen, ToSet
<1> QED BY <1>3, <1>4

\* One turn of pci_detect.
LEMMA DetectKeepsScan ==
  ASSUME WellBuilt(machine), ScanInv, PciDetect
  PROVE  ScanInv'
<1> Formed(machine) /\ StackInv BY DEF WellBuilt, ScanInv
<1>1. PICK n \in Nat \ {0}, f \in Frames, next \in Frames : \E here, d : Turn(n, f, next, here, d) BY Detected
<1>2. PICK here, d : Turn(n, f, next, here, d) BY <1>1
<1>3. here \notin Seen BY <1>2, NotSeenYet
<1>4. /\ n = Len(scan) /\ f = scan[n] /\ here = <<f.bus, f.slot, f.function>>
      /\ d = IF here \in Devices THEN machine.devices[here] ELSE Absent
      /\ d.kind = "absent" <=> here \notin Devices
      /\ here \notin Seen
      /\ next.bus = f.bus /\ next.slot = f.slot /\ next.function = f.function + 1 /\ FrameOK(next, machine.devices)
      /\ found' = IF here \in Devices THEN Append(found, here) ELSE found
      /\ stage = "scan" /\ stage' = IF d.kind = "ide" THEN "probe" ELSE "scan"
      /\ scan' = [scan EXCEPT ![n] = next] \o (IF d.kind = "bridge" THEN <<Frame(d.bus)>> ELSE <<>>)
      /\ machine' = machine
  BY <1>3, <1>2 DEF Turn
<1>5. /\ scan \in Seq(Frames) /\ \A i \in 1 .. Len(scan) : FrameOK(scan[i], machine.devices) /\ scan[i].bus \in Begun
      /\ \A i, j \in 1 .. Len(scan) : scan[i].bus = scan[j].bus => i = j
      /\ found \in Seq(Devices) /\ \A i, j \in 1 .. Len(found) : found[i] = found[j] => i = j
      /\ \A e \in Devices :
           /\ e \in Seen => e[1] \in Begun
           /\ e[1] \in Begun /\ (\A i \in 1 .. Len(scan) : scan[i].bus # e[1]) => e \in Seen
           /\ \A i \in 1 .. Len(scan) : scan[i].bus = e[1] => (e \in Seen <=> Passed(scan[i], e))
  BY DEF ScanInv, StackInv
<1>6. Devices' = Devices /\ ~Scanned' BY <1>4 DEF Devices, Scanned
<1>7. /\ found' \in Seq(Devices) /\ \A i, j \in 1 .. Len(found') : found'[i] = found'[j] => i = j
      /\ Seen' = IF here \in Devices THEN Seen \cup {here} ELSE Seen
  <2>1. CASE here \in Devices
    <3>1. found' = Append(found, here) BY <1>4, <2>1
    <3>2. found' \in Seq(Devices) BY <1>5, <2>1, <3>1, AppendProperties
    <3>3. Seen' = Seen \cup {here} BY <1>5, <2>1, <3>1, InAppended DEF Seen
    <3>4. \A i, j \in 1 .. Len(found') : found'[i] = found'[j] => i = j
      <4>1. here \notin ToSet(found) BY <1>4 DEF Seen
      <4>2. \A i, j \in 1 .. Len(Append(found, here)) : Append(found, here)[i] = Append(found, here)[j] => i = j
        BY <1>5, <2>1, <4>1, FoundOnce
      <4> QED BY <3>1, <4>2
    <3> QED BY <2>1, <3>2, <3>3, <3>4
  <2>2. CASE here \notin Devices
    <3>1. found' = found BY <1>4, <2>2
    <3> QED BY <1>5, <2>2, <3>1 DEF Seen
  <2> QED BY <2>1, <2>2
<1>8. n \in 1 .. n /\ f.bus \in Begun /\ n \in 1 .. Len(scan)
  <2>1. n \in Nat /\ n >= 1 OBVIOUS
  <2>2. n = Len(scan) /\ f = scan[n] BY <1>4
  <2>3. n \in 1 .. n BY <2>1
  <2>4. n \in 1 .. Len(scan) BY <2>2, <2>3
  <2>5. scan[n].bus \in Begun BY <1>5, <2>4
  <2> QED BY <2>2, <2>3, <2>4, <2>5
<1>9. PICK s \in Seq(Frames) : /\ s = [scan EXCEPT ![n] = next] /\ Len(s) = n /\ s[n] = next
                               /\ \A i \in 1 .. n : i # n => s[i] = scan[i]
  <2>1. /\ [scan EXCEPT ![n] = next] \in Seq(Frames) /\ Len([scan EXCEPT ![n] = next]) = Len(scan)
        /\ \A j \in 1 .. Len(scan) : [scan EXCEPT ![n] = next][j] = IF j = n THEN next ELSE scan[j]
    BY <1>5, <1>8, ExceptSeq
  <2>2. PICK g : g = [scan EXCEPT ![n] = next] OBVIOUS
  <2>3. n = Len(scan) BY <1>4
  <2>4. g \in Seq(Frames) /\ Len(g) = n /\ \A j \in 1 .. n : g[j] = IF j = n THEN next ELSE scan[j] BY <2>1, <2>2, <2>3
  <2> QED BY <1>8, <2>2, <2>4
<1>10. \A i \in 1 .. n : s[i].bus = scan[i].bus /\ FrameOK(s[i], machine.devices)
  <2> TAKE i \in 1 .. n
  <2>1. CASE i = n BY <1>4, <1>9, <2>1
  <2>2. CASE i # n BY <1>4, <1>5, <1>9, <2>2
  <2> QED BY <2>1, <2>2
<1>11. \A e \in Devices : \A i \in 1 .. n : s[i].bus = e[1] => (e \in Seen' <=> Passed(s[i], e))
  <2> TAKE e \in Devices
  <2> TAKE i \in 1 .. n
  <2> SUFFICES ASSUME s[i].bus = e[1] PROVE e \in Seen' <=> Passed(s[i], e) OBVIOUS
  <2>1. scan[i].bus = e[1] /\ (e \in Seen <=> Passed(scan[i], e)) BY <1>4, <1>5, <1>10
  <2>2. CASE i = n
    <3>1. e[1] = f.bus /\ s[i] = next /\ scan[i] = f BY <1>4, <1>9, <2>1, <2>2
    <3>2. Passed(next, e) <=> Passed(f, e) \/ e = here BY <1>4, <3>1, PassedNext
    <3> QED BY <1>7, <2>1, <3>1, <3>2
  <2>3. CASE i # n
    <3>1. s[i] = scan[i] BY <1>9, <2>3
    <3>2. scan[i].bus # scan[n].bus BY <1>4, <1>5, <1>8, <2>3
    <3>3. e # here
      <4>1. e[1] # f.bus BY <1>4, <2>1, <3>2
      <4>2. here[1] = f.bus BY <1>4
      <4> QED BY <4>1, <4>2
    <3> QED BY <1>7, <2>1, <3>1, <3>3
  <2> QED BY <2>2, <2>3
<1>12. here[1] = f.bus BY <1>4
<1>13. CASE d.kind # "bridge"
  <2>1. scan' = s \o <<>> BY <1>4, <1>9, <1>13
  <2>2. scan' = s BY <2>1, ConcatEmptySeq
  <2>3. Begun' = Begun
    <3>1. Bridges(machine)' = Bridges(machine) BY <1>4
    <3>2. here \notin Bridges(machine) BY <1>4, <1>13 DEF Bridges, Devices
    <3>3. Bridges(machine) \cap Seen' = Bridges(machine) \cap Seen BY <1>7, <3>2
    <3> QED BY <1>4, <3>1, <3>3 DEF Begun
  <2>4. \A i \in 1 .. Len(scan') : FrameOK(scan'[i], machine'.devices) /\ scan'[i].bus \in Begun'
    <3>1. Len(scan') = n /\ n = Len(scan) BY <1>4, <1>9, <2>2
    <3>2. machine' = machine BY <1>4
    <3>3. ASSUME NEW i \in 1 .. n PROVE FrameOK(s[i], machine.devices) /\ s[i].bus \in Begun BY <1>5, <1>10, <3>1
    <3> QED BY <2>2, <2>3, <3>1, <3>2, <3>3
  <2>5. \A i, j \in 1 .. Len(scan') : scan'[i].bus = scan'[j].bus => i = j
    <3>1. Len(scan') = n /\ n = Len(scan) BY <1>4, <1>9, <2>2
    <3>2. ASSUME NEW i \in 1 .. n, NEW j \in 1 .. n, s[i].bus = s[j].bus PROVE i = j
      <4>1. scan[i].bus = scan[j].bus BY <1>10, <3>2
      <4> QED BY <1>5, <3>1, <4>1
    <3> QED BY <2>2, <3>1, <3>2
  <2>6. ASSUME NEW e \in Devices
        PROVE  /\ e \in Seen' => e[1] \in Begun'
               /\ e[1] \in Begun' /\ (\A i \in 1 .. Len(scan') : scan'[i].bus # e[1]) => e \in Seen'
               /\ \A i \in 1 .. Len(scan') : scan'[i].bus = e[1] => (e \in Seen' <=> Passed(scan'[i], e))
    <3>1. e \in Seen' => e[1] \in Begun' BY <1>5, <1>7, <1>8, <1>12, <2>3
    <3>2. ASSUME e[1] \in Begun', \A i \in 1 .. Len(scan') : scan'[i].bus # e[1] PROVE e \in Seen'
      <4>1. \A i \in 1 .. Len(scan) : scan[i].bus # e[1] BY <1>4, <1>9, <1>10, <2>2, <3>2
      <4>2. e \in Seen BY <1>5, <2>3, <3>2, <4>1
      <4> QED BY <1>7, <4>2
    <3>3. \A i \in 1 .. Len(scan') : scan'[i].bus = e[1] => (e \in Seen' <=> Passed(scan'[i], e))
      BY <1>9, <1>11, <2>2
    <3> QED BY <3>1, <3>2, <3>3
  <2> QED BY <1>6, <1>7, <2>2, <2>4, <2>5, <2>6 DEF ScanInv, StackInv
<1>14. CASE d.kind = "bridge"
  <2>1. here \in Devices /\ d = machine.devices[here] /\ here \in Bridges(machine)
    BY <1>4, <1>14 DEF Bridges, Devices
  <2>2. PICK b \in Nat \ {0} : b = d.bus BY <2>1 DEF WellBuilt, Formed
  <2>3. \A e \in Bridges(machine) : machine.devices[e].bus = b => e = here BY <2>1, <2>2 DEF WellBuilt
  <2>4. b \notin Begun BY <1>4, <2>3 DEF Begun
  <2>5. Begun' = Begun \cup {b}
    <3>1. Bridges(machine)' = Bridges(machine) BY <1>4
    <3>2. Bridges(machine) \cap Seen' = (Bridges(machine) \cap Seen) \cup {here} BY <1>7, <2>1
    <3>3. Begun' = {0} \cup {machine.devices[x].bus : x \in Bridges(machine) \cap Seen'}
      <4>1. machine' = machine BY <1>4
      <4> QED BY <3>1, <4>1 DEF Begun
    <3>4. machine.devices[here].bus = b BY <2>1, <2>2
    <3>5. {machine.devices[x].bus : x \in (Bridges(machine) \cap Seen) \cup {here}} =
            {machine.devices[x].bus : x \in Bridges(machine) \cap Seen} \cup {b}
      BY <3>4
    <3> QED BY <3>2, <3>3, <3>5 DEF Begun
  <2>6. PICK z \in Frames : z = Frame(b) /\ z.bus = b /\ z.slot = 0 /\ z.function = 0 /\ z.count = 1
    <3>1. Frame(b) = [bus |-> b, slot |-> 0, function |-> 0, count |-> 1] BY DEF Frame
    <3>2. Frame(b) \in Frames BY <3>1 DEF Frames
    <3> QED BY <3>1, <3>2
  <2>7. PICK t \in Seq(Frames) : t = scan' /\ Len(t) = n + 1 /\ t[n + 1] = z /\ \A i \in 1 .. n : t[i] = s[i]
    <3>1. scan' = s \o <<z>> BY <1>4, <1>9, <1>14, <2>2, <2>6
    <3>2. scan' = Append(s, z) BY <3>1, AppendIsConcat
    <3>3. /\ Append(s, z) \in Seq(Frames) /\ Len(Append(s, z)) = Len(s) + 1 /\ Append(s, z)[Len(s) + 1] = z
          /\ \A i \in 1 .. Len(s) : Append(s, z)[i] = s[i]
      BY AppendProperties
    <3> QED BY <1>9, <3>2, <3>3
  <2>8. FrameOK(z, machine.devices) BY <2>6, SizesAre DEF FrameOK
  <2>9. \A i \in 1 .. n : t[i].bus = scan[i].bus /\ FrameOK(t[i], machine.devices) /\ t[i].bus \in Begun /\ t[i].bus # b
    <3> TAKE i \in 1 .. n
    <3>1. n = Len(scan) BY <1>4
    <3>2. t[i] = s[i] BY <2>7
    <3>3. s[i].bus = scan[i].bus /\ FrameOK(s[i], machine.devices) BY <1>10
    <3>4. scan[i].bus \in Begun BY <1>5, <3>1
    <3> QED BY <2>4, <3>2, <3>3, <3>4
  <2>10. \A i \in 1 .. n + 1 : i \in 1 .. n \/ i = n + 1 OBVIOUS
  <2>11. \A i \in 1 .. n + 1 : FrameOK(t[i], machine.devices) /\ t[i].bus \in Begun'
    BY <2>5, <2>6, <2>7, <2>8, <2>9, <2>10
  <2>12. ASSUME NEW i \in 1 .. n + 1, NEW j \in 1 .. n + 1, t[i].bus = t[j].bus PROVE i = j
    <3>1. CASE i \in 1 .. n /\ j \in 1 .. n BY <1>4, <1>5, <2>9, <2>12, <3>1
    <3>2. CASE i = n + 1 /\ j \in 1 .. n BY <2>6, <2>7, <2>9, <2>12, <3>2
    <3>3. CASE j = n + 1 /\ i \in 1 .. n BY <2>6, <2>7, <2>9, <2>12, <3>3
    <3>4. CASE i = n + 1 /\ j = n + 1 BY <3>4
    <3> QED BY <2>10, <3>1, <3>2, <3>3, <3>4
  <2>13. ASSUME NEW e \in Devices
         PROVE  /\ e \in Seen' => e[1] \in Begun'
                /\ e[1] \in Begun' /\ (\A i \in 1 .. n + 1 : t[i].bus # e[1]) => e \in Seen'
                /\ \A i \in 1 .. n + 1 : t[i].bus = e[1] => (e \in Seen' <=> Passed(t[i], e))
    <3>1. e \in Seen' => e[1] \in Begun BY <1>5, <1>7, <1>8, <1>12
    <3>2. ASSUME e[1] \in Begun', \A i \in 1 .. n + 1 : t[i].bus # e[1] PROVE e \in Seen'
      <4>1. n + 1 \in 1 .. n + 1 /\ \A i \in 1 .. n : i \in 1 .. n + 1 OBVIOUS
      <4>2. e[1] # b BY <2>6, <2>7, <3>2, <4>1
      <4>3. \A i \in 1 .. Len(scan) : scan[i].bus # e[1] BY <1>4, <2>9, <3>2, <4>1
      <4>4. e \in Seen BY <1>5, <2>5, <3>2, <4>2, <4>3
      <4> QED BY <1>7, <4>4
    <3>3. ASSUME NEW i \in 1 .. n + 1, t[i].bus = e[1] PROVE e \in Seen' <=> Passed(t[i], e)
      <4>1. CASE i \in 1 .. n BY <1>11, <2>7, <3>3, <4>1
      <4>2. CASE i = n + 1
        <5>1. e[1] = b /\ t[i] = z BY <2>6, <2>7, <3>3, <4>2
        <5>2. e \notin Seen' BY <2>4, <3>1, <5>1
        <5>3. e[2] \in Nat /\ e[3] \in Nat BY DeviceIs, SizesAre
        <5>4. ~Passed(z, e) BY <2>6, <5>3 DEF Passed
        <5> QED BY <5>1, <5>2, <5>4
      <4> QED BY <2>10, <4>1, <4>2
    <3> QED BY <2>5, <3>1, <3>2, <3>3
  <2>14. /\ scan' \in Seq(Frames)
         /\ \A i \in 1 .. Len(scan') : FrameOK(scan'[i], machine'.devices) /\ scan'[i].bus \in Begun'
         /\ \A i, j \in 1 .. Len(scan') : scan'[i].bus = scan'[j].bus => i = j
    <3>1. machine' = machine BY <1>4
    <3>2. scan' = t /\ Len(t) = n + 1 /\ t \in Seq(Frames) BY <2>7
    <3>3. \A i \in 1 .. Len(t) : FrameOK(t[i], machine'.devices) /\ t[i].bus \in Begun' BY <2>11, <3>1, <3>2
    <3>4. \A i, j \in 1 .. Len(t) : t[i].bus = t[j].bus => i = j BY <2>12, <3>2
    <3> QED BY <3>2, <3>3, <3>4
  <2>15. \A e \in Devices :
           /\ e \in Seen' => e[1] \in Begun'
           /\ e[1] \in Begun' /\ (\A i \in 1 .. Len(scan') : scan'[i].bus # e[1]) => e \in Seen'
           /\ \A i \in 1 .. Len(scan') : scan'[i].bus = e[1] => (e \in Seen' <=> Passed(scan'[i], e))
    BY <2>7, <2>13
  <2> QED BY <1>6, <1>7, <2>14, <2>15 DEF ScanInv, StackInv
<1> QED BY <1>13, <1>14

\* The end of a slot, and of a bus.
LEMMA SlotKeepsScan ==
  ASSUME WellBuilt(machine), ScanInv, PciNextSlot
  PROVE  ScanInv'
<1> Formed(machine) BY DEF WellBuilt
<1>1. /\ scan \in Seq(Frames) /\ \A i \in 1 .. Len(scan) : FrameOK(scan[i], machine.devices) /\ scan[i].bus \in Begun
      /\ \A i, j \in 1 .. Len(scan) : scan[i].bus = scan[j].bus => i = j
      /\ found \in Seq(Devices) /\ \A i, j \in 1 .. Len(found) : found[i] = found[j] => i = j
      /\ \A e \in Devices :
           /\ e \in Seen => e[1] \in Begun
           /\ e[1] \in Begun /\ (\A i \in 1 .. Len(scan) : scan[i].bus # e[1]) => e \in Seen
           /\ \A i \in 1 .. Len(scan) : scan[i].bus = e[1] => (e \in Seen <=> Passed(scan[i], e))
  BY DEF ScanInv, StackInv
<1>2. /\ stage = "scan" /\ stage' = (IF scan' = <<>> THEN "ps2" ELSE stage) /\ machine' = machine /\ found' = found
      /\ scan # <<>>
  BY DEF PciNextSlot
<1>3. PICK n \in Nat : n = Len(scan) /\ n >= 1
  <2>1. Len(scan) # 0 /\ Len(scan) \in Nat BY <1>1, <1>2, EmptySeq
  <2> QED BY <2>1
<1>4. n \in 1 .. Len(scan) BY <1>3
<1>5. PICK f \in Frames : f = scan[n] BY <1>1, <1>4, ElementOfSeq
<1>6. Last(scan) = f BY <1>3, <1>5 DEF Last
<1>7. FrameOK(f, machine.devices) /\ f.bus \in Begun BY <1>1, <1>4, <1>5
<1>8. Devices' = Devices /\ Seen' = Seen /\ Begun' = Begun
  <2>1. Devices' = Devices BY <1>2 DEF Devices
  <2>2. Seen' = Seen BY <1>2 DEF Seen
  <2>3. Bridges(machine)' = Bridges(machine) BY <1>2
  <2>4. machine' = machine BY <1>2
  <2> QED BY <2>1, <2>2, <2>3, <2>4 DEF Begun
<1>9. Scanned' => scan' = <<>> BY <1>2 DEF Scanned
<1>10. machine' = machine BY <1>2
<1>11. CASE f.slot < Slots /\ f.function = f.count /\ scan' = [scan EXCEPT ![n] = NextSlot(f)]
  <2>1. PICK next \in Frames :
          /\ next = NextSlot(f) /\ next.bus = f.bus /\ FrameOK(next, machine.devices)
          /\ \A e \in Devices : e[1] = f.bus => (Passed(next, e) <=> Passed(f, e))
    BY <1>7, <1>11, NextSlotFrame
  <2>2. PICK s \in Seq(Frames) : /\ s = [scan EXCEPT ![n] = next] /\ Len(s) = n /\ s[n] = next
                                 /\ \A i \in 1 .. n : i # n => s[i] = scan[i]
    <3>1. /\ [scan EXCEPT ![n] = next] \in Seq(Frames) /\ Len([scan EXCEPT ![n] = next]) = Len(scan)
          /\ \A j \in 1 .. Len(scan) : [scan EXCEPT ![n] = next][j] = IF j = n THEN next ELSE scan[j]
      BY <1>1, <1>4, ExceptSeq
    <3>2. PICK g : g = [scan EXCEPT ![n] = next] OBVIOUS
    <3>3. g \in Seq(Frames) /\ Len(g) = n /\ \A j \in 1 .. n : g[j] = IF j = n THEN next ELSE scan[j]
      BY <1>3, <3>1, <3>2
    <3> QED BY <1>3, <1>4, <3>2, <3>3
  <2>3. scan' = s BY <1>11, <2>1, <2>2
  <2>4. ASSUME NEW i \in 1 .. n
        PROVE  /\ s[i].bus = scan[i].bus /\ FrameOK(s[i], machine.devices) /\ s[i].bus \in Begun
               /\ \A e \in Devices : s[i].bus = e[1] => (e \in Seen <=> Passed(s[i], e))
    <3>1. i \in 1 .. Len(scan) BY <1>3
    <3>2. CASE i = n
      <4>1. s[i] = next /\ scan[i] = f BY <1>5, <2>2, <3>2
      <4>2. \A e \in Devices : f.bus = e[1] => (e \in Seen <=> Passed(f, e)) BY <1>1, <3>1, <4>1
      <4> QED BY <1>7, <2>1, <4>1, <4>2
    <3>3. CASE i # n
      <4>1. s[i] = scan[i] BY <2>2, <3>3
      <4> QED BY <1>1, <3>1, <4>1
    <3> QED BY <3>2, <3>3
  <2>5. Len(scan') = n BY <2>2, <2>3
  <2>6. \A i \in 1 .. Len(scan') : FrameOK(scan'[i], machine'.devices) /\ scan'[i].bus \in Begun'
    BY <1>8, <1>10, <2>3, <2>4, <2>5
  <2>7. ASSUME NEW i \in 1 .. n, NEW j \in 1 .. n, s[i].bus = s[j].bus PROVE i = j
    <3>1. scan[i].bus = scan[j].bus BY <2>4, <2>7
    <3> QED BY <1>1, <1>3, <3>1
  <2>8. ASSUME NEW e \in Devices
        PROVE  /\ e \in Seen => e[1] \in Begun
               /\ e[1] \in Begun /\ (\A i \in 1 .. n : s[i].bus # e[1]) => e \in Seen
               /\ \A i \in 1 .. n : s[i].bus = e[1] => (e \in Seen <=> Passed(s[i], e))
    <3>1. (\A i \in 1 .. n : s[i].bus # e[1]) => \A i \in 1 .. Len(scan) : scan[i].bus # e[1] BY <1>3, <2>4
    <3> QED BY <1>1, <2>4, <3>1
  <2>9. \A i, j \in 1 .. Len(scan') : scan'[i].bus = scan'[j].bus => i = j BY <2>3, <2>5, <2>7
  <2>10. \A e \in Devices :
           /\ e \in Seen => e[1] \in Begun
           /\ e[1] \in Begun /\ (\A i \in 1 .. Len(scan') : scan'[i].bus # e[1]) => e \in Seen
           /\ \A i \in 1 .. Len(scan') : scan'[i].bus = e[1] => (e \in Seen <=> Passed(scan'[i], e))
    BY <2>3, <2>5, <2>8
  <2>11. scan' \in Seq(Frames) /\ found' \in Seq(Devices') /\ \A i, j \in 1 .. Len(found') : found'[i] = found'[j] => i = j
    BY <1>1, <1>2, <1>8, <2>3
  <2> QED BY <1>8, <1>9, <2>6, <2>9, <2>10, <2>11 DEF ScanInv, StackInv
<1>12. CASE f.slot = Slots /\ scan' = Front(scan)
  <2>1. PICK s \in Seq(Frames) : s = scan' /\ Len(s) = n - 1 /\ \A i \in 1 .. n - 1 : s[i] = scan[i]
    <3>1. n - 1 \in Nat BY <1>3
    <3>2. Front(scan) = SubSeq(scan, 1, n - 1) BY <1>3 DEF Front
    <3>3. \A i \in 1 .. n - 1 : scan[i] \in Frames
      <4>1. \A i \in 1 .. Len(scan) : scan[i] \in Frames BY <1>1, ElementOfSeq
      <4> QED BY <1>3, <4>1
    <3>4. PICK g : g = SubSeq(scan, 1, n - 1) OBVIOUS
    <3>5. /\ g \in Seq(Frames) /\ Len(g) = (IF 1 <= n - 1 THEN n - 1 - 1 + 1 ELSE 0)
          /\ \A i \in 1 .. n - 1 - 1 + 1 : g[i] = scan[1 + i - 1]
      BY <3>1, <3>3, <3>4, SubSeqProperties
    <3>6. Len(g) = n - 1 /\ \A i \in 1 .. n - 1 : g[i] = scan[i] BY <3>1, <3>5
    <3> QED BY <1>12, <3>2, <3>4, <3>5, <3>6
  <2>2. \A i \in 1 .. n - 1 : i \in 1 .. Len(scan) /\ i # n BY <1>3
  <2>3. \A i \in 1 .. Len(scan) : i \in 1 .. n - 1 \/ i = n BY <1>3
  <2>4. ASSUME NEW e \in Devices
        PROVE  /\ e \in Seen => e[1] \in Begun
               /\ e[1] \in Begun /\ (\A i \in 1 .. n - 1 : s[i].bus # e[1]) => e \in Seen
               /\ \A i \in 1 .. n - 1 : s[i].bus = e[1] => (e \in Seen <=> Passed(s[i], e))
    <3>1. \A i \in 1 .. n - 1 : s[i].bus = e[1] => (e \in Seen <=> Passed(s[i], e)) BY <1>1, <2>1, <2>2
    <3>2. ASSUME e[1] \in Begun, \A i \in 1 .. n - 1 : s[i].bus # e[1] PROVE e \in Seen
      <4>1. CASE e[1] = f.bus
        <5>1. e \in Seen <=> Passed(f, e) BY <1>1, <1>4, <1>5, <4>1
        <5> QED BY <1>12, <5>1, AllPassed
      <4>2. CASE e[1] # f.bus
        <5>1. \A i \in 1 .. Len(scan) : scan[i].bus # e[1] BY <1>5, <2>1, <2>3, <3>2, <4>2
        <5> QED BY <1>1, <3>2, <5>1
      <4> QED BY <4>1, <4>2
    <3> QED BY <1>1, <3>1, <3>2
  <2>5. \A i \in 1 .. Len(s) : FrameOK(s[i], machine.devices) /\ s[i].bus \in Begun BY <1>1, <2>1, <2>2
  <2>6. \A i, j \in 1 .. Len(s) : s[i].bus = s[j].bus => i = j BY <1>1, <2>1, <2>2
  <2>7. \A e \in Devices :
          /\ e \in Seen => e[1] \in Begun
          /\ e[1] \in Begun /\ (\A i \in 1 .. Len(s) : s[i].bus # e[1]) => e \in Seen
          /\ \A i \in 1 .. Len(s) : s[i].bus = e[1] => (e \in Seen <=> Passed(s[i], e))
    BY <2>1, <2>4
  <2>8. scan' = s /\ found' \in Seq(Devices') /\ \A i, j \in 1 .. Len(found') : found'[i] = found'[j] => i = j
    BY <1>1, <1>2, <1>8, <2>1
  <2> QED BY <1>8, <1>9, <1>10, <2>5, <2>6, <2>7, <2>8 DEF ScanInv, StackInv
<1>13. \/ f.slot < Slots /\ f.function = f.count /\ scan' = [scan EXCEPT ![n] = NextSlot(f)]
       \/ f.slot = Slots /\ scan' = Front(scan)
  BY <1>3, <1>6, Zenon DEF PciNextSlot
<1> QED BY <1>11, <1>12, <1>13

\* The search does not hear of anything else.
LEMMA ScanLeft ==
  ASSUME ScanInv, UNCHANGED <<machine, scan, found>>, Scanned' => Scanned
  PROVE  ScanInv'
<1>1. Devices' = Devices /\ Seen' = Seen BY DEF Devices, Seen
<1>2. Bridges(machine)' = Bridges(machine) OBVIOUS
<1>3. Begun' = Begun BY <1>1, <1>2 DEF Begun
<1> QED BY <1>1, <1>3 DEF ScanInv, StackInv

-----------------------------------------------------------------------------
(***************************************************************************)
(* A bridge that leads back to the first bus is searched for ever.         *)
(***************************************************************************)

LEMMA LoopStart ==
  ASSUME PcInit, Formed(machine)
  PROVE  StackInv /\ LoopInv
<1>1. scan = <<Frame(0)>> /\ stage = "scan" BY DEF PcInit
<1>2. PICK z \in Frames : z = Frame(0) /\ z.bus = 0 /\ z.slot = 0 /\ z.function = 0 /\ z.count = 1
  <2>1. Frame(0) = [bus |-> 0, slot |-> 0, function |-> 0, count |-> 1] BY DEF Frame
  <2>2. Frame(0) \in Frames BY <2>1 DEF Frames
  <2> QED BY <2>1, <2>2
<1>3. scan \in Seq(Frames) /\ Len(scan) = 1 /\ scan[1] = z BY <1>1, <1>2
<1>4. FrameOK(z, machine.devices) BY <1>2, SizesAre DEF FrameOK
<1>5. StackInv BY <1>3, <1>4 DEF StackInv
<1>6. ~Scanned BY <1>1 DEF Scanned
<1>7. ASSUME NEW e \in BackToFirst(machine) PROVE ~Passed(z, e)
  <2>1. e \in Devices BY DEF BackToFirst, Bridges, Devices
  <2>2. e[2] \in Nat /\ e[3] \in Nat BY <2>1, DeviceIs, SizesAre
  <2> QED BY <1>2, <2>2 DEF Passed
<1>8. 1 \in 1 .. Len(scan) BY <1>3
<1> QED BY <1>2, <1>3, <1>5, <1>6, <1>7, <1>8 DEF LoopInv

LEMMA LoopLeft ==
  ASSUME StackInv, LoopInv, UNCHANGED <<machine, scan>>, Scanned' => Scanned
  PROVE  StackInv' /\ LoopInv'
<1>1. StackInv' BY DEF StackInv
<1>2. BackToFirst(machine)' = BackToFirst(machine) OBVIOUS
<1> QED BY <1>1, <1>2 DEF LoopInv

\* Where one turn of pci_detect leaves the frames.
TurnsTo(n, next, d, t) ==
  /\ t = scan' /\ Len(t) \in {n, n + 1} /\ t[n] = next /\ \A i \in 1 .. n : i # n => t[i] = scan[i]
  /\ Len(t) = n + 1 <=> d.kind = "bridge"
  /\ Len(t) = n + 1 => t[n + 1] = Frame(d.bus) /\ d.bus \in Nat

LEMMA TurnedFrames ==
  ASSUME StackInv, NEW n \in Nat \ {0}, NEW f \in Frames, NEW next \in Frames, NEW here, NEW d, Turn(n, f, next, here, d),
         Formed(machine)
  PROVE  \E t \in Seq(Frames) : TurnsTo(n, next, d, t)
<1>1. /\ n = Len(scan) /\ d = (IF here \in Devices THEN machine.devices[here] ELSE Absent)
      /\ scan' = [scan EXCEPT ![n] = next] \o (IF d.kind = "bridge" THEN <<Frame(d.bus)>> ELSE <<>>)
  BY DEF Turn
<1>2. scan \in Seq(Frames) BY DEF StackInv
<1>3. n \in 1 .. Len(scan)
  <2>1. n \in Nat /\ n >= 1 OBVIOUS
  <2> QED BY <1>1, <2>1
<1>4. PICK s \in Seq(Frames) : /\ s = [scan EXCEPT ![n] = next] /\ Len(s) = n /\ s[n] = next
                               /\ \A i \in 1 .. n : i # n => s[i] = scan[i]
  <2>1. /\ [scan EXCEPT ![n] = next] \in Seq(Frames) /\ Len([scan EXCEPT ![n] = next]) = Len(scan)
        /\ \A j \in 1 .. Len(scan) : [scan EXCEPT ![n] = next][j] = IF j = n THEN next ELSE scan[j]
    BY <1>2, <1>3, ExceptSeq
  <2>2. PICK g : g = [scan EXCEPT ![n] = next] OBVIOUS
  <2>3. g \in Seq(Frames) /\ Len(g) = n /\ \A j \in 1 .. n : g[j] = IF j = n THEN next ELSE scan[j] BY <1>1, <2>1, <2>2
  <2> QED BY <1>1, <1>3, <2>2, <2>3
<1>5. CASE d.kind # "bridge"
  <2>1. scan' = s \o <<>> BY <1>1, <1>4, <1>5
  <2>2. scan' = s BY <2>1, ConcatEmptySeq
  <2> QED BY <1>4, <1>5, <2>2 DEF TurnsTo
<1>6. CASE d.kind = "bridge"
  <2>1. here \in Bridges(machine) /\ d = machine.devices[here] BY <1>1, <1>6 DEF Bridges, Devices, Absent
  <2>2. PICK b \in Nat : b = d.bus BY <2>1 DEF Formed
  <2>3. PICK z \in Frames : z = Frame(b)
    <3>1. Frame(b) = [bus |-> b, slot |-> 0, function |-> 0, count |-> 1] BY DEF Frame
    <3> QED BY <3>1 DEF Frames
  <2>4. scan' = s \o <<z>> BY <1>1, <1>4, <1>6, <2>2, <2>3
  <2>5. scan' = Append(s, z) BY <2>4, AppendIsConcat
  <2>6. /\ Append(s, z) \in Seq(Frames) /\ Len(Append(s, z)) = Len(s) + 1 /\ Append(s, z)[Len(s) + 1] = z
        /\ \A i \in 1 .. Len(s) : Append(s, z)[i] = s[i]
    BY AppendProperties
  <2>7. PICK t \in Seq(Frames) : t = scan' /\ Len(t) = n + 1 /\ t[n + 1] = z /\ \A i \in 1 .. n : t[i] = s[i]
    BY <1>4, <2>5, <2>6
  <2>8. t[n] = next /\ \A i \in 1 .. n : i # n => t[i] = scan[i] BY <1>1, <1>3, <1>4, <2>7
  <2> QED BY <1>6, <2>2, <2>3, <2>7, <2>8 DEF TurnsTo
<1> QED BY <1>5, <1>6

\* One turn of pci_detect.
LEMMA DetectKeepsLoop ==
  ASSUME Formed(machine), StackInv, LoopInv, PciDetect
  PROVE  StackInv' /\ LoopInv'
<1>1. PICK n \in Nat \ {0}, f \in Frames, next \in Frames : \E here, d : Turn(n, f, next, here, d) BY Detected
<1>2. PICK here, d : Turn(n, f, next, here, d) BY <1>1
<1>3. /\ n = Len(scan) /\ f = scan[n] /\ here = <<f.bus, f.slot, f.function>>
      /\ d = IF here \in Devices THEN machine.devices[here] ELSE Absent
      /\ next.bus = f.bus /\ next.slot = f.slot /\ next.function = f.function + 1 /\ FrameOK(next, machine.devices)
      /\ stage' = (IF d.kind = "ide" THEN "probe" ELSE "scan") /\ machine' = machine
  BY <1>2 DEF Turn
<1>4. PICK t \in Seq(Frames) : TurnsTo(n, next, d, t) BY <1>2, TurnedFrames
<1>5. /\ t = scan' /\ Len(t) \in {n, n + 1} /\ t[n] = next /\ \A i \in 1 .. n : i # n => t[i] = scan[i]
      /\ Len(t) = n + 1 <=> d.kind = "bridge"
      /\ Len(t) = n + 1 => t[n + 1] = Frame(d.bus) /\ d.bus \in Nat
  BY <1>4 DEF TurnsTo
<1>6. n \in 1 .. n /\ \A i \in 1 .. Len(t) : i \in 1 .. n \/ (i = n + 1 /\ Len(t) = n + 1)
  <2>1. n \in Nat /\ n >= 1 OBVIOUS
  <2> QED BY <1>5, <2>1
<1>7. \A i \in 1 .. n : i \in 1 .. Len(t) /\ i \in 1 .. Len(scan) BY <1>3, <1>5
<1>8. StackInv'
  <2>1. ASSUME NEW i \in 1 .. Len(t) PROVE FrameOK(t[i], machine.devices)
    <3>1. CASE i \in 1 .. n
      <4>1. i # n => FrameOK(scan[i], machine.devices) BY <1>7, <3>1 DEF StackInv
      <4> QED BY <1>3, <1>5, <3>1, <4>1
    <3>2. CASE i = n + 1 /\ Len(t) = n + 1
      <4>1. PICK b \in Nat : b = d.bus /\ t[i] = Frame(b) BY <1>5, <3>2
      <4>2. PICK z : z = [bus |-> b, slot |-> 0, function |-> 0, count |-> 1] OBVIOUS
      <4>3. FrameOK(z, machine.devices) BY <4>2, SizesAre DEF FrameOK
      <4>4. t[i] = z BY <4>1, <4>2 DEF Frame
      <4> QED BY <4>3, <4>4
    <3> QED BY <1>6, <3>1, <3>2
  <2>2. machine' = machine /\ scan' = t BY <1>3, <1>5
  <2> QED BY <2>1, <2>2 DEF StackInv
<1>9. LoopInv'
  <2>1. ~Scanned' BY <1>3 DEF Scanned
  <2>2. BackToFirst(machine)' = BackToFirst(machine) BY <1>3
  <2>3. ASSUME NEW e \in BackToFirst(machine)
        PROVE  \E i \in 1 .. Len(t) : t[i].bus = 0 /\ ~Passed(t[i], e)
    <3>1. /\ e \in Devices /\ e \in Bridges(machine) /\ e[1] = 0
          /\ machine.devices[e].bus = 0 /\ machine.devices[e].kind = "bridge"
      BY DEF BackToFirst, Bridges, Devices
    <3>2. PICK i \in 1 .. Len(scan) : scan[i].bus = 0 /\ ~Passed(scan[i], e) BY DEF LoopInv
    <3>3. CASE i # n
      <4>1. i \in 1 .. n /\ t[i] = scan[i] BY <1>3, <1>5, <3>3
      <4> QED BY <1>7, <3>2, <4>1
    <3>4. CASE i = n /\ e # here
      <4>1. f.bus = 0 /\ ~Passed(f, e) /\ t[n] = next /\ next.bus = 0 BY <1>3, <1>5, <3>2, <3>4
      <4>2. Passed(next, e) <=> Passed(f, e) \/ e = here BY <1>3, <3>1, <4>1, PassedNext
      <4> QED BY <1>6, <1>7, <3>4, <4>1, <4>2
    <3>5. CASE e = here
      <4>1. d = machine.devices[e] /\ d.kind = "bridge" /\ d.bus = 0 BY <1>3, <3>1, <3>5
      <4>2. Len(t) = n + 1 /\ t[n + 1] = Frame(0) BY <1>5, <4>1
      <4>3. PICK z : z = [bus |-> 0, slot |-> 0, function |-> 0, count |-> 1] /\ z = Frame(0) BY DEF Frame
      <4>4. e[2] \in Nat /\ e[3] \in Nat BY <3>1, DeviceIs, SizesAre
      <4>5. ~Passed(z, e) BY <4>3, <4>4 DEF Passed
      <4>6. n + 1 \in 1 .. Len(t) BY <4>2
      <4> QED BY <4>2, <4>3, <4>5, <4>6
    <3> QED BY <3>3, <3>4, <3>5
  <2> QED BY <1>5, <2>1, <2>2, <2>3 DEF LoopInv
<1> QED BY <1>8, <1>9

\* The end of a slot, and of a bus.
LEMMA SlotKeepsLoop ==
  ASSUME Formed(machine), StackInv, LoopInv, PciNextSlot
  PROVE  StackInv' /\ LoopInv'
<1>1. /\ stage = "scan" /\ stage' = (IF scan' = <<>> THEN "ps2" ELSE stage) /\ machine' = machine /\ scan # <<>>
  BY DEF PciNextSlot
<1>2. scan \in Seq(Frames) /\ \A i \in 1 .. Len(scan) : FrameOK(scan[i], machine.devices) BY DEF StackInv
<1>3. PICK n \in Nat : n = Len(scan) /\ n >= 1
  <2>1. Len(scan) # 0 /\ Len(scan) \in Nat BY <1>1, <1>2, EmptySeq
  <2> QED BY <2>1
<1>4. n \in 1 .. Len(scan) BY <1>3
<1>5. PICK f \in Frames : f = scan[n] /\ FrameOK(f, machine.devices) BY <1>2, <1>4, ElementOfSeq
<1>6. Last(scan) = f BY <1>3, <1>5 DEF Last
<1>7. BackToFirst(machine)' = BackToFirst(machine) BY <1>1
<1>8. ASSUME NEW t \in Seq(Frames), t = scan', \A i \in 1 .. Len(t) : FrameOK(t[i], machine.devices),
             \A e \in BackToFirst(machine) : \E i \in 1 .. Len(t) : t[i].bus = 0 /\ ~Passed(t[i], e)
      PROVE  StackInv' /\ LoopInv'
  <2>1. StackInv' BY <1>1, <1>8 DEF StackInv
  <2>2. ASSUME NEW e \in BackToFirst(machine) PROVE ~Scanned'
    <3>1. PICK i \in 1 .. Len(t) : t[i].bus = 0 BY <1>8
    <3>2. t # <<>> BY <3>1
    <3> QED BY <1>1, <1>8, <3>2 DEF Scanned
  <2> QED BY <1>7, <1>8, <2>1, <2>2 DEF LoopInv
<1>9. CASE f.slot < Slots /\ f.function = f.count /\ scan' = [scan EXCEPT ![n] = NextSlot(f)]
  <2>1. PICK next \in Frames :
          /\ next = NextSlot(f) /\ next.bus = f.bus /\ FrameOK(next, machine.devices)
          /\ \A e \in Devices : e[1] = f.bus => (Passed(next, e) <=> Passed(f, e))
    BY <1>5, <1>9, NextSlotFrame
  <2>2. PICK t \in Seq(Frames) : t = scan' /\ Len(t) = n /\ \A j \in 1 .. n : t[j] = IF j = n THEN next ELSE scan[j]
    <3>1. /\ [scan EXCEPT ![n] = next] \in Seq(Frames) /\ Len([scan EXCEPT ![n] = next]) = Len(scan)
          /\ \A j \in 1 .. Len(scan) : [scan EXCEPT ![n] = next][j] = IF j = n THEN next ELSE scan[j]
      BY <1>2, <1>4, ExceptSeq
    <3>2. PICK g : g = [scan EXCEPT ![n] = next] OBVIOUS
    <3>3. g \in Seq(Frames) /\ Len(g) = n /\ \A j \in 1 .. n : g[j] = IF j = n THEN next ELSE scan[j]
      BY <1>3, <3>1, <3>2
    <3> QED BY <1>9, <2>1, <3>2, <3>3
  <2>3. \A i \in 1 .. Len(t) : FrameOK(t[i], machine.devices) BY <1>2, <1>3, <2>1, <2>2
  <2>4. ASSUME NEW e \in BackToFirst(machine)
        PROVE  \E i \in 1 .. Len(t) : t[i].bus = 0 /\ ~Passed(t[i], e)
    <3>1. e \in Devices /\ e[1] = 0 BY DEF BackToFirst, Bridges, Devices
    <3>2. PICK i \in 1 .. Len(scan) : scan[i].bus = 0 /\ ~Passed(scan[i], e) BY DEF LoopInv
    <3>3. i \in 1 .. Len(t) BY <1>3, <2>2
    <3>4. t[i].bus = 0 /\ ~Passed(t[i], e)
      <4>1. CASE i = n BY <1>5, <2>1, <2>2, <3>1, <3>2, <3>3, <4>1
      <4>2. CASE i # n BY <2>2, <3>2, <3>3, <4>2
      <4> QED BY <4>1, <4>2
    <3> QED BY <3>3, <3>4
  <2> QED BY <1>8, <2>2, <2>3, <2>4
<1>10. CASE f.slot = Slots /\ scan' = Front(scan)
  <2>1. PICK t \in Seq(Frames) : t = scan' /\ Len(t) = n - 1 /\ \A i \in 1 .. n - 1 : t[i] = scan[i]
    <3>1. n - 1 \in Nat BY <1>3
    <3>2. Front(scan) = SubSeq(scan, 1, n - 1) BY <1>3 DEF Front
    <3>3. \A i \in 1 .. n - 1 : scan[i] \in Frames
      <4>1. \A i \in 1 .. Len(scan) : scan[i] \in Frames BY <1>2, ElementOfSeq
      <4> QED BY <1>3, <4>1
    <3>4. PICK g : g = SubSeq(scan, 1, n - 1) OBVIOUS
    <3>5. /\ g \in Seq(Frames) /\ Len(g) = (IF 1 <= n - 1 THEN n - 1 - 1 + 1 ELSE 0)
          /\ \A i \in 1 .. n - 1 - 1 + 1 : g[i] = scan[1 + i - 1]
      BY <3>1, <3>3, <3>4, SubSeqProperties
    <3>6. Len(g) = n - 1 /\ \A i \in 1 .. n - 1 : g[i] = scan[i] BY <3>1, <3>5
    <3> QED BY <1>10, <3>2, <3>4, <3>5, <3>6
  <2>2. \A i \in 1 .. n - 1 : i \in 1 .. Len(scan) BY <1>3
  <2>3. \A i \in 1 .. Len(t) : FrameOK(t[i], machine.devices) BY <1>2, <2>1, <2>2
  <2>4. ASSUME NEW e \in BackToFirst(machine)
        PROVE  \E i \in 1 .. Len(t) : t[i].bus = 0 /\ ~Passed(t[i], e)
    <3>1. e \in Devices BY DEF BackToFirst, Bridges, Devices
    <3>2. PICK i \in 1 .. Len(scan) : scan[i].bus = 0 /\ ~Passed(scan[i], e) BY DEF LoopInv
    <3>3. i # n BY <1>5, <1>10, <3>1, <3>2, AllPassed
    <3>4. i \in 1 .. n - 1 BY <1>3, <3>3
    <3> QED BY <2>1, <3>2, <3>4
  <2> QED BY <1>8, <2>1, <2>3, <2>4
<1>11. \/ f.slot < Slots /\ f.function = f.count /\ scan' = [scan EXCEPT ![n] = NextSlot(f)]
       \/ f.slot = Slots /\ scan' = Front(scan)
  BY <1>3, <1>6, Zenon DEF PciNextSlot
<1> QED BY <1>9, <1>10, <1>11

-----------------------------------------------------------------------------
(***************************************************************************)
(* The screen.                                                             *)
(***************************************************************************)

LEMMA ScreenStart ==
  ASSUME PcInit
  PROVE  ScreenInv
<1>1. screen.root = <<>> /\ screen.mapped = <<>> /\ Len(found) = 0 BY DEF PcInit
<1> QED BY <1>1 DEF ScreenInv

LEMMA ScreenLeft ==
  ASSUME ScreenInv, UNCHANGED <<machine, found, screen>>
  PROVE  ScreenInv'
<1>1. \A k : OfKind(k)' = OfKind(k) BY DEF OfKind, Devices
<1>2. OfKind("vga")' = OfKind("vga") BY DEF OfKind, Devices
<1> QED BY <1>2 DEF ScreenInv

\* One turn of pci_detect.
LEMMA DetectKeepsScreen ==
  ASSUME WellBuilt(machine), ScanInv, ScreenInv, PciDetect
  PROVE  ScreenInv'
<1> Formed(machine) /\ StackInv BY DEF WellBuilt, ScanInv
<1> DEFINE vga == OfKind("vga")
<1>1. PICK n \in Nat \ {0}, f \in Frames, next \in Frames : \E here, d : Turn(n, f, next, here, d) BY Detected
<1>2. PICK here, d : Turn(n, f, next, here, d) BY <1>1
<1>3. /\ d = IF here \in Devices THEN machine.devices[here] ELSE Absent
      /\ found' = IF here \in Devices THEN Append(found, here) ELSE found
      /\ screen' = IF d.kind = "vga" THEN OnScreen(here) ELSE screen
      /\ machine' = machine
  BY <1>2 DEF Turn
<1>4. OfKind("vga")' = vga BY <1>3 DEF OfKind, Devices
<1>5. here \in vga <=> here \in Devices /\ d.kind = "vga" BY <1>3 DEF OfKind
<1>6. found \in Seq(Devices) BY DEF ScanInv
<1>7. CASE here \notin Devices
  <2>1. d.kind = "absent" BY <1>3, <1>7 DEF Absent
  <2>2. found' = found /\ screen' = screen BY <1>3, <1>7, <2>1
  <2> QED BY <1>3, <2>2, ScreenLeft
<1>8. CASE here \in Devices
  <2>1. PICK m \in Nat : m = Len(found) BY <1>6
  <2>2. PICK t \in Seq(Devices) : t = found' /\ Len(t) = m + 1 /\ t[m + 1] = here /\ \A i \in 1 .. m : t[i] = found[i]
    <3>1. /\ Append(found, here) \in Seq(Devices) /\ Len(Append(found, here)) = Len(found) + 1
          /\ Append(found, here)[Len(found) + 1] = here
          /\ \A i \in 1 .. Len(found) : Append(found, here)[i] = found[i]
      BY <1>6, <1>8, AppendProperties
    <3> QED BY <1>3, <1>8, <2>1, <3>1
  <2>3. \A k \in 1 .. m + 1 : k \in 1 .. m \/ k = m + 1 BY <2>1
  <2>4. m + 1 \in 1 .. m + 1 /\ \A k \in 1 .. m : k \in 1 .. m + 1 /\ k <= m + 1 BY <2>1
  <2>5. CASE d.kind # "vga"
    <3>1. screen' = screen /\ here \notin vga BY <1>3, <1>5, <2>5
    <3>2. CASE screen.root = <<>> /\ screen.mapped = <<>> /\ \A i \in 1 .. Len(found) : found[i] \notin vga
      <4>1. \A i \in 1 .. m + 1 : t[i] \notin vga BY <2>1, <2>2, <2>3, <3>1, <3>2
      <4>2. \A i \in 1 .. Len(found') : found'[i] \notin OfKind("vga")' BY <1>4, <2>2, <4>1
      <4> QED BY <3>1, <3>2, <4>2 DEF ScreenInv
    <3>3. ASSUME NEW i \in 1 .. Len(found), NEW j \in 1 .. Len(found),
                 screen.root = found[i], screen.mapped = found[j], {found[i], found[j]} \subseteq vga,
                 \A k \in 1 .. Len(found) : found[k] \in vga => i <= k /\ k <= j
          PROVE  ScreenInv'
      <4>1. i \in 1 .. m + 1 /\ j \in 1 .. m + 1 /\ t[i] = found[i] /\ t[j] = found[j] BY <2>1, <2>2, <2>4
      <4>2. \A k \in 1 .. m + 1 : t[k] \in vga => i <= k /\ k <= j BY <2>1, <2>2, <2>3, <3>1, <3>3
      <4>3. screen'.root = t[i] /\ screen'.mapped = t[j] /\ {t[i], t[j]} \subseteq vga BY <3>1, <3>3, <4>1
      <4> QED BY <1>4, <2>2, <4>1, <4>2, <4>3 DEF ScreenInv
    <3> QED BY <3>2, <3>3 DEF ScreenInv
  <2>6. CASE d.kind = "vga"
    <3>1. screen' = [root |-> IF screen.root = <<>> THEN here ELSE screen.root, mapped |-> here] BY <1>3, <2>6 DEF OnScreen
    <3>2. here \in vga BY <1>5, <1>8, <2>6
    <3>3. screen'.mapped = t[m + 1] /\ t[m + 1] \in vga BY <2>2, <3>1, <3>2
    <3>4. CASE screen.root = <<>> /\ screen.mapped = <<>> /\ \A i \in 1 .. Len(found) : found[i] \notin vga
      <4>1. screen'.root = t[m + 1] BY <2>2, <3>1, <3>4
      <4>2. \A k \in 1 .. m + 1 : t[k] \in vga => m + 1 <= k /\ k <= m + 1 BY <2>1, <2>2, <2>3, <3>4
      <4> QED BY <1>4, <2>2, <2>4, <3>3, <4>1, <4>2 DEF ScreenInv
    <3>5. ASSUME NEW i \in 1 .. Len(found), NEW j \in 1 .. Len(found),
                 screen.root = found[i], screen.mapped = found[j], {found[i], found[j]} \subseteq vga,
                 \A k \in 1 .. Len(found) : found[k] \in vga => i <= k /\ k <= j
          PROVE  ScreenInv'
      <4>1. i \in 1 .. m /\ i \in 1 .. m + 1 /\ i <= m + 1 /\ t[i] = found[i] BY <2>1, <2>2, <2>4
      <4>2. screen.root # <<>>
        <5>1. found[i] \in Devices BY <1>6, <2>1, <4>1
        <5>2. found[i] = <<found[i][1], found[i][2], found[i][3]>> BY <5>1, DeviceIs
        <5> QED BY <3>5, <5>2
      <4>3. screen'.root = t[i] /\ {t[i], t[m + 1]} \subseteq vga BY <3>1, <3>3, <3>5, <4>1, <4>2
      <4>4. ASSUME NEW k \in 1 .. m + 1, t[k] \in vga PROVE i <= k /\ k <= m + 1
        <5>1. CASE k = m + 1 BY <4>1, <5>1
        <5>2. CASE k \in 1 .. m BY <2>1, <2>2, <2>4, <3>5, <4>4, <5>2
        <5> QED BY <2>3, <5>1, <5>2
      <4> QED BY <1>4, <2>2, <2>4, <3>3, <4>1, <4>3, <4>4 DEF ScreenInv
    <3> QED BY <3>4, <3>5 DEF ScreenInv
  <2> QED BY <2>5, <2>6
<1> QED BY <1>7, <1>8

\* When the search has ended, every device of a machine as it should be was found.
LEMMA EveryDeviceSeen ==
  ASSUME WellBuilt(machine), ScanInv, Scanned
  PROVE  Seen = Devices
<1>1. /\ scan = <<>> /\ found \in Seq(Devices)
      /\ \A e \in Devices :
           /\ e \in Seen => e[1] \in Begun
           /\ e[1] \in Begun /\ (\A i \in 1 .. Len(scan) : scan[i].bus # e[1]) => e \in Seen
  BY DEF ScanInv
<1>2. \A i \in 1 .. Len(scan) : FALSE BY <1>1
<1>3. \A e \in Devices : e[1] \in Begun => e \in Seen BY <1>1, <1>2
<1>4. Begun \in SUBSET Buses(machine) BY DEF Begun, Buses, Bridges
<1>5. 0 \in Begun BY DEF Begun
<1>6. ASSUME NEW d \in Bridges(machine), d[1] \in Begun PROVE machine.devices[d].bus \in Begun
  <2>1. d \in Devices BY DEF Bridges, Devices
  <2>2. d \in Seen BY <1>3, <1>6, <2>1
  <2> QED BY <2>2 DEF Begun
<1>7. \A d \in Devices : d[1] \in Begun BY <1>4, <1>5, <1>6 DEF WellBuilt, Devices
<1>8. Seen \subseteq Devices
  <2>1. \A i \in DOMAIN found : found[i] \in Devices BY <1>1
  <2> QED BY <2>1 DEF Seen, ToSet
<1> QED BY <1>3, <1>7, <1>8

\* ScanRight.
LEMMA ScanEndsRight ==
  ASSUME WellBuilt(machine), ScanInv, ScreenInv
  PROVE  ScanRight
<1> SUFFICES ASSUME Scanned
             PROVE  /\ IsInjective(found) /\ ToSet(found) = Devices
                    /\ \A d \in OfKind("vga") :
                         /\ screen.root = d <=> \A e \in OfKind("vga") : Rank(d) <= Rank(e)
                         /\ screen.mapped = d <=> \A e \in OfKind("vga") : Rank(e) <= Rank(d)
  BY DEF ScanRight
<1> DEFINE vga == OfKind("vga")
<1>1. Seen = Devices BY EveryDeviceSeen
<1>2. found \in Seq(Devices) /\ \A i, j \in 1 .. Len(found) : found[i] = found[j] => i = j BY DEF ScanInv
<1>3. DOMAIN found = 1 .. Len(found) BY <1>2
<1>4. IsInjective(found) BY <1>2, <1>3 DEF IsInjective
<1>5. ToSet(found) = Devices BY <1>1 DEF Seen
<1>6. ASSUME NEW d \in Devices PROVE Rank(d) \in 1 .. Len(found) /\ found[Rank(d)] = d
  <2>1. \E i \in DOMAIN found : found[i] = d BY <1>5 DEF ToSet
  <2> QED BY <1>3, <2>1 DEF Rank
<1>7. \A i \in 1 .. Len(found) : found[i] \in Devices /\ Rank(found[i]) = i
  <2> TAKE i \in 1 .. Len(found)
  <2>1. found[i] \in Devices BY <1>2
  <2> QED BY <1>2, <1>6, <2>1
<1>8. vga \subseteq Devices BY DEF OfKind
<1>9. ASSUME NEW d \in vga
      PROVE  /\ screen.root = d <=> \A e \in vga : Rank(d) <= Rank(e)
             /\ screen.mapped = d <=> \A e \in vga : Rank(e) <= Rank(d)
  <2>1. Rank(d) \in 1 .. Len(found) /\ found[Rank(d)] = d BY <1>6, <1>8
  <2>2. PICK i \in 1 .. Len(found), j \in 1 .. Len(found) :
          /\ screen.root = found[i] /\ screen.mapped = found[j] /\ {found[i], found[j]} \subseteq vga
          /\ \A k \in 1 .. Len(found) : found[k] \in vga => i <= k /\ k <= j
    BY <2>1 DEF ScreenInv
  <2>3. Rank(found[i]) = i /\ Rank(found[j]) = j /\ found[i] \in vga /\ found[j] \in vga BY <1>7, <2>2
  <2>4. \A e \in vga : Rank(e) \in 1 .. Len(found) /\ found[Rank(e)] = e BY <1>6, <1>8
  <2>5. \A e \in vga : i <= Rank(e) /\ Rank(e) <= j BY <2>2, <2>4
  <2>6. screen.root = d => \A e \in vga : Rank(d) <= Rank(e) BY <2>2, <2>3, <2>5
  <2>7. screen.mapped = d => \A e \in vga : Rank(e) <= Rank(d) BY <2>2, <2>3, <2>5
  <2>8. ASSUME \A e \in vga : Rank(d) <= Rank(e) PROVE screen.root = d
    <3>1. Rank(d) <= i /\ i <= Rank(d) BY <2>3, <2>5, <2>8
    <3>2. Rank(d) = i BY <2>1, <3>1
    <3> QED BY <2>1, <2>2, <3>2
  <2>9. ASSUME \A e \in vga : Rank(e) <= Rank(d) PROVE screen.mapped = d
    <3>1. Rank(d) <= j /\ j <= Rank(d) BY <2>3, <2>5, <2>9
    <3>2. Rank(d) = j BY <2>1, <3>1
    <3> QED BY <2>1, <2>2, <3>2
  <2> QED BY <2>6, <2>7, <2>8, <2>9
<1> QED BY <1>4, <1>5, <1>9

-----------------------------------------------------------------------------
(***************************************************************************)
(* The disks are registered once for every controller.                     *)
(***************************************************************************)

LEMMA DisksStart ==
  ASSUME PcInit
  PROVE  DisksInv
<1>1. stage = "scan" /\ disks = <<>> /\ found = <<>> /\ drive = NoDrive BY DEF PcInit
<1>2. Seen = {}
  <2>1. DOMAIN found = {} BY <1>1
  <2> QED BY <2>1 DEF Seen, ToSet
<1>3. Ides = {} BY <1>2 DEF Ides
<1>4. Pending = {} BY <1>1 DEF Pending
<1>5. \A unit : Copies(disks, unit) = {} BY <1>1 DEF Copies
<1>6. IsFiniteSet({}) /\ Cardinality({}) = 0 BY FS_EmptySet
<1>7. DisksCounted BY <1>3, <1>4, <1>5, <1>6 DEF DisksCounted
<1>8. drive.status = "idle" BY <1>1 DEF NoDrive
<1> QED BY <1>1, <1>7, <1>8 DEF DisksInv

LEMMA DisksCountedLeft ==
  ASSUME DisksCounted, machine' = machine, disks' = disks, Ides' = Ides,
         \A unit \in ToSet(Units) : Kind(unit) = "ata" => (unit \in Pending' <=> unit \in Pending)
  PROVE  DisksCounted'
<1>1. ASSUME NEW unit \in ToSet(Units)
      PROVE  /\ IsFiniteSet(Copies(disks', unit))
             /\ Cardinality(Copies(disks', unit)) + (IF Kind(unit)' = "ata" /\ unit \in Pending' THEN 1 ELSE 0) =
                  IF Kind(unit)' = "ata" THEN Cardinality(Ides') ELSE 0
  <2>1. Kind(unit)' = Kind(unit) BY DEF Kind
  <2>2. PICK c : c = Cardinality(Copies(disks, unit)) OBVIOUS
  <2>3. IsFiniteSet(Copies(disks, unit))
        /\ c + (IF Kind(unit) = "ata" /\ unit \in Pending THEN 1 ELSE 0) =
             IF Kind(unit) = "ata" THEN Cardinality(Ides) ELSE 0
    BY <2>2 DEF DisksCounted
  <2>4. Copies(disks', unit) = Copies(disks, unit) /\ Cardinality(Copies(disks', unit)) = c BY <2>2
  <2>5. Kind(unit) = "ata" => (unit \in Pending' <=> unit \in Pending) OBVIOUS
  <2> QED BY <2>1, <2>3, <2>4, <2>5
<1> QED BY <1>1 DEF DisksCounted

LEMMA DisksLeft ==
  ASSUME DisksInv, UNCHANGED <<machine, found, probe, disks, drive>>,
         stage' = stage \/ (stage \notin {"probe", "read"} /\ stage' \notin {"probe", "read"})
  PROVE  DisksInv'
<1>1. Ides' = Ides BY DEF Ides, Seen
<1>2. Pending' = Pending BY DEF Pending
<1>3. DisksCounted' BY <1>1, <1>2, DisksCountedLeft DEF DisksInv
<1>4. stage' = "probe" => stage = "probe" OBVIOUS
<1>5. Kind(drive.unit)' = Kind(drive.unit) BY DEF Kind
<1> QED BY <1>3, <1>4, <1>5 DEF DisksInv

\* The places where an appended element is found.
LEMMA CopiesAppended ==
  ASSUME NEW Items, NEW s \in Seq(Items), NEW x \in Items, NEW unit
  PROVE  /\ Copies(Append(s, x), unit) = Copies(s, unit) \cup (IF x = unit THEN {Len(s) + 1} ELSE {})
         /\ Len(s) + 1 \notin Copies(s, unit)
<1>1. PICK n \in Nat : n = Len(s) OBVIOUS
<1>2. PICK t \in Seq(Items) : t = Append(s, x) /\ Len(t) = n + 1 /\ t[n + 1] = x /\ \A i \in 1 .. n : t[i] = s[i]
  <2>1. /\ Append(s, x) \in Seq(Items) /\ Len(Append(s, x)) = Len(s) + 1 /\ Append(s, x)[Len(s) + 1] = x
        /\ \A i \in 1 .. Len(s) : Append(s, x)[i] = s[i]
    BY AppendProperties
  <2> QED BY <1>1, <2>1
<1>3. \A i \in 1 .. n + 1 : i \in 1 .. n \/ i = n + 1 OBVIOUS
<1>4. n + 1 \in 1 .. n + 1 /\ n + 1 \notin 1 .. n /\ \A i \in 1 .. n : i \in 1 .. n + 1 OBVIOUS
<1>5. Copies(t, unit) = {i \in 1 .. n + 1 : t[i] = unit} /\ Copies(s, unit) = {i \in 1 .. n : s[i] = unit}
  BY <1>1, <1>2 DEF Copies
<1>6. Copies(t, unit) = Copies(s, unit) \cup (IF x = unit THEN {n + 1} ELSE {}) BY <1>2, <1>3, <1>4, <1>5
<1>7. n + 1 \notin Copies(s, unit) BY <1>4, <1>5
<1> QED BY <1>1, <1>2, <1>6, <1>7

\* A controller is found, and its disks are still to be asked for.
LEMMA DetectKeepsDisks ==
  ASSUME WellBuilt(machine), ScanInv, SectorsInv, DisksInv, PciDetect
  PROVE  DisksInv'
<1> Formed(machine) /\ StackInv BY DEF WellBuilt, ScanInv
<1>1. PICK n \in Nat \ {0}, f \in Frames, next \in Frames : \E here, d : Turn(n, f, next, here, d) BY Detected
<1>2. PICK here, d : Turn(n, f, next, here, d) BY <1>1
<1>3. /\ d = IF here \in Devices THEN machine.devices[here] ELSE Absent
      /\ found' = IF here \in Devices THEN Append(found, here) ELSE found
      /\ machine' = machine /\ disks' = disks /\ drive' = drive
      /\ stage = "scan" /\ stage' = (IF d.kind = "ide" THEN "probe" ELSE "scan")
      /\ probe' = IF d.kind = "ide" THEN Units ELSE probe
  BY <1>2 DEF Turn
<1>4. here \notin Seen BY <1>2, NotSeenYet
<1>5. drive = NoDrive BY <1>3 DEF SectorsInv
<1>6. drive'.unit = "none" /\ drive'.status = "idle" BY <1>3, <1>5 DEF NoDrive
<1>7. Seen' = Seen \cup (IF here \in Devices THEN {here} ELSE {})
  <2>1. CASE here \in Devices
    <3>1. found \in Seq(Devices) BY DEF ScanInv
    <3>2. ToSet(Append(found, here)) = ToSet(found) \cup {here} BY <2>1, <3>1, InAppended
    <3> QED BY <1>3, <2>1, <3>2 DEF Seen
  <2>2. CASE here \notin Devices BY <1>3, <2>2 DEF Seen
  <2> QED BY <2>1, <2>2
<1>8. Pending = {} BY <1>3 DEF Pending
<1>9. CASE d.kind # "ide"
  <2>1. Ides' = {x \in Seen' : machine.devices[x].kind = "ide"} BY <1>3 DEF Ides
  <2>2. here \in Devices => machine.devices[here].kind # "ide" BY <1>3, <1>9
  <2>3. Ides' = Ides BY <1>7, <2>1, <2>2 DEF Ides
  <2>4. Pending' = {} BY <1>3, <1>9 DEF Pending
  <2>5. DisksCounted' BY <1>3, <1>8, <2>3, <2>4, DisksCountedLeft DEF DisksInv
  <2> QED BY <1>6, <2>5 DEF DisksInv
<1>10. CASE d.kind = "ide"
  <2>1. here \in Devices /\ machine.devices[here].kind = "ide" BY <1>3, <1>10 DEF Absent
  <2>2. Ides' = {x \in Seen' : machine.devices[x].kind = "ide"} BY <1>3 DEF Ides
  <2>3. Ides' = Ides \cup {here} /\ here \notin Ides BY <1>3, <1>4, <1>7, <2>1, <2>2 DEF Ides
  <2>4. IsFiniteSet(Ides) BY DEF DisksInv, DisksCounted
  <2>5. PICK I \in Nat : I = Cardinality(Ides) BY <2>4, FS_CardinalityType
  <2>6. IsFiniteSet(Ides') /\ Cardinality(Ides') = I + 1 BY <2>3, <2>4, <2>5, FS_AddElement
  <2>7. Pending' = ToSet(Units) BY <1>3, <1>10 DEF Pending
  <2>8. ASSUME NEW unit \in ToSet(Units)
        PROVE  /\ IsFiniteSet(Copies(disks', unit))
               /\ Cardinality(Copies(disks', unit)) + (IF Kind(unit)' = "ata" /\ unit \in Pending' THEN 1 ELSE 0) =
                    IF Kind(unit)' = "ata" THEN Cardinality(Ides') ELSE 0
    <3>1. Kind(unit)' = Kind(unit) BY <1>3 DEF Kind
    <3>2. IsFiniteSet(Copies(disks, unit)) BY DEF DisksInv, DisksCounted
    <3>3. PICK c \in Nat : c = Cardinality(Copies(disks, unit)) BY <3>2, FS_CardinalityType
    <3>4. c = IF Kind(unit) = "ata" THEN I ELSE 0
      <4>1. c + (IF Kind(unit) = "ata" /\ unit \in Pending THEN 1 ELSE 0) = IF Kind(unit) = "ata" THEN I ELSE 0
        BY <2>5, <3>3 DEF DisksInv, DisksCounted
      <4> QED BY <1>8, <4>1
    <3>5. Copies(disks', unit) = Copies(disks, unit) /\ Cardinality(Copies(disks', unit)) = c BY <1>3, <3>3
    <3> QED BY <2>6, <2>7, <3>1, <3>2, <3>4, <3>5
  <2>9. DisksCounted' BY <2>6, <2>8 DEF DisksCounted
  <2>10. "none" \in {"none", probe'[1]} OBVIOUS
  <2> QED BY <1>6, <2>9, <2>10 DEF DisksInv
<1> QED BY <1>9, <1>10

LEMMA SlotKeepsDisks ==
  ASSUME SectorsInv, DisksInv, PciNextSlot
  PROVE  DisksInv'
<1>1. UNCHANGED <<machine, found, probe, disks, drive>> /\ stage = "scan" /\ stage' \in {"scan", "ps2"}
  BY DEF PciNextSlot, diskVars
<1> QED BY <1>1, DisksLeft

LEMMA IdentifyKeepsDisks ==
  ASSUME SectorsInv, DisksInv, Identify
  PROVE  DisksInv'
<1>1. /\ stage = "probe" /\ probe # <<>> /\ UNCHANGED <<machine, stage, found, probe, disks>>
      /\ drive' = [unit |-> Head(probe), next |-> 0, left |-> 1,
                   status |-> IF Kind(Head(probe)) = "none" THEN "absent" ELSE "busy"]
  BY DEF Identify, pciVars
<1>2. Ides' = Ides BY <1>1 DEF Ides, Seen
<1>3. Pending' = Pending BY <1>1 DEF Pending
<1>4. DisksCounted' BY <1>1, <1>2, <1>3, DisksCountedLeft DEF DisksInv
<1>5. drive'.unit = Head(probe) /\ (drive'.status = "absent" => Kind(Head(probe)) = "none") BY <1>1
<1>6. Head(probe) = probe'[1]
  <2>1. PICK s \in Seq(ToSet(Units)) : s = probe /\ s # <<>> /\ \A i, j \in 1 .. Len(s) : s[i] = s[j] => i = j
    BY <1>1 DEF SectorsInv
  <2>2. Head(s) = s[1] BY <2>1, HeadTaken
  <2> QED BY <1>1, <2>1, <2>2
<1>7. drive'.status = "absent" => Kind(drive.unit)' = "none" BY <1>1, <1>5 DEF Kind
<1> QED BY <1>4, <1>5, <1>6, <1>7 DEF DisksInv

LEMMA ReadyKeepsDisks ==
  ASSUME SectorsInv, DisksInv, DriveReady
  PROVE  DisksInv'
<1>1. UNCHANGED <<machine, stage, found, probe, disks>> BY DEF DriveReady, pciVars
<1>2. PICK s \in {"idle", "error", "data"} : drive' = [drive EXCEPT !.status = s] BY DEF DriveReady
<1>3. drive = [unit |-> drive.unit, status |-> drive.status, next |-> drive.next, left |-> drive.left] BY DEF SectorsInv
<1>4. drive'.unit = drive.unit /\ drive'.status # "absent" BY <1>2, <1>3
<1>5. Ides' = Ides BY <1>1 DEF Ides, Seen
<1>6. Pending' = Pending BY <1>1 DEF Pending
<1>7. DisksCounted' BY <1>1, <1>5, <1>6, DisksCountedLeft DEF DisksInv
<1> QED BY <1>1, <1>4, <1>7 DEF DisksInv

\* What is asked for, once its head was asked.
LEMMA PendingHead ==
  ASSUME SectorsInv, probe # <<>>
  PROVE  /\ ToSet(probe) = {Head(probe)} \cup ToSet(Tail(probe)) /\ Head(probe) \notin ToSet(Tail(probe))
         /\ Head(probe) = probe[1]
<1>1. PICK s \in Seq(ToSet(Units)) : s = probe /\ s # <<>> /\ \A i, j \in 1 .. Len(s) : s[i] = s[j] => i = j
  BY DEF SectorsInv
<1>2. /\ ToSet(s) = {Head(s)} \cup ToSet(Tail(s)) /\ Head(s) \notin ToSet(Tail(s)) /\ Head(s) = s[1]
  BY <1>1, HeadTaken
<1> QED BY <1>1, <1>2

\* A disk is registered; another drive is not.
LEMMA PollKeepsDisks ==
  ASSUME SectorsInv, DisksInv, IdentifyPoll
  PROVE  DisksInv'
<1>1. stage = "probe" /\ drive.status \in {"absent", "data"} /\ UNCHANGED <<machine, found>> BY DEF IdentifyPoll, pciVars
<1>2. drive # NoDrive BY <1>1 DEF NoDrive
<1>3. drive.unit \in ToSet(Units) /\ probe # <<>> BY <1>1, <1>2 DEF SectorsInv
<1>4. drive.unit = probe[1] BY <1>1, <1>3, UnitIsOne DEF DisksInv
<1>5. PICK one \in ToSet(Units) : one = drive.unit BY <1>3
<1>6. ToSet(probe) = {one} \cup ToSet(Tail(probe)) /\ one \notin ToSet(Tail(probe)) BY <1>3, <1>4, <1>5, PendingHead
<1>7. Pending = ToSet(probe) BY <1>1 DEF Pending
<1>8. Ides' = Ides BY <1>1 DEF Ides, Seen
<1>9. CASE drive.status = "data" /\ Registers(drive.unit)
  <2>1. disks' = Append(disks, one) /\ stage' = "read" /\ SendRead(one, 0, 1) /\ probe' = probe
    BY <1>5, <1>9 DEF IdentifyPoll
  <2>2. Pending' = ToSet(Tail(probe)) BY <2>1 DEF Pending
  <2>3. Kind(one) = "ata" BY <1>5, <1>9 DEF Registers
  <2>4. disks \in Seq(ToSet(Units)) BY DEF SectorsInv
  <2>5. ASSUME NEW unit \in ToSet(Units)
        PROVE  /\ IsFiniteSet(Copies(disks', unit))
               /\ Cardinality(Copies(disks', unit)) + (IF Kind(unit)' = "ata" /\ unit \in Pending' THEN 1 ELSE 0) =
                    IF Kind(unit)' = "ata" THEN Cardinality(Ides') ELSE 0
    <3>1. Kind(unit)' = Kind(unit) BY <1>1 DEF Kind
    <3>2. PICK same : same = Copies(disks, unit) OBVIOUS
    <3>3. PICK x : x = Len(disks) + 1 OBVIOUS
    <3>4. Copies(disks', unit) = same \cup (IF one = unit THEN {x} ELSE {}) /\ x \notin same
      BY <2>1, <2>4, <3>2, <3>3, CopiesAppended
    <3>5. IsFiniteSet(same) BY <3>2 DEF DisksInv, DisksCounted
    <3>6. PICK c \in Nat : c = Cardinality(same) BY <3>5, FS_CardinalityType
    <3>7. c + (IF Kind(unit) = "ata" /\ unit \in Pending THEN 1 ELSE 0) = IF Kind(unit) = "ata" THEN Cardinality(Ides) ELSE 0
      BY <3>2, <3>6 DEF DisksInv, DisksCounted
    <3>8. CASE unit = one
      <4>1. Copies(disks', unit) = same \cup {x} BY <3>4, <3>8
      <4>2. IsFiniteSet(same \cup {x}) /\ Cardinality(same \cup {x}) = c + 1 BY <3>4, <3>5, <3>6, FS_AddElement
      <4>3. unit \in Pending /\ unit \notin Pending' BY <1>6, <1>7, <2>2, <3>8
      <4> QED BY <1>8, <2>3, <3>1, <3>7, <3>8, <4>1, <4>2, <4>3
    <3>9. CASE unit # one
      <4>1. Copies(disks', unit) = same BY <3>4, <3>9
      <4>2. unit \in Pending <=> unit \in Pending' BY <1>6, <1>7, <2>2, <3>9
      <4>3. Cardinality(Copies(disks', unit)) = c /\ IsFiniteSet(Copies(disks', unit)) BY <3>5, <3>6, <4>1
      <4> QED BY <1>8, <3>1, <3>7, <4>2, <4>3
    <3> QED BY <3>8, <3>9
  <2>6. IsFiniteSet(Ides') BY <1>8 DEF DisksInv, DisksCounted
  <2>7. DisksCounted' BY <2>5, <2>6 DEF DisksCounted
  <2>8. drive'.status = "busy" BY <2>1 DEF SendRead
  <2> QED BY <2>1, <2>7, <2>8 DEF DisksInv
<1>10. CASE ~(drive.status = "data" /\ Registers(drive.unit))
  <2>1. probe' = Tail(probe) /\ drive' = NoDrive /\ disks' = disks /\ stage' = IF probe' = <<>> THEN "scan" ELSE "probe"
    BY <1>1, <1>10 DEF IdentifyPoll
  <2>2. Kind(one) # "ata"
    <3>1. CASE drive.status = "data" BY <1>5, <1>10, <3>1 DEF Registers
    <3>2. CASE drive.status = "absent" BY <1>5, <3>2 DEF DisksInv
    <3> QED BY <1>1, <3>1, <3>2
  <2>3. Pending' = ToSet(Tail(probe))
    <3>1. CASE probe' = <<>>
      <4>1. DOMAIN Tail(probe) = {} BY <2>1, <3>1
      <4>2. ToSet(Tail(probe)) = {} BY <4>1 DEF ToSet
      <4> QED BY <2>1, <3>1, <4>2 DEF Pending
    <3>2. CASE probe' # <<>> BY <2>1, <3>2 DEF Pending
    <3> QED BY <3>1, <3>2
  <2>4. \A unit \in ToSet(Units) : Kind(unit) = "ata" => (unit \in Pending' <=> unit \in Pending) BY <1>6, <1>7, <2>2, <2>3
  <2>5. DisksCounted' BY <1>1, <1>8, <2>1, <2>4, DisksCountedLeft DEF DisksInv
  <2>6. drive'.unit = "none" /\ drive'.status = "idle" BY <2>1 DEF NoDrive
  <2> QED BY <2>5, <2>6 DEF DisksInv
<1> QED BY <1>9, <1>10

LEMMA BlockKeepsDisks ==
  ASSUME SectorsInv, DisksInv, ReadBlock
  PROVE  DisksInv'
<1>1. stage = "running" /\ UNCHANGED <<machine, stage, found, probe, disks>> BY DEF ReadBlock, pciVars
<1>2. drive'.status = "busy" BY DEF ReadBlock, SendRead
<1>3. Ides' = Ides BY <1>1 DEF Ides, Seen
<1>4. Pending' = Pending BY <1>1 DEF Pending
<1>5. DisksCounted' BY <1>1, <1>3, <1>4, DisksCountedLeft DEF DisksInv
<1> QED BY <1>1, <1>2, <1>5 DEF DisksInv

\* The first block of a disk was read: the next drive is asked.
LEMMA ReadKeepsDisks ==
  ASSUME SectorsInv, DisksInv, ReadSector
  PROVE  DisksInv'
<1>1. PICK last \in BOOLEAN : last = (Len(buffer.blocks) + 1 = buffer.want) OBVIOUS
<1>2. /\ stage \in {"read", "running"} /\ UNCHANGED <<machine, found, disks>>
      /\ drive' = IF last THEN NoDrive ELSE [drive EXCEPT !.status = "busy", !.next = @ + 1, !.left = @ - 1]
  BY <1>1 DEF ReadSector, pciVars
<1>3. IF last /\ stage = "read" THEN probe' = Tail(probe) /\ stage' = (IF probe' = <<>> THEN "scan" ELSE "probe")
      ELSE probe' = probe /\ stage' = stage
  BY <1>1 DEF ReadSector
<1>4. drive'.status # "absent" /\ (last => drive'.unit = "none")
  <2>1. CASE last BY <1>2, <2>1 DEF NoDrive
  <2>2. CASE ~last
    <3>1. drive = [unit |-> drive.unit, status |-> drive.status, next |-> drive.next, left |-> drive.left] BY DEF SectorsInv
    <3>2. PICK a, b : drive' = [drive EXCEPT !.status = "busy", !.next = a, !.left = b] BY <1>2, <2>2
    <3> QED BY <2>2, <3>1, <3>2
  <2> QED BY <2>1, <2>2
<1>5. Ides' = Ides BY <1>2 DEF Ides, Seen
<1>6. Pending' = Pending
  <2>1. CASE last /\ stage = "read"
    <3>1. Pending = ToSet(Tail(probe)) BY <2>1 DEF Pending
    <3>2. CASE probe' = <<>>
      <4>1. DOMAIN Tail(probe) = {} BY <1>3, <2>1, <3>2
      <4>2. ToSet(Tail(probe)) = {} BY <4>1 DEF ToSet
      <4> QED BY <1>3, <2>1, <3>1, <3>2, <4>2 DEF Pending
    <3>3. CASE probe' # <<>> BY <1>3, <2>1, <3>1, <3>3 DEF Pending
    <3> QED BY <3>2, <3>3
  <2>2. CASE ~(last /\ stage = "read") BY <1>3, <2>2 DEF Pending
  <2> QED BY <2>1, <2>2
<1>7. DisksCounted' BY <1>2, <1>5, <1>6, DisksCountedLeft DEF DisksInv
<1>8. stage' = "probe" => drive'.unit = "none" BY <1>2, <1>3, <1>4
<1> QED BY <1>4, <1>7, <1>8 DEF DisksInv

\* DisksRight.
LEMMA DisksEndRight ==
  ASSUME SectorsInv, WellBuilt(machine) => ScanInv /\ DisksInv
  PROVE  WellBuilt(machine) => DisksRight
<1> SUFFICES ASSUME WellBuilt(machine) PROVE DisksRight OBVIOUS
<1>1. ScanInv /\ DisksInv OBVIOUS
<1>2. /\ \A i \in 1 .. Len(buffer.blocks) : buffer.blocks[i] = buffer.from + i - 1
      /\ Len(buffer.blocks) <= buffer.want /\ DOMAIN buffer.blocks = 1 .. Len(buffer.blocks)
  BY DEF SectorsInv
<1>3. ASSUME Scanned, NEW unit \in ToSet(Units)
      PROVE  Cardinality({i \in DOMAIN disks : disks[i] = unit}) =
               IF Kind(unit) = "ata" THEN Cardinality(OfKind("ide")) ELSE 0
  <2>1. Seen = Devices BY <1>1, <1>3, EveryDeviceSeen
  <2>2. Ides = OfKind("ide") BY <2>1 DEF Ides, OfKind
  <2>3. Pending = {} BY <1>3 DEF Scanned, Pending
  <2>4. disks \in Seq(ToSet(Units)) BY DEF SectorsInv
  <2>5. {i \in DOMAIN disks : disks[i] = unit} = Copies(disks, unit) BY <2>4 DEF Copies
  <2>6. IsFiniteSet(Copies(disks, unit)) BY <1>1 DEF DisksInv, DisksCounted
  <2>7. PICK c \in Nat : c = Cardinality(Copies(disks, unit)) BY <2>6, FS_CardinalityType
  <2>8. c + (IF Kind(unit) = "ata" /\ unit \in Pending THEN 1 ELSE 0) = IF Kind(unit) = "ata" THEN Cardinality(Ides) ELSE 0
    BY <1>1, <2>7 DEF DisksInv, DisksCounted
  <2>9. c = IF Kind(unit) = "ata" THEN Cardinality(Ides) ELSE 0 BY <2>3, <2>7, <2>8
  <2> QED BY <2>2, <2>5, <2>7, <2>9
<1> QED BY <1>2, <1>3 DEF DisksRight

-----------------------------------------------------------------------------
(***************************************************************************)
(* The start of a PC stays right.                                          *)
(***************************************************************************)

LEMMA SearchStarts ==
  ASSUME PcInit, WellBuilt(machine)
  PROVE  ScanInv /\ ScreenInv /\ DisksInv
BY ScanStart, ScreenStart, DisksStart

\* The search, the screen and the disks do not hear of keys and interrupts.
LEMMA SearchLeft ==
  ASSUME ScanInv, ScreenInv, DisksInv, UNCHANGED <<machine, pciVars, probe, disks, drive>>,
         stage' = stage \/ (stage = "ps2" /\ stage' = "running")
  PROVE  ScanInv' /\ ScreenInv' /\ DisksInv'
<1>1. UNCHANGED <<scan, found, screen>> BY DEF pciVars
<1>2. Scanned' => Scanned BY DEF Scanned
<1>3. ScanInv' BY <1>1, <1>2, ScanLeft
<1>4. ScreenInv' BY <1>1, ScreenLeft
<1>5. DisksInv' BY <1>1, DisksLeft
<1> QED BY <1>3, <1>4, <1>5

LEMMA SearchStep ==
  ASSUME WellBuilt(machine), SectorsInv, ScanInv, ScreenInv, DisksInv, PcNext
  PROVE  ScanInv' /\ ScreenInv' /\ DisksInv'
<1>1. CASE PciDetect BY <1>1, DetectKeepsScan, DetectKeepsScreen, DetectKeepsDisks
<1>2. CASE PciNextSlot
  <2>1. UNCHANGED <<machine, found, screen>> BY <1>2 DEF PciNextSlot
  <2> QED BY <1>2, <2>1, SlotKeepsScan, ScreenLeft, SlotKeepsDisks
<1>3. CASE Identify
  <2>1. UNCHANGED <<machine, stage, scan, found, screen>> BY <1>3 DEF Identify, pciVars
  <2>2. Scanned' => Scanned BY <2>1 DEF Scanned
  <2> QED BY <1>3, <2>1, <2>2, ScanLeft, ScreenLeft, IdentifyKeepsDisks
<1>4. CASE IdentifyPoll
  <2>1. UNCHANGED <<machine, scan, found, screen>> /\ stage = "probe" BY <1>4 DEF IdentifyPoll, pciVars
  <2>2. stage' \in {"read", "scan", "probe"} BY <1>4, <2>1 DEF IdentifyPoll
  <2>3. Scanned' => Scanned BY <2>2 DEF Scanned
  <2> QED BY <1>4, <2>1, <2>3, ScanLeft, ScreenLeft, PollKeepsDisks
<1>5. CASE ReadSector
  <2>1. UNCHANGED <<machine, scan, found, screen>> BY <1>5 DEF ReadSector, pciVars
  <2>2. stage' \in {stage, "scan", "probe"} BY <1>5 DEF ReadSector
  <2>3. Scanned' => Scanned BY <2>2 DEF Scanned
  <2> QED BY <1>5, <2>1, <2>3, ScanLeft, ScreenLeft, ReadKeepsDisks
<1>6. CASE Ps2Step BY <1>6, SearchLeft DEF Ps2Step, diskVars
<1>7. CASE EnableInterrupts BY <1>7, SearchLeft DEF EnableInterrupts, diskVars
<1>8. CASE OnInterrupt BY <1>8, SearchLeft DEF OnInterrupt, diskVars
<1>9. CASE EndOfInterrupt BY <1>9, SearchLeft DEF EndOfInterrupt, diskVars
<1>10. CASE ReadBlock
  <2>1. UNCHANGED <<machine, stage, scan, found, screen>> BY <1>10 DEF ReadBlock, pciVars
  <2>2. Scanned' => Scanned BY <2>1 DEF Scanned
  <2> QED BY <1>10, <2>1, <2>2, ScanLeft, ScreenLeft, BlockKeepsDisks
<1>11. CASE DriveReady
  <2>1. UNCHANGED <<machine, stage, scan, found, screen>> BY <1>11 DEF DriveReady, pciVars
  <2>2. Scanned' => Scanned BY <2>1 DEF Scanned
  <2> QED BY <1>11, <2>1, <2>2, ScanLeft, ScreenLeft, ReadyKeepsDisks
<1>12. CASE ControllerTakes BY <1>12, SearchLeft DEF ControllerTakes, diskVars
<1>13. CASE PressKey BY <1>13, SearchLeft DEF PressKey, diskVars
<1>14. CASE KeySent BY <1>14, SearchLeft DEF KeySent, diskVars
<1>15. ASSUME NEW by \in {"apic", "pic", "timer"}, Interrupt(by) PROVE ScanInv' /\ ScreenInv' /\ DisksInv'
  BY <1>15, SearchLeft DEF Interrupt, diskVars
<1> QED BY <1>1, <1>2, <1>3, <1>4, <1>5, <1>6, <1>7, <1>8, <1>9, <1>10, <1>11, <1>12, <1>13, <1>14, <1>15 DEF PcNext, Kernel

LEMMA LoopStep ==
  ASSUME Formed(machine), StackInv, LoopInv, PcNext
  PROVE  StackInv' /\ LoopInv'
<1>1. CASE PciDetect BY <1>1, DetectKeepsLoop
<1>2. CASE PciNextSlot BY <1>2, SlotKeepsLoop
<1>3. CASE Kernel /\ ~PciDetect /\ ~PciNextSlot
  <2>1. UNCHANGED <<machine, scan>>
    BY <1>3 DEF Kernel, Identify, IdentifyPoll, ReadSector, Ps2Step, EnableInterrupts, OnInterrupt, EndOfInterrupt, pciVars
  <2>2. stage' \in {stage, "read", "scan", "probe"} \/ stage = "ps2"
    BY <1>3 DEF Kernel, Identify, IdentifyPoll, ReadSector, Ps2Step, EnableInterrupts, OnInterrupt, EndOfInterrupt
  <2>3. Scanned' => Scanned BY <2>2 DEF Scanned
  <2> QED BY <2>1, <2>3, LoopLeft
<1>4. CASE PcNext /\ ~Kernel
  <2>1. UNCHANGED <<machine, stage, scan>>
    BY <1>4 DEF PcNext, ReadBlock, DriveReady, ControllerTakes, PressKey, KeySent, Interrupt, pciVars
  <2>2. Scanned' => Scanned BY <2>1 DEF Scanned
  <2> QED BY <2>1, <2>2, LoopLeft
<1> QED BY <1>1, <1>2, <1>3, <1>4

LEMMA MachineStays ==
  ASSUME [PcNext]_pcVars
  PROVE  machine' = machine
<1>1. CASE UNCHANGED pcVars BY <1>1 DEF pcVars
<1>2. CASE Kernel
  BY <1>2 DEF Kernel, PciDetect, PciNextSlot, Identify, IdentifyPoll, ReadSector, Ps2Step, EnableInterrupts, OnInterrupt,
              EndOfInterrupt
<1>3. CASE PcNext /\ ~Kernel
  BY <1>3 DEF PcNext, ReadBlock, DriveReady, ControllerTakes, PressKey, KeySent, Interrupt
<1> QED BY <1>1, <1>2, <1>3

LEMMA PcStarts ==
  ASSUME PcInit
  PROVE  PcInv
<1>1. machine \in Machines BY DEF PcInit
<1>2. KeysInv /\ SectorsInv BY KeysStart, SectorsStart
<1> QED BY <1>1, <1>2, LoopStart, SearchStarts DEF PcInv

LEMMA PcStep ==
  ASSUME PcInv, [PcNext]_pcVars
  PROVE  PcInv'
<1>1. machine' = machine /\ machine \in Machines BY MachineStays DEF PcInv
<1>2. (Formed(machine)' <=> Formed(machine)) /\ (WellBuilt(machine)' <=> WellBuilt(machine)) BY <1>1
<1>3. KeysInv /\ SectorsInv BY DEF PcInv
<1>4. CASE PcNext
  <2>1. KeysInv' BY <1>3, <1>4, KeysStep
  <2>2. SectorsInv' BY <1>3, <1>4, SectorsStep
  <2>3. Formed(machine) => StackInv' /\ LoopInv' BY <1>4, LoopStep DEF PcInv
  <2>4. WellBuilt(machine) => ScanInv' /\ ScreenInv' /\ DisksInv' BY <1>3, <1>4, SearchStep DEF PcInv
  <2> QED BY <1>1, <1>2, <2>1, <2>2, <2>3, <2>4 DEF PcInv
<1>5. CASE UNCHANGED pcVars
  <2>1. UNCHANGED <<machine, stage, pciVars, diskVars, keyVars, irqVars>> BY <1>5 DEF pcVars
  <2>2. KeysInv'
    <3>1. UNCHANGED <<ps2, ctl, keys, mixedUp, listening, handled>> BY <2>1 DEF keyVars, irqVars
    <3> QED BY <1>3, <3>1, KeysLeft
  <2>3. SectorsInv' BY <1>3, <2>1, SectorsLeft
  <2>4. UNCHANGED <<scan, probe, disks, drive>> BY <2>1 DEF diskVars, pciVars
  <2>5. Scanned' => Scanned BY <2>1 DEF Scanned
  <2>6. Formed(machine) => StackInv' /\ LoopInv' BY <2>1, <2>4, <2>5, LoopLeft DEF PcInv
  <2>7. WellBuilt(machine) => ScanInv' /\ ScreenInv' /\ DisksInv' BY <2>1, <2>4, SearchLeft DEF PcInv
  <2> QED BY <1>1, <1>2, <2>2, <2>3, <2>6, <2>7 DEF PcInv
<1> QED BY <1>4, <1>5

LEMMA PcIsRight ==
  ASSUME PcInv, WellBuilt(machine) \/ LeadsBack(machine)
  PROVE  ScanRight /\ DisksRight /\ KeysInOrder
<1>1. KeysInOrder BY HandledInOrder DEF PcInv
<1>2. CASE WellBuilt(machine) BY <1>1, <1>2, ScanEndsRight, DisksEndRight DEF PcInv
<1>3. CASE LeadsBack(machine)
  <2>1. ~Scanned BY <1>3 DEF LeadsBack, PcInv, LoopInv
  <2>2. SectorsInv BY DEF PcInv
  <2>3. DOMAIN buffer.blocks = 1 .. Len(buffer.blocks) BY <2>2 DEF SectorsInv
  <2>4. DisksRight BY <2>1, <2>2, <2>3 DEF SectorsInv, DisksRight
  <2> QED BY <1>1, <2>1, <2>4 DEF ScanRight
<1> QED BY <1>2, <1>3

LEMMA PcInvariant == Spec => []PcInv
<1>1. Init => PcInv BY PcStarts DEF Init
<1>2. PcInv /\ [Next]_startUpVars => PcInv'
  <2>1. [Next]_startUpVars => [PcNext]_pcVars BY DEF Next, OnMedium, OnPc, OnTables, OnRpi, startUpVars
  <2> QED BY <2>1, PcStep
<1> QED BY <1>1, <1>2, PTL DEF Spec

\* PcRight, in every order of the search, the drives, the keyboard controller, the user and
\* the interrupts, with buses of any number of slots and functions: on machines whose
\* buses are numbered as the firmware should, and on those where a bridge leads back.
THEOREM PcStaysRight ==
  ASSUME \A m \in Machines : WellBuilt(m) \/ LeadsBack(m)
  PROVE  Spec => []PcRight
<1>1. PcInv => PcRight BY PcIsRight DEF PcInv, PcRight
<1> QED BY <1>1, PcInvariant, PTL

\* A bridge that leads back to the first bus is searched for ever: pci_detect does not look
\* whether it was there before (pci.cpp:47-66), and the keyboard is never set up.
THEOREM LoopIsEndless == Spec => [](LeadsBack(machine) => ~Scanned)
<1>1. PcInv => (LeadsBack(machine) => ~Scanned) BY DEF PcInv, LeadsBack, LoopInv
<1> QED BY <1>1, PcInvariant, PTL

-----------------------------------------------------------------------------
(***************************************************************************)
(* The bytes of the descriptor tables.                                     *)
(***************************************************************************)

\* j is s, of n bytes, and behind it t, of m bytes.
Joined(j, s, n, t, m) ==
  /\ j \in Seq(Nat) /\ Len(j) = n + m
  /\ \A i \in 1 .. n : j[i] = s[i]
  /\ \A i \in 1 .. m : j[n + i] = t[i]

\* The operator \o joins two tables of bytes.
LEMMA JoinedIs ==
  ASSUME NEW s \in Seq(Nat), NEW t \in Seq(Nat)
  PROVE  Joined(s \o t, s, Len(s), t, Len(t))
<1>1. /\ s \o t \in Seq(Nat) /\ Len(s \o t) = Len(s) + Len(t)
      /\ \A i \in 1 .. Len(s) + Len(t) : (s \o t)[i] = IF i <= Len(s) THEN s[i] ELSE t[i - Len(s)]
  BY ConcatProperties
<1>2. PICK j : j = s \o t OBVIOUS
<1>3. PICK n \in Nat, m \in Nat : n = Len(s) /\ m = Len(t) OBVIOUS
<1>4. j \in Seq(Nat) /\ Len(j) = n + m /\ \A i \in 1 .. n + m : j[i] = IF i <= n THEN s[i] ELSE t[i - n]
  BY <1>1, <1>2, <1>3
<1>5. ASSUME NEW i \in 1 .. n PROVE j[i] = s[i]
  <2>1. i \in 1 .. n + m /\ i <= n OBVIOUS
  <2> QED BY <1>4, <2>1
<1>6. ASSUME NEW i \in 1 .. m PROVE j[n + i] = t[i]
  <2>1. n + i \in 1 .. n + m /\ ~(n + i <= n) /\ n + i - n = i OBVIOUS
  <2> QED BY <1>4, <2>1
<1>7. Joined(j, s, n, t, m) BY <1>4, <1>5, <1>6 DEF Joined
<1> QED BY <1>2, <1>3, <1>7

\* A part of a table.
LEMMA PartIs ==
  ASSUME NEW bytes, NEW a \in Nat, NEW b \in Nat, NEW n \in Nat, b = a + n - 1, \A i \in a .. b : bytes[i] \in Nat
  PROVE  /\ SubSeq(bytes, a, b) \in Seq(Nat) /\ Len(SubSeq(bytes, a, b)) = n
         /\ \A i \in 1 .. n : SubSeq(bytes, a, b)[i] = bytes[a + i - 1]
<1>1. /\ SubSeq(bytes, a, b) \in Seq(Nat) /\ Len(SubSeq(bytes, a, b)) = (IF a <= b THEN b - a + 1 ELSE 0)
      /\ \A i \in 1 .. b - a + 1 : SubSeq(bytes, a, b)[i] = bytes[a + i - 1]
  BY SubSeqProperties
<1>2. n = b - a + 1 OBVIOUS
<1>3. PICK part : part = SubSeq(bytes, a, b) OBVIOUS
<1>4. part \in Seq(Nat) /\ Len(part) = n /\ \A i \in 1 .. n : part[i] = bytes[a + i - 1] BY <1>1, <1>2, <1>3
<1> QED BY <1>3, <1>4

\* An address as a sequence of bytes.
LEMMA AddressBytes ==
  ASSUME NEW p \in Addresses
  PROVE  p \in Seq(Nat) /\ Len(p) = 8 /\ \A i \in 1 .. 8 : p[i] \in Nat
<1>1. DOMAIN p = 1 .. 8 /\ \A i \in 1 .. 8 : p[i] \in Nat BY DEF Addresses
<1>2. p = [i \in 1 .. 8 |-> p[i]] BY DEF Addresses
<1>3. PICK f : f = [i \in 1 .. 8 |-> p[i]] OBVIOUS
<1>4. f \in Seq(Nat) /\ Len(f) = 8
  <2>1. [i \in 1 .. 8 |-> p[i]] \in Seq(Nat) BY <1>1, IsASeq
  <2>2. DOMAIN f = 1 .. 8 BY <1>3
  <2> QED BY <1>3, <2>1, <2>2, LenProperties
<1> QED BY <1>1, <1>2, <1>3, <1>4

\* An address is put together again.
LEMMA AddressIs ==
  ASSUME NEW p \in Addresses, NEW q \in Seq(Nat), Len(q) = 8, \A i \in 1 .. 8 : q[i] = p[i]
  PROVE  q = p
<1>1. DOMAIN q = 1 .. 8 /\ q = [i \in 1 .. 8 |-> q[i]] BY LenProperties
<1>2. p = [i \in 1 .. 8 |-> p[i]] BY DEF Addresses
<1> QED BY <1>1, <1>2

\* The numbers that the tables are filled with.
LEMMA LittleIs ==
  /\ Little(2, 8) = <<8, 0>> /\ Little(2, 103) = <<103, 0>> /\ Little(2, 65535) = <<255, 255>>
  /\ Zeros(2) = <<0, 0>> /\ Zeros(4) = <<0, 0, 0, 0>>
<1>1. Little(2, 8) = <<8, 0>> BY DEF Little
<1>2. Little(2, 103) = <<103, 0>> BY DEF Little
<1>3. Little(2, 65535) = <<255, 255>> BY DEF Little
<1>4. Zeros(2) = <<0, 0>> BY DEF Zeros
<1>5. Zeros(4) = <<0, 0, 0, 0>> BY DEF Zeros
<1> QED BY <1>1, <1>2, <1>3, <1>4, <1>5

\* What the processor reads in a gate.
LEMMA GateIs ==
  ASSUME NEW p \in Addresses, NEW g, g = Gate(p)
  PROVE  g[3] = 8 /\ g[4] = 0 /\ g[5] = 1 /\ g[6] = 142 /\ Target(g) = p
<1>1. \A i \in 1 .. 8 : p[i] \in Nat BY AddressBytes
<1>2. PICK a : a = SubSeq(p, 1, 2) OBVIOUS
<1>3. a \in Seq(Nat) /\ Len(a) = 2 /\ \A i \in 1 .. 2 : a[i] = p[i]
  <2>1. \A i \in 1 .. 2 : p[i] \in Nat BY <1>1
  <2>2. a \in Seq(Nat) /\ Len(a) = 2 /\ \A i \in 1 .. 2 : a[i] = p[1 + i - 1] BY <1>2, <2>1, PartIs
  <2> QED BY <2>2
<1>4. PICK e : e = SubSeq(p, 3, 8) OBVIOUS
<1>5. e \in Seq(Nat) /\ Len(e) = 6 /\ \A i \in 1 .. 6 : e[i] = p[2 + i]
  <2>1. \A i \in 3 .. 8 : p[i] \in Nat BY <1>1
  <2>2. e \in Seq(Nat) /\ Len(e) = 6 /\ \A i \in 1 .. 6 : e[i] = p[3 + i - 1] BY <1>4, <2>1, PartIs
  <2> QED BY <2>2
<1>6. PICK b : b = Little(2, 8) OBVIOUS
<1>7. b \in Seq(Nat) /\ Len(b) = 2 /\ b[1] = 8 /\ b[2] = 0
  <2>1. b = <<8, 0>> BY <1>6, LittleIs
  <2> QED BY <2>1
<1>8. PICK c : c = <<1, 142>> OBVIOUS
<1>9. c \in Seq(Nat) /\ Len(c) = 2 /\ c[1] = 1 /\ c[2] = 142 BY <1>8
<1>10. PICK z : z = Zeros(4) OBVIOUS
<1>11. z \in Seq(Nat) /\ Len(z) = 4
  <2>1. z = <<0, 0, 0, 0>> BY <1>10, LittleIs
  <2> QED BY <2>1
<1>12. PICK ab : ab = a \o b OBVIOUS
<1>13. ab \in Seq(Nat) /\ Len(ab) = 4 /\ ab[1] = p[1] /\ ab[2] = p[2] /\ ab[3] = 8 /\ ab[4] = 0
  <2>1. Joined(ab, a, 2, b, 2) BY <1>3, <1>7, <1>12, JoinedIs
  <2> QED BY <1>3, <1>7, <2>1 DEF Joined
<1>14. PICK abc : abc = ab \o c OBVIOUS
<1>15. /\ abc \in Seq(Nat) /\ Len(abc) = 6 /\ abc[1] = p[1] /\ abc[2] = p[2] /\ abc[3] = 8 /\ abc[4] = 0
       /\ abc[5] = 1 /\ abc[6] = 142
  <2>1. Joined(abc, ab, 4, c, 2) BY <1>9, <1>13, <1>14, JoinedIs
  <2> QED BY <1>9, <1>13, <2>1 DEF Joined
<1>16. PICK h : h = abc \o e OBVIOUS
<1>17. /\ h \in Seq(Nat) /\ Len(h) = 12
       /\ \A i \in 1 .. 6 : h[i] = abc[i]
       /\ \A i \in 1 .. 6 : h[6 + i] = p[2 + i]
  <2>1. Joined(h, abc, 6, e, 6) BY <1>5, <1>15, <1>16, JoinedIs
  <2> QED BY <1>5, <2>1 DEF Joined
<1>18. g = h \o z BY <1>2, <1>4, <1>6, <1>8, <1>10, <1>12, <1>14, <1>16 DEF Gate
<1>19. \A i \in 1 .. 12 : g[i] = h[i]
  <2>1. Joined(g, h, 12, z, 4) BY <1>11, <1>17, <1>18, JoinedIs
  <2> QED BY <2>1 DEF Joined
<1>20. g[1] = p[1] /\ g[2] = p[2] /\ g[3] = 8 /\ g[4] = 0 /\ g[5] = 1 /\ g[6] = 142 BY <1>15, <1>17, <1>19
<1>21. \A i \in 1 .. 6 : g[6 + i] = p[2 + i]
  <2> TAKE i \in 1 .. 6
  <2>1. 6 + i \in 1 .. 12 OBVIOUS
  <2> QED BY <1>17, <1>19, <2>1
<1>22. Target(g) = p
  <2>1. PICK x : x = SubSeq(g, 1, 2) OBVIOUS
  <2>2. x \in Seq(Nat) /\ Len(x) = 2 /\ x[1] = p[1] /\ x[2] = p[2]
    <3>1. \A i \in 1 .. 2 : g[i] \in Nat BY <1>1, <1>20
    <3>2. x \in Seq(Nat) /\ Len(x) = 2 /\ \A i \in 1 .. 2 : x[i] = g[1 + i - 1] BY <2>1, <3>1, PartIs
    <3> QED BY <1>20, <3>2
  <2>3. PICK y : y = SubSeq(g, 7, 12) OBVIOUS
  <2>4. y \in Seq(Nat) /\ Len(y) = 6 /\ \A i \in 1 .. 6 : y[i] = p[2 + i]
    <3>1. \A i \in 7 .. 12 : g[i] \in Nat
      <4> TAKE i \in 7 .. 12
      <4>1. i - 6 \in 1 .. 6 /\ 6 + (i - 6) = i /\ 2 + (i - 6) \in 1 .. 8 OBVIOUS
      <4> QED BY <1>1, <1>21, <4>1
    <3>2. y \in Seq(Nat) /\ Len(y) = 6 /\ \A i \in 1 .. 6 : y[i] = g[7 + i - 1] BY <2>3, <3>1, PartIs
    <3> QED BY <1>21, <3>2
  <2>5. PICK q : q = x \o y OBVIOUS
  <2>6. Joined(q, x, 2, y, 6) BY <2>2, <2>4, <2>5, JoinedIs
  <2>7. \A i \in 1 .. 8 : q[i] = p[i]
    <3> TAKE i \in 1 .. 8
    <3>1. i = 1 \/ i = 2 \/ (i - 2 \in 1 .. 6 /\ 2 + (i - 2) = i) OBVIOUS
    <3> QED BY <2>2, <2>4, <2>6, <3>1 DEF Joined
  <2>8. q = p
    <3>1. q \in Seq(Nat) /\ Len(q) = 8 BY <2>6 DEF Joined
    <3> QED BY <2>7, <3>1, AddressIs
  <2> QED BY <2>1, <2>3, <2>5, <2>8 DEF Target
<1> QED BY <1>20, <1>22

\* Where the first of the stacks is in struct tss, and how long that is.
LEMMA TssSizes == IstOffset(1) = 36 /\ TssSize = 103
BY DEF IstOffset, TssSize

\* The eight bytes of a segment.
IsSegment(s, limit, base, base2, access, flags, base3) ==
  /\ s \in Seq(Nat) /\ Len(s) = 8
  /\ s[1] = limit[1] /\ s[2] = limit[2] /\ s[3] = base[1] /\ s[4] = base[2]
  /\ s[5] = base2 /\ s[6] = access /\ s[7] = flags /\ s[8] = base3

\* The bytes of a descriptor.
LEMMA SegmentIs ==
  ASSUME NEW limit \in Seq(Nat), NEW base \in Seq(Nat), Len(limit) = 2, Len(base) = 2,
         NEW base2 \in Nat, NEW access \in Nat, NEW flags \in Nat, NEW base3 \in Nat
  PROVE  IsSegment(Segment(limit, base, base2, access, flags, base3), limit, base, base2, access, flags, base3)
<1>1. PICK a : a = limit \o base OBVIOUS
<1>2. PICK b : b = <<base2, access, flags, base3>> OBVIOUS
<1>3. b \in Seq(Nat) /\ Len(b) = 4 /\ b[1] = base2 /\ b[2] = access /\ b[3] = flags /\ b[4] = base3 BY <1>2
<1>4. Joined(a, limit, 2, base, 2) BY <1>1, JoinedIs
<1>5. a \in Seq(Nat) /\ Len(a) = 4 /\ a[1] = limit[1] /\ a[2] = limit[2] /\ a[3] = base[1] /\ a[4] = base[2]
  BY <1>4 DEF Joined
<1>6. PICK s : s = a \o b OBVIOUS
<1>7. Joined(s, a, 4, b, 4) BY <1>3, <1>5, <1>6, JoinedIs
<1>8. s \in Seq(Nat) /\ Len(s) = 8 /\ s[1] = a[1] /\ s[2] = a[2] /\ s[3] = a[3] /\ s[4] = a[4] BY <1>7 DEF Joined
<1>9. s[5] = b[1] /\ s[6] = b[2] /\ s[7] = b[3] /\ s[8] = b[4] BY <1>7 DEF Joined
<1>10. IsSegment(s, limit, base, base2, access, flags, base3) BY <1>3, <1>5, <1>8, <1>9 DEF IsSegment
<1>11. Segment(limit, base, base2, access, flags, base3) = s BY <1>1, <1>2, <1>6 DEF Segment
<1> QED BY <1>10, <1>11

\* Those of a descriptor of all the memory.
LEMMA FlatIs ==
  ASSUME NEW access \in Nat, NEW flags \in Nat, NEW s, s = Flat(access, flags)
  PROVE  s \in Seq(Nat) /\ Len(s) = 8 /\ s[6] = access /\ s[7] = flags
<1>1. PICK a : a = Little(2, 65535) OBVIOUS
<1>2. a \in Seq(Nat) /\ Len(a) = 2
  <2>1. a = <<255, 255>> BY <1>1, LittleIs
  <2> QED BY <2>1
<1>3. PICK z : z = Zeros(2) OBVIOUS
<1>4. z \in Seq(Nat) /\ Len(z) = 2
  <2>1. z = <<0, 0>> BY <1>3, LittleIs
  <2> QED BY <2>1
<1>5. s = Segment(a, z, 0, access, flags, 0) BY <1>1, <1>3 DEF Flat
<1>6. IsSegment(s, a, z, 0, access, flags, 0) BY <1>2, <1>4, <1>5, SegmentIs
<1> QED BY <1>6 DEF IsSegment

\* A table of zeros.
LEMMA ZerosAre ==
  ASSUME NEW n \in Nat, NEW z, z = Zeros(n)
  PROVE  z \in Seq(Nat) /\ Len(z) = n /\ DOMAIN z = 1 .. n
<1>1. DOMAIN z = 1 .. n /\ \A i \in 1 .. n : z[i] \in Nat BY DEF Zeros
<1>2. [i \in 1 .. n |-> 0] \in Seq(Nat) BY IsASeq
<1>3. z \in Seq(Nat) BY <1>2 DEF Zeros
<1> QED BY <1>1, <1>3, LenProperties

\* The descriptor of code, the second of the table.
LEMMA GdtIs == Gdt \in Seq(Nat) /\ Len(Gdt) = 48 /\ Gdt[14] = 152 /\ Gdt[15] = 47
<1>1. PICK z : z = Zeros(8) OBVIOUS
<1>2. z \in Seq(Nat) /\ Len(z) = 8 BY <1>1, ZerosAre
<1>3. PICK a : a = Flat(152, 47) OBVIOUS
<1>4. a \in Seq(Nat) /\ Len(a) = 8 /\ a[6] = 152 /\ a[7] = 47 BY <1>3, FlatIs
<1>5. PICK b : b = Flat(248, 47) OBVIOUS
<1>6. b \in Seq(Nat) /\ Len(b) = 8 BY <1>5, FlatIs
<1>7. PICK c : c = Flat(146, 47) OBVIOUS
<1>8. c \in Seq(Nat) /\ Len(c) = 8 BY <1>7, FlatIs
<1>9. PICK d : d = Flat(137, 31) OBVIOUS
<1>10. d \in Seq(Nat) /\ Len(d) = 8 BY <1>9, FlatIs
<1>11. PICK za : za = z \o a OBVIOUS
<1>12. za \in Seq(Nat) /\ Len(za) = 16 /\ za[14] = 152 /\ za[15] = 47
  <2>1. Joined(za, z, 8, a, 8)
    <3>1. z \in Seq(Nat) /\ a \in Seq(Nat) /\ Len(z) = 8 /\ Len(a) = 8 BY <1>2, <1>4
    <3>2. Joined(z \o a, z, Len(z), a, Len(a)) BY <3>1, JoinedIs
    <3> QED BY <1>11, <3>1, <3>2
  <2>2. za[8 + 6] = a[6] /\ za[8 + 7] = a[7] BY <2>1 DEF Joined
  <2> QED BY <1>4, <2>1, <2>2 DEF Joined
<1>13. PICK zb : zb = za \o b OBVIOUS
<1>14. zb \in Seq(Nat) /\ Len(zb) = 24 /\ zb[14] = 152 /\ zb[15] = 47
  <2>1. Joined(zb, za, 16, b, 8)
    <3>1. za \in Seq(Nat) /\ b \in Seq(Nat) /\ Len(za) = 16 /\ Len(b) = 8 BY <1>6, <1>12
    <3>2. Joined(za \o b, za, Len(za), b, Len(b)) BY <3>1, JoinedIs
    <3> QED BY <1>13, <3>1, <3>2
  <2> QED BY <1>12, <2>1 DEF Joined
<1>15. PICK zc : zc = zb \o c OBVIOUS
<1>16. zc \in Seq(Nat) /\ Len(zc) = 32 /\ zc[14] = 152 /\ zc[15] = 47
  <2>1. Joined(zc, zb, 24, c, 8)
    <3>1. zb \in Seq(Nat) /\ c \in Seq(Nat) /\ Len(zb) = 24 /\ Len(c) = 8 BY <1>8, <1>14
    <3>2. Joined(zb \o c, zb, Len(zb), c, Len(c)) BY <3>1, JoinedIs
    <3> QED BY <1>15, <3>1, <3>2
  <2> QED BY <1>14, <2>1 DEF Joined
<1>17. PICK zd : zd = zc \o d OBVIOUS
<1>18. zd \in Seq(Nat) /\ Len(zd) = 40 /\ zd[14] = 152 /\ zd[15] = 47
  <2>1. Joined(zd, zc, 32, d, 8)
    <3>1. zc \in Seq(Nat) /\ d \in Seq(Nat) /\ Len(zc) = 32 /\ Len(d) = 8 BY <1>10, <1>16
    <3>2. Joined(zc \o d, zc, Len(zc), d, Len(d)) BY <3>1, JoinedIs
    <3> QED BY <1>17, <3>1, <3>2
  <2> QED BY <1>16, <2>1 DEF Joined
<1>19. Gdt = zd \o z BY <1>1, <1>3, <1>5, <1>7, <1>9, <1>11, <1>13, <1>15, <1>17 DEF Gdt
<1>20. PICK all : all = Gdt OBVIOUS
<1>21. all \in Seq(Nat) /\ Len(all) = 48 /\ all[14] = 152 /\ all[15] = 47
  <2>1. Joined(all, zd, 40, z, 8)
    <3>1. zd \in Seq(Nat) /\ z \in Seq(Nat) /\ Len(zd) = 40 /\ Len(z) = 8 BY <1>2, <1>18
    <3>2. Joined(zd \o z, zd, Len(zd), z, Len(z)) BY <3>1, JoinedIs
    <3> QED BY <1>19, <1>20, <3>1, <3>2
  <2> QED BY <1>18, <2>1 DEF Joined
<1> QED BY <1>20, <1>21

\* The descriptor of the task.
LEMMA TssDescriptorIs ==
  ASSUME NEW p \in Addresses, NEW d, d = TssDescriptor(p, 103)
  PROVE  /\ d \in Seq(Nat) /\ Len(d) = 16 /\ d[1] = 103 /\ d[2] = 0 /\ d[7] = 0
         /\ d[3] = p[1] /\ d[4] = p[2] /\ d[5] = p[3] /\ d[8] = p[4]
         /\ \A i \in 1 .. 4 : d[8 + i] = p[4 + i]
<1>1. \A i \in 1 .. 8 : p[i] \in Nat BY AddressBytes
<1>2. PICK a : a = Little(2, 103) OBVIOUS
<1>3. a \in Seq(Nat) /\ Len(a) = 2 /\ a[1] = 103 /\ a[2] = 0
  <2>1. a = <<103, 0>> BY <1>2, LittleIs
  <2> QED BY <2>1
<1>4. PICK b : b = SubSeq(p, 1, 2) OBVIOUS
<1>5. b \in Seq(Nat) /\ Len(b) = 2 /\ b[1] = p[1] /\ b[2] = p[2]
  <2>1. \A i \in 1 .. 2 : p[i] \in Nat BY <1>1
  <2>2. b \in Seq(Nat) /\ Len(b) = 2 /\ \A i \in 1 .. 2 : b[i] = p[1 + i - 1] BY <1>4, <2>1, PartIs
  <2> QED BY <2>2
<1>6. PICK c : c = SubSeq(p, 5, 6) OBVIOUS
<1>7. c \in Seq(Nat) /\ Len(c) = 2 /\ c[1] = p[5] /\ c[2] = p[6]
  <2>1. \A i \in 5 .. 6 : p[i] \in Nat BY <1>1
  <2>2. c \in Seq(Nat) /\ Len(c) = 2 /\ \A i \in 1 .. 2 : c[i] = p[5 + i - 1] BY <1>6, <2>1, PartIs
  <2> QED BY <2>2
<1>8. PICK e : e = SubSeq(p, 7, 8) OBVIOUS
<1>9. e \in Seq(Nat) /\ Len(e) = 2 /\ e[1] = p[7] /\ e[2] = p[8]
  <2>1. \A i \in 7 .. 8 : p[i] \in Nat BY <1>1
  <2>2. e \in Seq(Nat) /\ Len(e) = 2 /\ \A i \in 1 .. 2 : e[i] = p[7 + i - 1] BY <1>8, <2>1, PartIs
  <2> QED BY <2>2
<1>10. PICK s : s = Segment(a, b, p[3], 137, 0, p[4]) OBVIOUS
<1>11. /\ s \in Seq(Nat) /\ Len(s) = 8 /\ s[1] = 103 /\ s[2] = 0 /\ s[7] = 0
       /\ s[3] = p[1] /\ s[4] = p[2] /\ s[5] = p[3] /\ s[8] = p[4]
  <2>1. p[3] \in Nat /\ p[4] \in Nat BY <1>1
  <2>2. a \in Seq(Nat) /\ Len(a) = 2 /\ b \in Seq(Nat) /\ Len(b) = 2 BY <1>3, <1>5
  <2>3. IsSegment(s, a, b, p[3], 137, 0, p[4]) BY <1>10, <2>1, <2>2, SegmentIs
  <2> QED BY <1>3, <1>5, <2>3 DEF IsSegment
<1>12. PICK t : t = Segment(c, e, 0, 0, 0, 0) OBVIOUS
<1>13. t \in Seq(Nat) /\ Len(t) = 8 /\ t[1] = p[5] /\ t[2] = p[6] /\ t[3] = p[7] /\ t[4] = p[8]
  <2>1. c \in Seq(Nat) /\ Len(c) = 2 /\ e \in Seq(Nat) /\ Len(e) = 2 BY <1>7, <1>9
  <2>2. IsSegment(t, c, e, 0, 0, 0, 0) BY <1>12, <2>1, SegmentIs
  <2> QED BY <1>7, <1>9, <2>2 DEF IsSegment
<1>14. d = s \o t
  <2>1. (103 \div 65536) % 16 = 0 OBVIOUS
  <2> QED BY <1>2, <1>4, <1>6, <1>8, <1>10, <1>12, <2>1 DEF TssDescriptor
<1>15. Joined(d, s, 8, t, 8) BY <1>11, <1>13, <1>14, JoinedIs
<1>16. /\ d \in Seq(Nat) /\ Len(d) = 16
       /\ d[1] = s[1] /\ d[2] = s[2] /\ d[3] = s[3] /\ d[4] = s[4] /\ d[5] = s[5] /\ d[7] = s[7] /\ d[8] = s[8]
       /\ d[8 + 1] = t[1] /\ d[8 + 2] = t[2] /\ d[8 + 3] = t[3] /\ d[8 + 4] = t[4]
  BY <1>15 DEF Joined
<1>17. \A i \in 1 .. 4 : d[8 + i] = p[4 + i]
  <2> TAKE i \in 1 .. 4
  <2>1. /\ d[8 + 1] = p[4 + 1] /\ d[8 + 2] = p[4 + 2]
        /\ d[8 + 3] = p[4 + 3] /\ d[8 + 4] = p[4 + 4]
    BY <1>13, <1>16
  <2>2. i = 1 \/ i = 2 \/ i = 3 \/ i = 4 OBVIOUS
  <2> QED BY <2>1, <2>2
<1> QED BY <1>11, <1>16, <1>17

\* What the processor reads in the table t once the task's descriptor is in it.
Described(t) ==
  /\ t[14] = 152 /\ t[15] = 47
  /\ t[33] + 256 * t[34] + 65536 * (t[39] % 16) = 103
  /\ SubSeq(t, 35, 37) \o <<t[40]>> \o SubSeq(t, 41, 44) = TssAt

\* SetTask makes such a table.
LEMMA TaskIsDescribed ==
  ASSUME NEW t, t = Over(Gdt, 32, TssDescriptor(TssAt, 103))
  PROVE  Described(t)
<1>1. TssAt \in Addresses BY InterruptTablesAssumption
<1>2. PICK p \in Addresses : p = TssAt BY <1>1
<1>3. PICK d : d = TssDescriptor(p, 103) OBVIOUS
<1>4. /\ d \in Seq(Nat) /\ Len(d) = 16 /\ d[1] = 103 /\ d[2] = 0 /\ d[7] = 0
      /\ d[3] = p[1] /\ d[4] = p[2] /\ d[5] = p[3] /\ d[8] = p[4]
      /\ \A i \in 1 .. 4 : d[8 + i] = p[4 + i]
  BY <1>3, TssDescriptorIs
<1>5. DOMAIN d = 1 .. 16 BY <1>4, LenProperties
<1>6. DOMAIN Gdt = 1 .. 48
  <2>1. Gdt \in Seq(Nat) /\ Len(Gdt) = 48 BY GdtIs
  <2> QED BY <2>1, LenProperties
<1>7. \A i \in 1 .. 48 : t[i] = IF i - 32 \in 1 .. 16 THEN d[i - 32] ELSE Gdt[i] BY <1>2, <1>3, <1>5, <1>6 DEF Over
<1>8. t[14] = 152 /\ t[15] = 47 BY <1>7, GdtIs
<1>9. \A i \in 1 .. 16 : t[32 + i] = d[i]
  <2> TAKE i \in 1 .. 16
  <2>1. 32 + i \in 1 .. 48 /\ 32 + i - 32 = i OBVIOUS
  <2> QED BY <1>7, <2>1
<1>10. t[32 + 1] = d[1] /\ t[32 + 2] = d[2] /\ t[32 + 7] = d[7] BY <1>9
<1>11. t[33] + 256 * t[34] + 65536 * (t[39] % 16) = 103
  <2>1. t[33] = 103 /\ t[34] = 0 /\ t[39] = 0 BY <1>4, <1>10
  <2>2. t[33] + 256 * t[34] + 65536 * (t[39] % 16) = 103 + 256 * 0 + 65536 * (0 % 16) BY <2>1
  <2> QED BY <2>2
<1>12. \A i \in 1 .. 8 : p[i] \in Nat BY AddressBytes
<1>13. t[32 + 3] = p[1] /\ t[32 + 4] = p[2] /\ t[32 + 5] = p[3] /\ t[32 + 8] = p[4]
  <2>1. t[32 + 3] = d[3] /\ t[32 + 4] = d[4] /\ t[32 + 5] = d[5] /\ t[32 + 8] = d[8] BY <1>9
  <2> QED BY <1>4, <2>1
<1>14. \A i \in 1 .. 4 : t[40 + i] = p[4 + i]
  <2> TAKE i \in 1 .. 4
  <2>1. 8 + i \in 1 .. 16 /\ 32 + (8 + i) = 40 + i OBVIOUS
  <2> QED BY <1>4, <1>9, <2>1
<1>15. SubSeq(t, 35, 37) \o <<t[40]>> \o SubSeq(t, 41, 44) = p
  <2>1. PICK a : a = SubSeq(t, 35, 37) OBVIOUS
  <2>2. a \in Seq(Nat) /\ Len(a) = 3 /\ a[1] = p[1] /\ a[2] = p[2] /\ a[3] = p[3]
    <3>1. t[35] = p[1] /\ t[36] = p[2] /\ t[37] = p[3] BY <1>13
    <3>2. \A i \in 35 .. 37 : t[i] \in Nat BY <1>12, <3>1
    <3>3. a \in Seq(Nat) /\ Len(a) = 3 /\ \A i \in 1 .. 3 : a[i] = t[35 + i - 1] BY <2>1, <3>2, PartIs
    <3> QED BY <3>1, <3>3
  <2>3. PICK b : b = <<t[40]>> OBVIOUS
  <2>4. b \in Seq(Nat) /\ Len(b) = 1 /\ b[1] = p[4]
    <3>1. t[40] = p[4] /\ p[4] \in Nat BY <1>12, <1>13
    <3> QED BY <2>3, <3>1
  <2>5. PICK c : c = SubSeq(t, 41, 44) OBVIOUS
  <2>6. c \in Seq(Nat) /\ Len(c) = 4 /\ \A i \in 1 .. 4 : c[i] = p[4 + i]
    <3>1. \A i \in 41 .. 44 : t[i] \in Nat
      <4> TAKE i \in 41 .. 44
      <4>1. i - 40 \in 1 .. 4 /\ 40 + (i - 40) = i /\ 4 + (i - 40) \in 1 .. 8 OBVIOUS
      <4> QED BY <1>12, <1>14, <4>1
    <3>2. c \in Seq(Nat) /\ Len(c) = 4 /\ \A i \in 1 .. 4 : c[i] = t[41 + i - 1] BY <2>5, <3>1, PartIs
    <3>3. ASSUME NEW i \in 1 .. 4 PROVE c[i] = p[4 + i]
      <4>1. 41 + i - 1 = 40 + i OBVIOUS
      <4> QED BY <1>14, <3>2, <4>1
    <3> QED BY <3>2, <3>3
  <2>7. PICK ab : ab = a \o b OBVIOUS
  <2>8. Joined(ab, a, 3, b, 1)
    <3>1. a \in Seq(Nat) /\ b \in Seq(Nat) /\ Len(a) = 3 /\ Len(b) = 1 BY <2>2, <2>4
    <3>2. Joined(a \o b, a, Len(a), b, Len(b)) BY <3>1, JoinedIs
    <3> QED BY <2>7, <3>1, <3>2
  <2>9. ab \in Seq(Nat) /\ Len(ab) = 4 /\ ab[1] = p[1] /\ ab[2] = p[2] /\ ab[3] = p[3] /\ ab[4] = p[4]
    <3>1. ab \in Seq(Nat) /\ Len(ab) = 4 /\ ab[1] = a[1] /\ ab[2] = a[2] /\ ab[3] = a[3] BY <2>8 DEF Joined
    <3>2. ab[3 + 1] = b[1] BY <2>8 DEF Joined
    <3> QED BY <2>2, <2>4, <3>1, <3>2
  <2>10. PICK q : q = ab \o c OBVIOUS
  <2>11. Joined(q, ab, 4, c, 4)
    <3>1. ab \in Seq(Nat) /\ c \in Seq(Nat) /\ Len(ab) = 4 /\ Len(c) = 4 BY <2>6, <2>9
    <3>2. Joined(ab \o c, ab, Len(ab), c, Len(c)) BY <3>1, JoinedIs
    <3> QED BY <2>10, <3>1, <3>2
  <2>12. q[1] = p[1] /\ q[2] = p[2] /\ q[3] = p[3] /\ q[4] = p[4] BY <2>9, <2>11 DEF Joined
  <2>13. \A i \in 1 .. 4 : q[4 + i] = p[4 + i] BY <2>6, <2>11 DEF Joined
  <2>14. \A i \in 1 .. 8 : q[i] = p[i]
    <3> TAKE i \in 1 .. 8
    <3>1. i = 1 \/ i = 2 \/ i = 3 \/ i = 4 \/ (i - 4 \in 1 .. 4 /\ 4 + (i - 4) = i) OBVIOUS
    <3> QED BY <2>12, <2>13, <3>1
  <2>15. q = p
    <3>1. q \in Seq(Nat) /\ Len(q) = 8 BY <2>11 DEF Joined
    <3> QED BY <2>14, <3>1, AddressIs
  <2> QED BY <2>1, <2>3, <2>5, <2>7, <2>10, <2>15
<1> QED BY <1>2, <1>8, <1>11, <1>15 DEF Described

\* The first of the stacks is where the processor looks for it.
LEMMA StackIsSet ==
  ASSUME NEW bytes, DOMAIN bytes = 1 .. 104, NEW t, t = tss_set_ist(bytes, 1, StackTop)
  PROVE  SubSeq(t, 37, 44) = StackTop
<1>1. StackTop \in Addresses BY InterruptTablesAssumption
<1>2. PICK p \in Addresses : p = StackTop BY <1>1
<1>3. DOMAIN p = 1 .. 8 /\ \A i \in 1 .. 8 : p[i] \in Nat BY AddressBytes DEF Addresses
<1>4. t = Over(bytes, 36, p) BY <1>2, TssSizes DEF tss_set_ist
<1>5. ASSUME NEW i \in 37 .. 44 PROVE t[i] = p[i - 36] /\ i - 36 \in 1 .. 8
  <2>1. i \in 1 .. 104 /\ i - 36 \in 1 .. 8 OBVIOUS
  <2> QED BY <1>3, <1>4, <2>1 DEF Over
<1>6. PICK q : q = SubSeq(t, 37, 44) OBVIOUS
<1>7. q \in Seq(Nat) /\ Len(q) = 8 /\ \A i \in 1 .. 8 : q[i] = t[37 + i - 1]
  <2>1. \A i \in 37 .. 44 : t[i] \in Nat BY <1>3, <1>5
  <2> QED BY <1>6, <2>1, PartIs
<1>8. ASSUME NEW i \in 1 .. 8 PROVE q[i] = p[i]
  <2>1. 37 + i - 1 \in 37 .. 44 /\ 37 + i - 1 - 36 = i OBVIOUS
  <2> QED BY <1>5, <1>7, <2>1
<1>9. q = p
  <2>1. q \in Seq(Nat) /\ Len(q) = 8 BY <1>7
  <2> QED BY <1>8, <2>1, AddressIs
<1> QED BY <1>2, <1>6, <1>9

-----------------------------------------------------------------------------
(***************************************************************************)
(* The tables for interrupts.                                              *)
(***************************************************************************)

\* What the PICs expect at each place, and that they were given their vectors.
Pics == [expects : Nat, base : Nat, mask : Nat]
MasterExpects == <<0, 2, 2, 3, 3, 4, 4, 0, 0, 0, 0>>
SlaveExpects == <<0, 0, 2, 2, 3, 3, 4, 4, 0, 0, 0>>
PicsAre(at, pics) ==
  /\ pics \in [{"master", "slave"} -> Pics]
  /\ at \in 1 .. 11 =>
       pics["master"].expects = MasterExpects[at] /\ pics["slave"].expects = SlaveExpects[at]
  /\ at >= 4 => pics["master"].base = 32
  /\ at >= 5 => pics["slave"].base = 40
PicsOK == PicsAre(place, chip)

\* What a PIC makes of a word of the setup.
LEMMA ToldIs ==
  ASSUME NEW c \in Pics, NEW value \in Nat
  PROVE  /\ Told(c, "command", value) \in Pics /\ Told(c, "data", value) \in Pics
         /\ Told(c, "command", value).expects = 2 /\ Told(c, "command", value).base = c.base
         /\ c.expects = 2 => Told(c, "data", value).expects = 3 /\ Told(c, "data", value).base = value - (value % 8)
         /\ c.expects = 3 => Told(c, "data", value).expects = 4 /\ Told(c, "data", value).base = c.base
         /\ c.expects = 4 => Told(c, "data", value).expects = 0 /\ Told(c, "data", value).base = c.base
         /\ c.expects = 0 => Told(c, "data", value).expects = 0 /\ Told(c, "data", value).base = c.base
<1>1. PICK e \in Nat, b \in Nat, k \in Nat : c = [expects |-> e, base |-> b, mask |-> k] BY DEF Pics
<1>2. PICK n \in Nat : n = value - (value % 8) OBVIOUS
<1>3. Told(c, "command", value) = [expects |-> 2, base |-> b, mask |-> 0] BY <1>1 DEF Told
<1>4. CASE e = 2
  <2>1. Told(c, "data", value) = [expects |-> 3, base |-> n, mask |-> k]
    <3>1. "data" # "command" /\ c.expects = 2 BY <1>1, <1>4
    <3>2. Told(c, "data", value) = [c EXCEPT !.base = value - (value % 8), !.expects = 3] BY <3>1 DEF Told
    <3>3. Told(c, "data", value) = [c EXCEPT !.base = n, !.expects = 3] BY <1>2, <3>2
    <3> QED BY <1>1, <3>3
  <2> QED BY <1>1, <1>2, <1>3, <1>4, <2>1 DEF Pics
<1>5. CASE e = 3
  <2>1. Told(c, "data", value) = [expects |-> 4, base |-> b, mask |-> k] BY <1>1, <1>5 DEF Told
  <2> QED BY <1>1, <1>3, <1>5, <2>1 DEF Pics
<1>6. CASE e = 4
  <2>1. Told(c, "data", value) = [expects |-> 0, base |-> b, mask |-> k] BY <1>1, <1>6 DEF Told
  <2> QED BY <1>1, <1>3, <1>6, <2>1 DEF Pics
<1>7. CASE e \notin {2, 3, 4}
  <2>1. Told(c, "data", value) = [expects |-> e, base |-> b, mask |-> value] BY <1>1, <1>7 DEF Told
  <2> QED BY <1>1, <1>3, <1>7, <2>1 DEF Pics
<1> QED BY <1>4, <1>5, <1>6, <1>7

\* The places of platform_setup_interrupts.
LEMMA TablePlaces == AtTss = 11 /\ AtGates = 12 /\ AtGdt = 13 /\ AtEnable = 14
<1>1. Len(PicWrites) = 10 BY DEF PicWrites
<1> QED BY <1>1 DEF AtTss, AtGates, AtGdt, AtEnable

\* A PIC that is told something, and the other.
LEMMA PicsTold ==
  ASSUME PicsOK, NEW pic \in {"master", "slave"}, NEW port \in {"command", "data"}, NEW value \in Nat,
         chip' = [chip EXCEPT ![pic] = Told(@, port, value)]
  PROVE  /\ chip' \in [{"master", "slave"} -> Pics]
         /\ chip'[pic] = Told(chip[pic], port, value)
         /\ \A other \in {"master", "slave"} : other # pic => chip'[other] = chip[other]
<1>1. chip \in [{"master", "slave"} -> Pics] BY DEF PicsOK, PicsAre
<1>2. PICK t : t = Told(chip[pic], port, value) OBVIOUS
<1>3. t \in Pics BY <1>1, <1>2, ToldIs
<1>4. chip' = [chip EXCEPT ![pic] = t] BY <1>2
<1> QED BY <1>1, <1>2, <1>3, <1>4

\* Before the first word.
LEMMA PicsStart == TablesInit => PicsOK
<1> SUFFICES ASSUME TablesInit PROVE PicsOK OBVIOUS
<1>1. PICK m \in BiosMasks : chip = [c \in {"master", "slave"} |-> [expects |-> 0, base |-> IF c = "master" THEN 8 ELSE 112, mask |-> m]]
  BY DEF TablesInit
<1>2. m \in Nat BY InterruptTablesAssumption
<1>3. chip \in [{"master", "slave"} -> Pics] BY <1>1, <1>2 DEF Pics
<1>4. chip["master"].expects = 0 /\ chip["slave"].expects = 0 BY <1>1
<1>5. place = 1 BY DEF TablesInit
<1>6. MasterExpects[1] = 0 /\ SlaveExpects[1] = 0 BY DEF MasterExpects, SlaveExpects
<1> QED BY <1>3, <1>4, <1>5, <1>6 DEF PicsOK, PicsAre

\* Each word of disable_pic.
LEMMA WriteKeepsPics ==
  ASSUME PicsOK, place \in 1 .. 15, disable_pic
  PROVE  PicsOK'
<1>1. place \in 1 .. 10 /\ place' = place + 1 BY TablePlaces DEF disable_pic, Step
<1>2. PICK w : w = PicWrites[place] OBVIOUS
<1>3. chip' = [chip EXCEPT ![w[1]] = Told(@, w[2], w[3])] BY <1>2 DEF disable_pic
<1>4. PICK m \in Pics, s \in Pics : m = chip["master"] /\ s = chip["slave"] BY DEF PicsOK, PicsAre
<1>5. m.expects = MasterExpects[place] /\ s.expects = SlaveExpects[place] BY <1>1, <1>4 DEF PicsOK, PicsAre
<1>6. (place >= 4 => m.base = 32) /\ (place >= 5 => s.base = 40) BY <1>4 DEF PicsOK, PicsAre
<1>7. SUFFICES PicsAre(place + 1, chip') BY <1>1 DEF PicsOK
<1>8. CASE place = 1
  <2>1. w[1] = "master" /\ w[2] = "command" /\ w[3] = 17 BY <1>2, <1>8 DEF PicWrites
  <2>2. chip' = [chip EXCEPT !["master"] = Told(@, "command", 17)] BY <1>3, <2>1
  <2>3. /\ chip' \in [{"master", "slave"} -> Pics]
        /\ chip'["master"] = Told(m, "command", 17) /\ chip'["slave"] = s
    BY <1>4, <2>2, PicsTold
  <2>4. m.expects = 0 /\ s.expects = 0 BY <1>5, <1>8 DEF MasterExpects, SlaveExpects
  <2>5. MasterExpects[2] = 2 /\ SlaveExpects[2] = 0 BY DEF MasterExpects, SlaveExpects
  <2>6. PICK t : t = Told(m, "command", 17) OBVIOUS
  <2>7. t.expects = 2 /\ t.base = m.base BY <2>4, <2>6, ToldIs
  <2> QED BY <1>6, <1>8, <2>3, <2>4, <2>5, <2>6, <2>7 DEF PicsAre
<1>9. CASE place = 2
  <2>1. w[1] = "slave" /\ w[2] = "command" /\ w[3] = 17 BY <1>2, <1>9 DEF PicWrites
  <2>2. chip' = [chip EXCEPT !["slave"] = Told(@, "command", 17)] BY <1>3, <2>1
  <2>3. /\ chip' \in [{"master", "slave"} -> Pics]
        /\ chip'["slave"] = Told(s, "command", 17) /\ chip'["master"] = m
    BY <1>4, <2>2, PicsTold
  <2>4. m.expects = 2 /\ s.expects = 0 BY <1>5, <1>9 DEF MasterExpects, SlaveExpects
  <2>5. MasterExpects[3] = 2 /\ SlaveExpects[3] = 2 BY DEF MasterExpects, SlaveExpects
  <2>6. PICK t : t = Told(s, "command", 17) OBVIOUS
  <2>7. t.expects = 2 /\ t.base = s.base BY <2>4, <2>6, ToldIs
  <2> QED BY <1>6, <1>9, <2>3, <2>4, <2>5, <2>6, <2>7 DEF PicsAre
<1>10. CASE place = 3
  <2>1. w[1] = "master" /\ w[2] = "data" /\ w[3] = 32 BY <1>2, <1>10 DEF PicWrites
  <2>2. chip' = [chip EXCEPT !["master"] = Told(@, "data", 32)] BY <1>3, <2>1
  <2>3. /\ chip' \in [{"master", "slave"} -> Pics]
        /\ chip'["master"] = Told(m, "data", 32) /\ chip'["slave"] = s
    BY <1>4, <2>2, PicsTold
  <2>4. m.expects = 2 /\ s.expects = 2 BY <1>5, <1>10 DEF MasterExpects, SlaveExpects
  <2>5. MasterExpects[4] = 3 /\ SlaveExpects[4] = 2 BY DEF MasterExpects, SlaveExpects
  <2>6. PICK t : t = Told(m, "data", 32) OBVIOUS
  <2>7. t.expects = 3 /\ t.base = 32
    <3>1. 32 - (32 % 8) = 32 OBVIOUS
    <3> QED BY <2>4, <2>6, <3>1, ToldIs
  <2> QED BY <1>6, <1>10, <2>3, <2>4, <2>5, <2>6, <2>7 DEF PicsAre
<1>11. CASE place = 4
  <2>1. w[1] = "slave" /\ w[2] = "data" /\ w[3] = 40 BY <1>2, <1>11 DEF PicWrites
  <2>2. chip' = [chip EXCEPT !["slave"] = Told(@, "data", 40)] BY <1>3, <2>1
  <2>3. /\ chip' \in [{"master", "slave"} -> Pics]
        /\ chip'["slave"] = Told(s, "data", 40) /\ chip'["master"] = m
    BY <1>4, <2>2, PicsTold
  <2>4. m.expects = 3 /\ s.expects = 2 BY <1>5, <1>11 DEF MasterExpects, SlaveExpects
  <2>5. MasterExpects[5] = 3 /\ SlaveExpects[5] = 3 BY DEF MasterExpects, SlaveExpects
  <2>6. PICK t : t = Told(s, "data", 40) OBVIOUS
  <2>7. t.expects = 3 /\ t.base = 40
    <3>1. 40 - (40 % 8) = 40 OBVIOUS
    <3> QED BY <2>4, <2>6, <3>1, ToldIs
  <2> QED BY <1>6, <1>11, <2>3, <2>4, <2>5, <2>6, <2>7 DEF PicsAre
<1>12. CASE place = 5
  <2>1. w[1] = "master" /\ w[2] = "data" /\ w[3] = 4 BY <1>2, <1>12 DEF PicWrites
  <2>2. chip' = [chip EXCEPT !["master"] = Told(@, "data", 4)] BY <1>3, <2>1
  <2>3. /\ chip' \in [{"master", "slave"} -> Pics]
        /\ chip'["master"] = Told(m, "data", 4) /\ chip'["slave"] = s
    BY <1>4, <2>2, PicsTold
  <2>4. m.expects = 3 /\ s.expects = 3 BY <1>5, <1>12 DEF MasterExpects, SlaveExpects
  <2>5. MasterExpects[6] = 4 /\ SlaveExpects[6] = 3 BY DEF MasterExpects, SlaveExpects
  <2>6. PICK t : t = Told(m, "data", 4) OBVIOUS
  <2>7. t.expects = 4 /\ t.base = m.base BY <2>4, <2>6, ToldIs
  <2> QED BY <1>6, <1>12, <2>3, <2>4, <2>5, <2>6, <2>7 DEF PicsAre
<1>13. CASE place = 6
  <2>1. w[1] = "slave" /\ w[2] = "data" /\ w[3] = 2 BY <1>2, <1>13 DEF PicWrites
  <2>2. chip' = [chip EXCEPT !["slave"] = Told(@, "data", 2)] BY <1>3, <2>1
  <2>3. /\ chip' \in [{"master", "slave"} -> Pics]
        /\ chip'["slave"] = Told(s, "data", 2) /\ chip'["master"] = m
    BY <1>4, <2>2, PicsTold
  <2>4. m.expects = 4 /\ s.expects = 3 BY <1>5, <1>13 DEF MasterExpects, SlaveExpects
  <2>5. MasterExpects[7] = 4 /\ SlaveExpects[7] = 4 BY DEF MasterExpects, SlaveExpects
  <2>6. PICK t : t = Told(s, "data", 2) OBVIOUS
  <2>7. t.expects = 4 /\ t.base = s.base BY <2>4, <2>6, ToldIs
  <2> QED BY <1>6, <1>13, <2>3, <2>4, <2>5, <2>6, <2>7 DEF PicsAre
<1>14. CASE place = 7
  <2>1. w[1] = "master" /\ w[2] = "data" /\ w[3] = 1 BY <1>2, <1>14 DEF PicWrites
  <2>2. chip' = [chip EXCEPT !["master"] = Told(@, "data", 1)] BY <1>3, <2>1
  <2>3. /\ chip' \in [{"master", "slave"} -> Pics]
        /\ chip'["master"] = Told(m, "data", 1) /\ chip'["slave"] = s
    BY <1>4, <2>2, PicsTold
  <2>4. m.expects = 4 /\ s.expects = 4 BY <1>5, <1>14 DEF MasterExpects, SlaveExpects
  <2>5. MasterExpects[8] = 0 /\ SlaveExpects[8] = 4 BY DEF MasterExpects, SlaveExpects
  <2>6. PICK t : t = Told(m, "data", 1) OBVIOUS
  <2>7. t.expects = 0 /\ t.base = m.base BY <2>4, <2>6, ToldIs
  <2> QED BY <1>6, <1>14, <2>3, <2>4, <2>5, <2>6, <2>7 DEF PicsAre
<1>15. CASE place = 8
  <2>1. w[1] = "slave" /\ w[2] = "data" /\ w[3] = 1 BY <1>2, <1>15 DEF PicWrites
  <2>2. chip' = [chip EXCEPT !["slave"] = Told(@, "data", 1)] BY <1>3, <2>1
  <2>3. /\ chip' \in [{"master", "slave"} -> Pics]
        /\ chip'["slave"] = Told(s, "data", 1) /\ chip'["master"] = m
    BY <1>4, <2>2, PicsTold
  <2>4. m.expects = 0 /\ s.expects = 4 BY <1>5, <1>15 DEF MasterExpects, SlaveExpects
  <2>5. MasterExpects[9] = 0 /\ SlaveExpects[9] = 0 BY DEF MasterExpects, SlaveExpects
  <2>6. PICK t : t = Told(s, "data", 1) OBVIOUS
  <2>7. t.expects = 0 /\ t.base = s.base BY <2>4, <2>6, ToldIs
  <2> QED BY <1>6, <1>15, <2>3, <2>4, <2>5, <2>6, <2>7 DEF PicsAre
<1>16. CASE place = 9
  <2>1. w[1] = "master" /\ w[2] = "data" /\ w[3] = 0 BY <1>2, <1>16 DEF PicWrites
  <2>2. chip' = [chip EXCEPT !["master"] = Told(@, "data", 0)] BY <1>3, <2>1
  <2>3. /\ chip' \in [{"master", "slave"} -> Pics]
        /\ chip'["master"] = Told(m, "data", 0) /\ chip'["slave"] = s
    BY <1>4, <2>2, PicsTold
  <2>4. m.expects = 0 /\ s.expects = 0 BY <1>5, <1>16 DEF MasterExpects, SlaveExpects
  <2>5. MasterExpects[10] = 0 /\ SlaveExpects[10] = 0 BY DEF MasterExpects, SlaveExpects
  <2>6. PICK t : t = Told(m, "data", 0) OBVIOUS
  <2>7. t.expects = 0 /\ t.base = m.base BY <2>4, <2>6, ToldIs
  <2> QED BY <1>6, <1>16, <2>3, <2>4, <2>5, <2>6, <2>7 DEF PicsAre
<1>17. CASE place = 10
  <2>1. w[1] = "slave" /\ w[2] = "data" /\ w[3] = 255 BY <1>2, <1>17 DEF PicWrites
  <2>2. PICK v \in Nat : v = 255 OBVIOUS
  <2>3. chip' = [chip EXCEPT !["slave"] = Told(@, "data", v)] BY <1>3, <2>1, <2>2
  <2>4. /\ chip' \in [{"master", "slave"} -> Pics]
        /\ chip'["slave"] = Told(s, "data", v) /\ chip'["master"] = m
    BY <1>4, <2>3, PicsTold
  <2>5. m.expects = 0 /\ s.expects = 0 BY <1>5, <1>17 DEF MasterExpects, SlaveExpects
  <2>6. MasterExpects[11] = 0 /\ SlaveExpects[11] = 0 BY DEF MasterExpects, SlaveExpects
  <2>7. PICK t : t = Told(s, "data", v) OBVIOUS
  <2>8. t.expects = 0 /\ t.base = s.base BY <2>5, <2>7, ToldIs
  <2> QED BY <1>6, <1>17, <2>4, <2>5, <2>6, <2>7, <2>8 DEF PicsAre
<1> QED BY <1>1, <1>8, <1>9, <1>10, <1>11, <1>12, <1>13, <1>14, <1>15, <1>16, <1>17

\* The invariant: the gates below the next one are set and no others, the stack and the
\* task are in their tables from their places on, and no interrupt comes before the last.
SetOK == place \in 1 .. 15 /\ raised \subseteq 0 .. 15
GatesOK ==
  /\ gate \in 32 .. 256 /\ (place <= 11 => gate = 32) /\ (place = 12 => gate <= 255) /\ (place >= 13 => gate = 256)
  /\ idt = [v \in 0 .. 255 |-> IF v \in 32 .. gate - 1 THEN Gate(Handler) ELSE Zeros(16)]
TssOK == DOMAIN tss = 1 .. 104 /\ (place >= 12 => SubSeq(tss, 37, 44) = StackTop)
GdtOK == (place <= 13 => gdt = Gdt) /\ (place >= 14 => Described(gdt))
RunOK ==
  /\ running \in {"main", "handler"}
  /\ flag => place = 15 /\ running = "main"
  /\ running = "handler" => place = 15
  /\ frameLost = FALSE /\ entered \subseteq {[target |-> Handler, stack |-> StackTop]}

TablesInv == SetOK /\ PicsOK /\ GatesOK /\ TssOK /\ GdtOK /\ RunOK

\* TablesInv at the start.
LEMMA TablesStart == TablesInit => TablesInv
<1> SUFFICES ASSUME TablesInit PROVE TablesInv OBVIOUS
<1>1. SetOK BY DEF TablesInit, SetOK
<1>2. PicsOK BY PicsStart
<1>3. GatesOK
  <2>1. gate = 32 /\ place = 1 /\ idt = [v \in 0 .. 255 |-> Zeros(16)] BY DEF TablesInit
  <2>2. \A v \in 0 .. 255 : ~(v \in 32 .. gate - 1) BY <2>1
  <2> QED BY <2>1, <2>2 DEF GatesOK
<1>4. TssOK
  <2>1. tss = Zeros(104) /\ place = 1 BY TssSizes DEF TablesInit
  <2>2. PICK n \in Nat : n = 104 OBVIOUS
  <2>3. DOMAIN tss = 1 .. n BY <2>1, <2>2, ZerosAre
  <2> QED BY <2>1, <2>2, <2>3 DEF TssOK
<1>5. GdtOK BY DEF TablesInit, GdtOK
<1>6. RunOK BY DEF TablesInit, RunOK
<1> QED BY <1>1, <1>2, <1>3, <1>4, <1>5, <1>6 DEF TablesInv

\* The vectors that are presented once the PICs were told theirs.
LEMMA PresentedAre ==
  ASSUME SetOK, PicsOK, place = 15, NEW v \in Presented
  PROVE  v \in 32 .. 255
<1>1. chip["master"].base = 32 /\ chip["slave"].base = 40 BY DEF PicsOK, PicsAre
<1>2. ASSUME NEW n \in 0 .. 15 PROVE PicVector(n) \in 32 .. 255 BY <1>1 DEF PicVector
<1>3. CASE v \in {33, 255} BY <1>3
<1>4. CASE v \notin {33, 255}
  <2>1. PICK n \in raised : v = PicVector(n) BY <1>4 DEF Presented
  <2>2. n \in 0 .. 15 BY DEF SetOK
  <2> QED BY <1>2, <2>1, <2>2
<1> QED BY <1>3, <1>4

\* What the processor does with a gate that was set, and with one that was not.
LEMMA GateLeads ==
  ASSUME Described(gdt), TssOK, place = 15
  PROVE  /\ Present(Gate(Handler)) /\ Target(Gate(Handler)) = Handler /\ Stack(Gate(Handler)) = StackTop
         /\ ~(Gate(Handler)[6] % 16 = 15) /\ ~Present(Zeros(16))
<1>1. Handler \in Addresses BY InterruptTablesAssumption
<1>2. PICK g : g = Gate(Handler) OBVIOUS
<1>3. g[3] = 8 /\ g[4] = 0 /\ g[5] = 1 /\ g[6] = 142 /\ Target(g) = Handler BY <1>1, <1>2, GateIs
<1>4. Present(g)
  <2>1. 8 + 256 * 0 = 8 /\ 8 + 6 = 14 /\ 8 + 7 = 15 /\ 152 \div 8 = 19 /\ (47 \div 32) % 2 = 1 /\ 142 >= 128 OBVIOUS
  <2>2. g[3] + 256 * g[4] = 8 BY <1>3, <2>1
  <2>3. g[6] >= 128 BY <1>3, <2>1
  <2>4. gdt[8 + 6] \div 8 = 19 /\ (gdt[8 + 7] \div 32) % 2 = 1 BY <2>1 DEF Described
  <2> QED BY <2>2, <2>3, <2>4 DEF Present
<1>5. Stack(g) = StackTop
  <2>1. 36 + 8 * (g[5] - 1) = 36 BY <1>3
  <2>2. TaskBase = TssAt /\ 36 + 7 <= TaskLimit BY DEF Described, TaskBase, TaskLimit
  <2>3. Stack(g) = SubSeq(tss, 36 + 1, 36 + 8) BY <2>1, <2>2 DEF Stack
  <2> QED BY <2>3 DEF TssOK
<1>6. ~(g[6] % 16 = 15) BY <1>3
<1>7. ~Present(Zeros(16))
  <2>1. Zeros(16)[6] = 0 BY DEF Zeros
  <2> QED BY <2>1 DEF Present
<1> QED BY <1>2, <1>3, <1>4, <1>5, <1>6, <1>7

\* A word to a PIC.
LEMMA DisableKeepsTables ==
  ASSUME TablesInv, disable_pic
  PROVE  TablesInv'
<1>1. place \in 1 .. 10 /\ place' = place + 1 /\ UNCHANGED <<raised, flag, running, entered, frameLost, gate, gdt, idt, tss>>
  BY TablePlaces DEF TablesInv, SetOK, disable_pic, Step, cpuVars
<1>2. PicsOK' BY WriteKeepsPics DEF TablesInv, SetOK
<1>3. SetOK' BY <1>1 DEF TablesInv, SetOK
<1>4. GatesOK' BY <1>1 DEF TablesInv, GatesOK
<1>5. TssOK' BY <1>1 DEF TablesInv, TssOK
<1>6. GdtOK' BY <1>1 DEF TablesInv, GdtOK
<1>7. RunOK' BY <1>1 DEF TablesInv, RunOK
<1> QED BY <1>2, <1>3, <1>4, <1>5, <1>6, <1>7 DEF TablesInv

\* The PICs are left alone, and what they were told before place 5 is not lost.
LEMMA PicsLeft ==
  ASSUME PicsOK, place \in 11 .. 15, place' \in 11 .. 15, chip' = chip, place' = 11 => place = 11
  PROVE  PicsOK'
BY DEF PicsOK, PicsAre

\* The stack.
LEMMA StackKeepsTables ==
  ASSUME TablesInv, SetStack
  PROVE  TablesInv'
<1>1. place = 11 /\ place' = 12 /\ UNCHANGED <<raised, flag, running, entered, frameLost, gate, gdt, idt, chip>>
  BY TablePlaces DEF SetStack, Step, cpuVars
<1>2. PicsOK' BY <1>1, PicsLeft DEF TablesInv
<1>3. SetOK' BY <1>1 DEF TablesInv, SetOK
<1>4. GatesOK' BY <1>1 DEF TablesInv, GatesOK
<1>5. TssOK'
  <2>1. PICK b : b = Over(tss, 0, Zeros(TssSize)) OBVIOUS
  <2>2. DOMAIN b = 1 .. 104 BY <2>1 DEF TablesInv, TssOK, Over
  <2>3. tss' = tss_set_ist(b, 1, StackTop) BY <2>1 DEF SetStack
  <2>4. DOMAIN tss' = 1 .. 104 BY <2>2, <2>3 DEF tss_set_ist, Over
  <2>5. SubSeq(tss', 37, 44) = StackTop BY <2>2, <2>3, StackIsSet
  <2> QED BY <2>4, <2>5 DEF TssOK
<1>6. GdtOK' BY <1>1 DEF TablesInv, GdtOK
<1>7. RunOK' BY <1>1 DEF TablesInv, RunOK
<1> QED BY <1>2, <1>3, <1>4, <1>5, <1>6, <1>7 DEF TablesInv

\* A gate.
LEMMA GateKeepsTables ==
  ASSUME TablesInv, SetGate
  PROVE  TablesInv'
<1>1. /\ place = 12 /\ place' = (IF gate = 255 THEN 13 ELSE 12) /\ gate' = gate + 1 /\ gate \in 32 .. 255
      /\ UNCHANGED <<raised, flag, running, entered, frameLost, gdt, tss, chip>>
  BY TablePlaces DEF SetGate, cpuVars, TablesInv, GatesOK
<1>2. PicsOK' BY <1>1, PicsLeft DEF TablesInv
<1>3. SetOK' BY <1>1 DEF TablesInv, SetOK
<1>4. GatesOK'
  <2>1. PICK g, z : g = Gate(Handler) /\ z = Zeros(16) OBVIOUS
  <2>2. idt = [v \in 0 .. 255 |-> IF v \in 32 .. gate - 1 THEN g ELSE z] BY <2>1 DEF TablesInv, GatesOK
  <2>3. idt' = [idt EXCEPT ![gate] = g] BY <2>1 DEF SetGate
  <2>4. idt' = [v \in 0 .. 255 |-> IF v \in 32 .. gate + 1 - 1 THEN g ELSE z]
    <3>1. DOMAIN idt' = 0 .. 255 /\ idt' = [v \in 0 .. 255 |-> IF v = gate THEN g ELSE idt[v]] BY <2>2, <2>3
    <3>2. ASSUME NEW v \in 0 .. 255
          PROVE  (IF v = gate THEN g ELSE idt[v]) = IF v \in 32 .. gate + 1 - 1 THEN g ELSE z
      BY <1>1, <2>2
    <3> QED BY <3>1, <3>2
  <2> QED BY <1>1, <2>1, <2>4 DEF GatesOK
<1>5. TssOK' BY <1>1 DEF TablesInv, TssOK
<1>6. GdtOK' BY <1>1 DEF TablesInv, GdtOK
<1>7. RunOK' BY <1>1 DEF TablesInv, RunOK
<1> QED BY <1>2, <1>3, <1>4, <1>5, <1>6, <1>7 DEF TablesInv

\* The task.
LEMMA TaskKeepsTables ==
  ASSUME TablesInv, SetTask
  PROVE  TablesInv'
<1>1. place = 13 /\ place' = 14 /\ UNCHANGED <<raised, flag, running, entered, frameLost, gate, idt, tss, chip>>
  BY TablePlaces DEF SetTask, Step, cpuVars
<1>2. PicsOK' BY <1>1, PicsLeft DEF TablesInv
<1>3. SetOK' BY <1>1 DEF TablesInv, SetOK
<1>4. GatesOK' BY <1>1 DEF TablesInv, GatesOK
<1>5. TssOK' BY <1>1 DEF TablesInv, TssOK
<1>6. GdtOK'
  <2>1. gdt' = Over(Gdt, 32, TssDescriptor(TssAt, 103)) BY <1>1, TssSizes DEF SetTask, TablesInv, GdtOK
  <2>2. Described(gdt') BY <2>1, TaskIsDescribed
  <2> QED BY <1>1, <2>2 DEF GdtOK
<1>7. RunOK' BY <1>1 DEF TablesInv, RunOK
<1> QED BY <1>2, <1>3, <1>4, <1>5, <1>6, <1>7 DEF TablesInv

\* sti.
LEMMA EnableKeepsTables ==
  ASSUME TablesInv, Enable
  PROVE  TablesInv'
<1>1. /\ place = 14 /\ place' = 15 /\ flag' = TRUE
      /\ UNCHANGED <<raised, running, entered, frameLost, gate, gdt, idt, tss, chip>>
  BY TablePlaces DEF Enable
<1>2. PicsOK' BY <1>1, PicsLeft DEF TablesInv
<1>3. SetOK' BY <1>1 DEF TablesInv, SetOK
<1>4. GatesOK' BY <1>1 DEF TablesInv, GatesOK
<1>5. TssOK' BY <1>1 DEF TablesInv, TssOK
<1>6. GdtOK' BY <1>1 DEF TablesInv, GdtOK
<1>7. RunOK' BY <1>1 DEF TablesInv, RunOK
<1> QED BY <1>2, <1>3, <1>4, <1>5, <1>6, <1>7 DEF TablesInv

\* The tables are as they were, and so is the place.
LEMMA TablesLeft ==
  ASSUME TablesInv, UNCHANGED <<setVars, chip>>
  PROVE  PicsOK' /\ GatesOK' /\ TssOK' /\ GdtOK'
<1>1. UNCHANGED <<place, gate, gdt, idt, tss, chip>> BY DEF setVars
<1>2. PicsOK' BY <1>1 DEF TablesInv, PicsOK
<1>3. GatesOK' BY <1>1 DEF TablesInv, GatesOK
<1>4. TssOK' BY <1>1 DEF TablesInv, TssOK
<1>5. GdtOK' BY <1>1 DEF TablesInv, GdtOK
<1> QED BY <1>2, <1>3, <1>4, <1>5

\* A device raises a line.
LEMMA RaiseKeepsTables ==
  ASSUME TablesInv, NEW n \in Lines, Raise(n)
  PROVE  TablesInv'
<1>1. PicsOK' /\ GatesOK' /\ TssOK' /\ GdtOK' BY TablesLeft DEF Raise
<1>2. UNCHANGED <<place, flag, running, entered, frameLost>> /\ raised' = raised \cup {n} BY DEF Raise, setVars, cpuVars
<1>3. n \in 0 .. 15 BY InterruptTablesAssumption
<1>4. SetOK' BY <1>2, <1>3 DEF TablesInv, SetOK
<1>5. RunOK' BY <1>2 DEF TablesInv, RunOK
<1> QED BY <1>1, <1>4, <1>5 DEF TablesInv

\* An interrupt.
LEMMA InterruptKeepsTables ==
  ASSUME TablesInv, NEW v \in 0 .. 255, Interrupted(v)
  PROVE  TablesInv'
<1>1. PicsOK' /\ GatesOK' /\ TssOK' /\ GdtOK' BY TablesLeft DEF Interrupted
<1>2. flag /\ v \in Presented /\ place' = place /\ raised' \in SUBSET raised BY DEF Interrupted, setVars
<1>3. place = 15 /\ running = "main" BY <1>2 DEF TablesInv, RunOK
<1>4. SetOK' BY <1>2 DEF TablesInv, SetOK
<1>5. v \in 32 .. 255 BY <1>2, <1>3, PresentedAre DEF TablesInv
<1>6. PICK g : g = Gate(Handler) OBVIOUS
<1>7. idt[v] = g
  <2>1. gate = 256 /\ idt = [i \in 0 .. 255 |-> IF i \in 32 .. gate - 1 THEN g ELSE Zeros(16)]
    BY <1>3, <1>6 DEF TablesInv, GatesOK
  <2> QED BY <1>5, <2>1
<1>8. Present(g) /\ Target(g) = Handler /\ Stack(g) = StackTop /\ ~(g[6] % 16 = 15)
  BY <1>3, <1>6, GateLeads DEF TablesInv, GdtOK
<1>9. /\ entered' = entered \cup {[target |-> Target(g), stack |-> Stack(g)]}
      /\ frameLost' = (frameLost \/ running = "handler")
      /\ running' = "handler" /\ flag' = (g[6] % 16 = 15)
  BY <1>7, <1>8 DEF Interrupted
<1>10. frameLost' = FALSE
  <2>1. frameLost = FALSE BY DEF TablesInv, RunOK
  <2> QED BY <1>3, <1>9, <2>1
<1>11. flag' = FALSE BY <1>8, <1>9
<1>12. entered' \subseteq {[target |-> Handler, stack |-> StackTop]} BY <1>8, <1>9 DEF TablesInv, RunOK
<1>13. RunOK' BY <1>2, <1>3, <1>9, <1>10, <1>11, <1>12 DEF RunOK
<1> QED BY <1>1, <1>4, <1>13 DEF TablesInv

\* The handler returns.
LEMMA ResumedKeepsTables ==
  ASSUME TablesInv, Resumed
  PROVE  TablesInv'
<1>1. PicsOK' /\ GatesOK' /\ TssOK' /\ GdtOK' BY TablesLeft DEF Resumed
<1>2. running = "handler" /\ running' = "main" /\ flag' = TRUE /\ UNCHANGED <<place, raised, entered, frameLost>>
  BY DEF Resumed, setVars
<1>3. SetOK' BY <1>2 DEF TablesInv, SetOK
<1>4. RunOK' BY <1>2 DEF TablesInv, RunOK
<1> QED BY <1>1, <1>3, <1>4 DEF TablesInv

\* Every step keeps the invariant.
LEMMA TablesStep == TablesInv /\ [TablesNext]_tableVars => TablesInv'
<1> SUFFICES ASSUME TablesInv, [TablesNext]_tableVars PROVE TablesInv' OBVIOUS
<1>1. CASE disable_pic BY <1>1, DisableKeepsTables
<1>2. CASE SetStack BY <1>2, StackKeepsTables
<1>3. CASE SetGate BY <1>3, GateKeepsTables
<1>4. CASE SetTask BY <1>4, TaskKeepsTables
<1>5. CASE Enable BY <1>5, EnableKeepsTables
<1>6. CASE \E n \in Lines : Raise(n) BY <1>6, RaiseKeepsTables
<1>7. CASE \E v \in 0 .. 255 : Interrupted(v) BY <1>7, InterruptKeepsTables
<1>8. CASE Resumed BY <1>8, ResumedKeepsTables
<1>9. CASE UNCHANGED tableVars
  <2>1. UNCHANGED <<setVars, chip>> /\ UNCHANGED <<place, raised, flag, running, entered, frameLost>>
    BY <1>9 DEF tableVars, setVars
  <2>2. PicsOK' /\ GatesOK' /\ TssOK' /\ GdtOK' BY <2>1, TablesLeft
  <2>3. SetOK' BY <2>1 DEF TablesInv, SetOK
  <2>4. RunOK' BY <2>1 DEF TablesInv, RunOK
  <2> QED BY <2>2, <2>3, <2>4 DEF TablesInv
<1> QED BY <1>1, <1>2, <1>3, <1>4, <1>5, <1>6, <1>7, <1>8, <1>9 DEF TablesNext

\* The invariant implies the property.
LEMMA TablesAreRight == TablesInv => TablesRight
<1> SUFFICES ASSUME TablesInv PROVE TablesRight OBVIOUS
<1>1. entered \subseteq {[target |-> Handler, stack |-> StackTop]} /\ ~frameLost /\ running # "dead"
  BY DEF TablesInv, RunOK
<1>2. ASSUME flag PROVE TaskLimit + 1 = 104 /\ \A v \in 0 .. 255 : Present(idt[v]) <=> v >= 32
  <2>1. place = 15 BY <1>2 DEF TablesInv, RunOK
  <2>2. Described(gdt) BY <2>1 DEF TablesInv, GdtOK
  <2>3. PICK g, z : g = Gate(Handler) /\ z = Zeros(16) OBVIOUS
  <2>4. Present(g) /\ ~Present(z) BY <2>1, <2>2, <2>3, GateLeads DEF TablesInv
  <2>5. gate = 256 /\ idt = [i \in 0 .. 255 |-> IF i \in 32 .. gate - 1 THEN g ELSE z]
    BY <2>1, <2>3 DEF TablesInv, GatesOK
  <2>6. ASSUME NEW v \in 0 .. 255 PROVE Present(idt[v]) <=> v >= 32
    <3>1. idt[v] = IF v >= 32 THEN g ELSE z BY <2>5
    <3> QED BY <2>4, <3>1
  <2>7. TaskLimit + 1 = 104 BY <2>2 DEF Described, TaskLimit
  <2> QED BY <2>6, <2>7
<1> QED BY <1>1, <1>2 DEF TablesRight

\* TablesRight, for every address of the handler, of the task's structure and of its
\* stack, whatever the PICs masked before, and whichever lines come up at any time
\* (platform.cpp:41-56, 75-132): an interrupt finds the handler and the end of the stack,
\* none is put over the frame of another, and none finds a gate that was not set.
THEOREM TablesStayRight == Spec => []TablesRight
<1>1. Init => TablesInv BY TablesStart DEF Init
<1>2. TablesInv /\ [Next]_startUpVars => TablesInv'
  <2>1. [Next]_startUpVars => [TablesNext]_tableVars BY DEF Next, OnMedium, OnPc, OnTables, OnRpi, startUpVars
  <2> QED BY <2>1, TablesStep
<1> QED BY <1>1, <1>2, TablesAreRight, PTL DEF Spec
=============================================================================
