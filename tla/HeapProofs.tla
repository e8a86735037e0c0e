----------------------------- MODULE HeapProofs -----------------------------
EXTENDS Heap, TLAPS

LEMMA RoundUpFacts ==
  ASSUME NEW n \in Nat
  PROVE  /\ RoundUp(n) \in Nat
         /\ RoundUp(n) % 16 = 0
         /\ RoundUp(n) >= n
         /\ \A m \in Nat : m % 16 = 0 /\ m >= n => m >= RoundUp(n)
  BY DEF RoundUp

LEMMA HeaderFacts ==
  /\ Base \in HeaderAddr
  /\ NULL \notin HeaderAddr
  /\ End \in Nat /\ End % 16 = 0
  /\ \A a \in HeaderAddr : a \in Nat /\ a % 16 = 0 /\ a >= Base /\ a + EntrySize <= End
  /\ \A a \in Nat : a % 16 = 0 /\ a >= Base /\ a + EntrySize <= End => a \in HeaderAddr
  BY HeapAssumption DEF HeaderAddr, Base, End, NULL

LEMMA InitIInv == Init => IInv
<1> SUFFICES ASSUME Init PROVE IInv
  OBVIOUS
<1>1. TypeOK
  BY HeaderFacts DEF Init, TypeOK
<1>2. Held = {}
  BY DEF Held, Init
<1> QED
  BY <1>1, <1>2, HeaderFacts DEF Init, IInv, BootOK, ListOK, Ordered, HeldOK,
     LastUsedLive, CallOK, DiagnosticsSilent, NULL

\* What IInv says of one header, in the form the steps below use it.
LEMMA EntryFacts ==
  ASSUME IInv, NEW a \in entries
  PROVE  /\ a \in HeaderAddr /\ a \in Nat /\ a % 16 = 0 /\ a >= Base
         /\ length[a] \in Nat /\ length[a] % 16 = 0
         /\ After(a) = a + EntrySize + length[a]
         /\ After(a) \in Nat /\ After(a) % 16 = 0 /\ After(a) <= End
         /\ next[a] \in entries /\ prev[a] \in entries
         /\ prev[next[a]] = a /\ next[prev[a]] = a
         /\ next[a] = IF After(a) = End THEN Base ELSE After(a)
         /\ \A b \in entries : a < b => After(a) <= b
  BY HeaderFacts, HeapAssumption DEF IInv, TypeOK, ListOK, Ordered, Linked, After

(***************************************************************************)
(* Splitting: the tail is a header position inside the block, that was no  *)
(* header before, and the lengths of both parts are right.                 *)
(***************************************************************************)
LEMMA TailFacts ==
  ASSUME IInv, NEW a \in entries, NEW n \in Nat, SplitWorthwhile(a, n),
         NEW tail, tail = a + RoundUp(n) + EntrySize
  PROVE  /\ tail \in HeaderAddr /\ tail \notin entries
         /\ tail \in Nat /\ tail % 16 = 0
         /\ a < tail /\ tail + EntrySize <= After(a)
         /\ tail - a - EntrySize = RoundUp(n)
         /\ length[a] - (tail - a) \in Nat
         /\ (length[a] - (tail - a)) % 16 = 0
         /\ tail + EntrySize + (length[a] - (tail - a)) = After(a)
<1> DEFINE r == RoundUp(n)
           l == length[a]
           room == length[a] - EntrySize
<1>a. /\ a \in Nat /\ a % 16 = 0 /\ a >= Base
      /\ l \in Nat /\ l % 16 = 0
      /\ After(a) = a + EntrySize + l /\ After(a) <= End
  BY EntryFacts
<1>b. EntrySize \in Nat /\ EntrySize % 16 = 0 /\ EntrySize > 0
  BY HeapAssumption
<1>c. r \in Nat /\ r % 16 = 0 /\ r >= n /\ (\A m \in Nat : m % 16 = 0 /\ m >= n => m >= r)
  BY RoundUpFacts
<1>1. r <= room
  <2>1. room \in Nat /\ room % 16 = 0 /\ room >= n
    BY <1>a, <1>b DEF SplitWorthwhile
  <2> QED
    BY <2>1, <1>c
<1>2. /\ tail \in Nat /\ tail % 16 = 0 /\ a < tail
      /\ tail + EntrySize <= After(a)
      /\ tail - a - EntrySize = RoundUp(n)
      /\ length[a] - (tail - a) \in Nat
      /\ (length[a] - (tail - a)) % 16 = 0
      /\ tail + EntrySize + (length[a] - (tail - a)) = After(a)
  BY <1>1, <1>a, <1>b, <1>c
<1>3. tail \in HeaderAddr
  BY <1>2, <1>a, <1>b, HeaderFacts
<1>4. tail \notin entries
  BY <1>2, <1>b, EntryFacts
<1> QED
  BY <1>2, <1>3, <1>4

LEMMA TakeSplitIInv ==
  ASSUME IInv, Take, SplitWorthwhile(cur, size)
  PROVE  IInv'
<1> DEFINE tail == cur + RoundUp(size) + EntrySize
<1> USE DEF After
<1>1. /\ cur \in entries /\ free[cur] = 1 /\ length[cur] >= size /\ size \in Nat
      /\ cur \in HeaderAddr /\ entries # {} /\ pc = "take"
  BY HeaderFacts DEF IInv, TypeOK, CallOK, Take, Fits
<1>2. Split(cur, size)
  BY DEF Take
<1>3. /\ tail \in HeaderAddr /\ tail \notin entries
      /\ tail \in Nat /\ tail % 16 = 0
      /\ cur < tail /\ tail + EntrySize <= After(cur)
      /\ tail - cur - EntrySize = RoundUp(size)
      /\ length[cur] - (tail - cur) \in Nat
      /\ (length[cur] - (tail - cur)) % 16 = 0
      /\ tail + EntrySize + (length[cur] - (tail - cur)) = After(cur)
  BY <1>1, TailFacts
<1>4. RoundUp(size) \in Nat /\ RoundUp(size) % 16 = 0 /\ RoundUp(size) >= size
  BY <1>1, RoundUpFacts
<1>5. /\ next' = [next EXCEPT ![tail] = next[cur], ![cur] = tail]
      /\ prev' = [prev EXCEPT ![tail] = cur, ![next[cur]] = tail]
      /\ length' = [length EXCEPT ![cur] = tail - cur - EntrySize,
                                  ![tail] = length[cur] - (tail - cur)]
      /\ free' = [free EXCEPT ![cur] = 0, ![tail] = 1]
      /\ entries' = entries \cup {tail}
      /\ lastUsed' = tail
      /\ held' = [held EXCEPT ![cur] = size]
  BY <1>2 DEF Split, Take
<1>6. next[cur] \in entries /\ next[cur] \in HeaderAddr
  BY <1>1, EntryFacts
<1>7. TypeOK'
  <2>1. /\ next' \in [HeaderAddr -> HeaderAddr \cup {NULL}]
        /\ prev' \in [HeaderAddr -> HeaderAddr \cup {NULL}]
    BY <1>1, <1>3, <1>5, <1>6 DEF IInv, TypeOK
  <2>2. /\ length' \in [HeaderAddr -> Nat]
        /\ free' \in [HeaderAddr -> {0, 1}]
    BY <1>1, <1>3, <1>5, <1>4 DEF IInv, TypeOK
  <2>3. /\ lastUsed' \in HeaderAddr
        /\ entries' \in SUBSET HeaderAddr
        /\ held' \in [HeaderAddr -> Nat \cup {NotHeld}]
    BY <1>1, <1>3, <1>5 DEF IInv, TypeOK
  <2>4. /\ pc' \in {"idle", "copy"}
        /\ cur' \in HeaderAddr \cup {NULL}
        /\ size' \in Nat
        /\ old' \in HeaderAddr \cup {NULL}
    BY DEF IInv, TypeOK, Take, Return
  <2> QED
    BY <2>1, <2>2, <2>3, <2>4 DEF TypeOK
<1>8. Held' = Held \cup {cur} /\ cur \notin Held
  BY <1>1, <1>5 DEF IInv, TypeOK, Held, HeldOK, NotHeld
<1>9. BootOK'
  BY <1>1, <1>5 DEF IInv, BootOK
<1>n. next[cur] # tail /\ tail # cur /\ End \in Nat /\ EntrySize \in Nat /\ EntrySize > 0
  BY <1>3, <1>6, <1>1, HeaderFacts, HeapAssumption
<1>m. /\ next \in [HeaderAddr -> HeaderAddr \cup {NULL}]
      /\ prev \in [HeaderAddr -> HeaderAddr \cup {NULL}]
      /\ length \in [HeaderAddr -> Nat]
      /\ free \in [HeaderAddr -> {0, 1}]
      /\ entries \in SUBSET HeaderAddr
  BY DEF IInv, TypeOK
<1>c. /\ next'[tail] = next[cur] /\ prev'[tail] = cur /\ free'[tail] = 1
      /\ length'[tail] = length[cur] - (tail - cur)
      /\ next'[cur] = tail /\ length'[cur] = RoundUp(size) /\ free'[cur] = 0
      /\ prev'[next[cur]] = tail
  BY <1>1, <1>3, <1>5, <1>6, <1>n, <1>m
<1>o. ASSUME NEW x \in entries, x # cur
      PROVE  /\ next'[x] = next[x] /\ length'[x] = length[x] /\ free'[x] = free[x]
             /\ x # next[cur] => prev'[x] = prev[x]
  BY <1>1, <1>3, <1>5, <1>n, <1>m, <1>o
<1>10. ListOK'
  <2> SUFFICES ASSUME NEW x \in entries'
               PROVE  Linked(x)' /\ (length[x] % 16 = 0)'
    BY DEF ListOK
  <2>1. CASE x = tail
    BY <2>1, <1>c, <1>3, <1>5, <1>1, EntryFacts DEF Linked
  <2>2. CASE x = cur
    <3>1. /\ next[cur] = cur => prev'[cur] = tail
          /\ next[cur] # cur => /\ prev[cur] \in entries /\ prev[cur] # cur
                                /\ prev'[cur] = prev[cur] /\ next'[prev[cur]] = cur
      BY <1>1, <1>c, <1>o, <1>5, <1>m, <1>3, EntryFacts
    <3> QED
      BY <3>1, <2>2, <1>c, <1>3, <1>4, <1>5, <1>1, <1>n, EntryFacts DEF Linked
  <2>3. CASE x \in entries /\ x # cur
    <3>1. /\ next'[x] = next[x] /\ length'[x] = length[x]
          /\ next[x] \in entries /\ prev[x] \in entries /\ next[prev[x]] = x /\ prev[next[x]] = x
      BY <2>3, <1>o, EntryFacts
    <3>2. prev'[next[x]] = x
      <4>1. next[x] # next[cur]
        BY <2>3, <1>1, EntryFacts
      <4> QED
        BY <4>1, <3>1, <1>c, <1>o, <1>1, <1>5, <1>m, <1>3
    <3>3. prev'[x] \in entries' /\ next'[prev'[x]] = x
      <4>1. CASE x = next[cur]
        BY <4>1, <1>c, <1>5
      <4>2. CASE x # next[cur]
        <5>1. prev[x] # cur
          BY <4>2, <3>1
        <5>2. prev'[x] = prev[x]
          BY <4>2, <2>3, <1>o
        <5>3. next'[prev[x]] = next[prev[x]]
          BY <5>1, <3>1, <1>o
        <5> QED
          BY <5>2, <5>3, <3>1, <1>5
      <4> QED
        BY <4>1, <4>2
    <3> QED
      BY <3>1, <3>2, <3>3, <2>3, <1>5, EntryFacts DEF Linked
  <2> QED
    BY <2>1, <2>2, <2>3, <1>5
<1>11. Ordered'
  <2> SUFFICES ASSUME NEW x \in entries', NEW y \in entries', x < y
               PROVE  x + EntrySize + length'[x] <= y
    BY DEF Ordered
  <2>a. /\ cur \in Nat /\ length[cur] \in Nat /\ After(cur) \in Nat
        /\ \A z \in entries : z \in Nat /\ (cur < z => After(cur) <= z)
    BY <1>1, EntryFacts
  <2>b. y \in entries \/ y = tail
    BY <1>5
  <2>1. CASE x = tail
    BY <2>1, <2>a, <2>b, <1>c, <1>3
  <2>2. CASE x = cur
    BY <2>2, <2>a, <2>b, <1>c, <1>3, <1>4, <1>n
  <2>3. CASE x \in entries /\ x # cur
    <3>1. /\ x \in Nat /\ length[x] \in Nat /\ length'[x] = length[x]
          /\ \A z \in entries : x < z => x + EntrySize + length[x] <= z
      BY <2>3, <1>o, EntryFacts
    <3>2. x < cur \/ cur + EntrySize + length[cur] <= x
      BY <2>3, <3>1, <2>a
    <3> QED
      BY <3>1, <3>2, <2>a, <2>b, <1>1, <1>3, <1>n
  <2> QED
    BY <2>1, <2>2, <2>3, <1>5
<1>12. HeldOK'
  <2> SUFFICES ASSUME NEW x \in Held'
               PROVE  x \in entries' /\ free'[x] = 0 /\ held'[x] <= length'[x]
    BY DEF HeldOK
  <2>1. CASE x = cur
    BY <2>1, <1>1, <1>5, <1>c, <1>4 DEF IInv, TypeOK
  <2>2. CASE x # cur
    BY <2>2, <1>8, <1>5, <1>o, <1>3 DEF IInv, TypeOK, HeldOK
  <2> QED
    BY <2>1, <2>2
<1>13. LastUsedLive'
  BY <1>5 DEF LastUsedLive
<1>14. CallOK'
  <2>1. CASE old = NULL
    BY <2>1 DEF Take, Return, CallOK, NULL
  <2>2. CASE old # NULL
    <3>1. pc' = "copy" /\ cur' = cur /\ old' = old
      BY <2>2 DEF Take
    <3>2. old \in Held /\ length[old] <= size /\ old # cur /\ old \in entries
      BY <2>2, <1>1, <1>8 DEF IInv, CallOK, HeldOK
    <3> QED
      BY <3>1, <3>2, <2>2, <1>1, <1>4, <1>5, <1>c, <1>o, <1>8 DEF CallOK, Take
  <2> QED
    BY <2>1, <2>2
<1>15. DiagnosticsSilent'
  BY DEF Take, Return, DiagnosticsSilent
<1> QED
  BY <1>7, <1>9, <1>10, <1>11, <1>12, <1>13, <1>14, <1>15 DEF IInv

LEMMA TakeWholeIInv ==
  ASSUME IInv, Take, ~SplitWorthwhile(cur, size)
  PROVE  IInv'
<1>1. /\ cur \in entries /\ free[cur] = 1 /\ length[cur] >= size /\ size \in Nat
      /\ cur \in HeaderAddr /\ entries # {} /\ pc = "take"
  BY HeaderFacts DEF IInv, TypeOK, CallOK, Take, Fits
<1>2. /\ free' = [free EXCEPT ![cur] = 0]
      /\ held' = [held EXCEPT ![cur] = size]
      /\ UNCHANGED <<next, prev, length, lastUsed, entries>>
  BY DEF Take
<1>3. TypeOK'
  <2>1. free' \in [HeaderAddr -> {0, 1}] /\ held' \in [HeaderAddr -> Nat \cup {NotHeld}]
    BY <1>1, <1>2 DEF IInv, TypeOK
  <2>2. /\ pc' \in {"idle", "copy"}
        /\ cur' \in HeaderAddr \cup {NULL}
        /\ size' \in Nat
        /\ old' \in HeaderAddr \cup {NULL}
    BY DEF IInv, TypeOK, Take, Return
  <2> QED
    BY <2>1, <2>2, <1>2 DEF IInv, TypeOK
<1>4. Held' = Held \cup {cur} /\ cur \notin Held
  BY <1>1, <1>2 DEF IInv, TypeOK, Held, HeldOK, NotHeld
<1>5. BootOK' /\ ListOK' /\ Ordered' /\ LastUsedLive'
  BY <1>1, <1>2 DEF IInv, BootOK, ListOK, Ordered, LastUsedLive, Linked, After
<1>6. HeldOK'
  BY <1>1, <1>2, <1>4 DEF IInv, TypeOK, HeldOK
<1>7. CallOK'
  <2>1. CASE old = NULL
    BY <2>1 DEF Take, Return, CallOK, NULL
  <2>2. CASE old # NULL
    <3>1. pc' = "copy" /\ cur' = cur /\ old' = old /\ size' = size
      BY <2>2 DEF Take
    <3>2. old \in Held /\ length[old] <= size /\ old # cur
      BY <2>2, <1>1, <1>4 DEF IInv, CallOK
    <3> QED
      BY <3>1, <3>2, <2>2, <1>1, <1>2, <1>4 DEF CallOK
  <2> QED
    BY <2>1, <2>2
<1>8. DiagnosticsSilent'
  BY DEF Take, Return, DiagnosticsSilent
<1> QED
  BY <1>3, <1>5, <1>6, <1>7, <1>8 DEF IInv

(***************************************************************************)
(* Entering malloc: on the first call the reserve becomes one block.       *)
(***************************************************************************)
LEMMA EnterMallocIInv ==
  ASSUME IInv, NEW n \in Nat, NEW p, pc = "idle", EnterMalloc(n, p), UNCHANGED held,
         p = NULL \/ (p \in Held /\ length[p] <= n)
  PROVE  IInv'
<1>1. /\ lastUsed \in HeaderAddr /\ lastUsed \in Nat
      /\ cur' = lastUsed /\ size' = n /\ old' = p /\ pc' = "search" /\ lastUsed' = lastUsed
  BY HeaderFacts DEF IInv, TypeOK, EnterMalloc
<1>p. Held' = Held /\ p \in HeaderAddr \cup {NULL}
  BY DEF Held
<1>2. CASE prev[lastUsed] = NULL
  <2>1. entries = {} /\ lastUsed = Base /\ Held = {}
    <3>1. ASSUME entries # {} PROVE FALSE
      <4>1. lastUsed \in entries
        BY <3>1 DEF IInv, LastUsedLive
      <4>2. prev[lastUsed] \in HeaderAddr
        BY <4>1, EntryFacts DEF IInv, TypeOK
      <4> QED
        BY <4>2, <1>2, HeaderFacts
    <3> QED
      BY <3>1 DEF IInv, BootOK
  <2>2. /\ prev'   = [prev   EXCEPT ![Base] = Base]
        /\ next'   = [next   EXCEPT ![Base] = Base]
        /\ length' = [length EXCEPT ![Base] = ReserveLength]
        /\ free'   = [free   EXCEPT ![Base] = 1]
        /\ entries' = {Base}
    BY <2>1, <1>2 DEF EnterMalloc
  <2>3. /\ prev'[Base] = Base /\ next'[Base] = Base
        /\ length'[Base] = ReserveLength /\ free'[Base] = 1
    BY <2>2, HeaderFacts DEF IInv, TypeOK
  <2>4. TypeOK'
    BY <2>2, <1>1, <1>p, HeaderFacts, HeapAssumption DEF IInv, TypeOK
  <2>5. ListOK' /\ Ordered'
    BY <2>2, <2>3, HeapAssumption DEF ListOK, Ordered, Linked, After, End, Base
  <2>6. BootOK' /\ HeldOK' /\ LastUsedLive' /\ CallOK' /\ DiagnosticsSilent'
    BY <2>1, <2>2, <1>1, <1>p DEF BootOK, HeldOK, LastUsedLive, CallOK, DiagnosticsSilent
  <2> QED
    BY <2>4, <2>5, <2>6 DEF IInv
<1>3. CASE prev[lastUsed] # NULL
  <2>1. UNCHANGED <<prev, next, length, free, entries, held, lastUsed>> /\ entries # {}
    BY <1>3 DEF EnterMalloc, IInv, BootOK
  <2>2. TypeOK'
    BY <2>1, <1>1, <1>p DEF IInv, TypeOK
  <2>3. BootOK' /\ ListOK' /\ Ordered' /\ HeldOK'
    BY <2>1, <1>p DEF IInv, BootOK, ListOK, Ordered, Linked, After, HeldOK
  <2>4. LastUsedLive' /\ CallOK' /\ DiagnosticsSilent'
    BY <2>1, <1>1, <1>p DEF IInv, LastUsedLive, CallOK, DiagnosticsSilent
  <2> QED
    BY <2>2, <2>3, <2>4 DEF IInv
<1> QED
  BY <1>2, <1>3

\* Following next stays on the list; nothing but the locals changes.
LEMMA SearchIInv ==
  ASSUME IInv, SearchNext \/ SearchDone
  PROVE  IInv'
<1>1. /\ cur \in entries /\ next[cur] \in entries /\ next[cur] \in HeaderAddr
      /\ pc = "search" /\ entries # {}
  BY EntryFacts DEF IInv, TypeOK, CallOK, SearchNext, SearchDone
<1>2. /\ UNCHANGED <<next, prev, length, free, lastUsed, entries, held, size, old>>
      /\ Held' = Held
      /\ \/ pc' = "search" /\ cur' = next[cur]
         \/ pc' = "take" /\ cur' = cur /\ Fits(cur, size)
  BY <1>1 DEF SearchNext, SearchDone, mem, Held
<1>3. TypeOK'
  BY <1>1, <1>2 DEF IInv, TypeOK
<1>4. BootOK' /\ ListOK' /\ Ordered' /\ HeldOK'
  BY <1>1, <1>2 DEF IInv, BootOK, ListOK, Ordered, Linked, After, HeldOK
<1>5. LastUsedLive' /\ DiagnosticsSilent'
  BY <1>1, <1>2 DEF IInv, LastUsedLive, DiagnosticsSilent
<1>6. CallOK'
  BY <1>1, <1>2 DEF IInv, CallOK, Fits
<1> QED
  BY <1>3, <1>4, <1>5, <1>6 DEF IInv

(***************************************************************************)
(* Merging a block with the one that follows it leaves a well-formed list  *)
(* without the second header.                                              *)
(***************************************************************************)
LEMMA AbsorbFacts ==
  ASSUME IInv, NEW dst \in entries, NEW src \in entries,
         Adjacent(dst, src), Absorb(dst, src)
  PROVE  /\ entries' = entries \ {src} /\ dst \in entries' /\ Base \in entries'
         /\ next' \in [HeaderAddr -> HeaderAddr \cup {NULL}]
         /\ prev' \in [HeaderAddr -> HeaderAddr \cup {NULL}]
         /\ length' \in [HeaderAddr -> Nat]
         /\ \A x \in entries : x # dst => length'[x] = length[x]
         /\ ListOK' /\ Ordered'
<1> USE DEF After
<1>1. /\ dst \in HeaderAddr /\ src \in HeaderAddr /\ dst \in Nat /\ src \in Nat
      /\ length[dst] \in Nat /\ length[src] \in Nat
      /\ length[dst] % 16 = 0 /\ length[src] % 16 = 0
      /\ dst + EntrySize + length[dst] = src
      /\ src + EntrySize + length[src] <= End
      /\ next[src] \in entries /\ next[src] \in HeaderAddr /\ prev[src] \in entries
      /\ prev[next[src]] = src /\ next[prev[src]] = src
      /\ next[src] = IF After(src) = End THEN Base ELSE After(src)
      /\ prev[dst] \in entries /\ next[prev[dst]] = dst
      /\ dst >= Base
  BY EntryFacts DEF Adjacent
<1>2. /\ EntrySize \in Nat /\ EntrySize > 0 /\ EntrySize % 16 = 0
      /\ End \in Nat /\ Base \in Nat /\ Base \in entries
  BY HeapAssumption, HeaderFacts DEF IInv, BootOK
<1>3. dst < src /\ src # Base /\ src # dst /\ src < End
  BY <1>1, <1>2
<1>4. next[dst] = src /\ prev[src] = dst
  BY <1>1, <1>2, <1>3, EntryFacts
<1>5. /\ length' = [length EXCEPT ![dst] = @ + length[src] + EntrySize]
      /\ next'   = [next EXCEPT ![dst] = next[src]]
      /\ prev'   = [prev EXCEPT ![next[src]] = dst]
      /\ entries' = entries \ {src}
  BY DEF Absorb
<1>6. /\ next \in [HeaderAddr -> HeaderAddr \cup {NULL}]
      /\ prev \in [HeaderAddr -> HeaderAddr \cup {NULL}]
      /\ length \in [HeaderAddr -> Nat]
      /\ entries \subseteq HeaderAddr
  BY DEF IInv, TypeOK
<1>7. /\ next' \in [HeaderAddr -> HeaderAddr \cup {NULL}]
      /\ prev' \in [HeaderAddr -> HeaderAddr \cup {NULL}]
      /\ length' \in [HeaderAddr -> Nat]
  BY <1>1, <1>2, <1>5, <1>6
<1>8. next[src] # src
  BY <1>1, <1>2, <1>3
<1>9. /\ length'[dst] = length[dst] + length[src] + EntrySize
      /\ next'[dst] = next[src] /\ prev'[next[src]] = dst
  BY <1>1, <1>5, <1>6
<1>10. ASSUME NEW x \in entries
       PROVE  /\ x # dst => length'[x] = length[x] /\ next'[x] = next[x]
              /\ x # next[src] => prev'[x] = prev[x]
  BY <1>5, <1>6, <1>10
<1>11. ListOK'
  <2> SUFFICES ASSUME NEW x \in entries'
               PROVE  Linked(x)' /\ (length[x] % 16 = 0)'
    BY DEF ListOK
  <2>0. x \in entries /\ x # src /\ next[x] \in entries /\ prev[x] \in entries
        /\ prev[next[x]] = x /\ next[prev[x]] = x
    BY <1>5, EntryFacts
  <2>1. prev'[x] \in entries' /\ next'[prev'[x]] = x
    <3>1. CASE x = next[src]
      BY <3>1, <1>9, <1>3, <1>5
    <3>2. CASE x # next[src]
      <4>1. prev'[x] = prev[x] /\ prev[x] # src
        BY <3>2, <2>0, <1>10
      <4>2. prev[x] # dst
        BY <2>0, <1>4
      <4>3. next'[prev[x]] = next[prev[x]]
        BY <4>2, <2>0, <1>10
      <4> QED
        BY <4>1, <4>3, <2>0, <1>5
    <3> QED
      BY <3>1, <3>2
  <2>2. CASE x = dst
    <3>1. /\ next'[x] = next[src] /\ next'[x] \in entries' /\ prev'[next'[x]] = x
      BY <2>2, <1>9, <1>1, <1>8, <1>5
    <3>2. /\ length'[x] % 16 = 0
          /\ x + EntrySize + length'[x] = src + EntrySize + length[src]
      BY <2>2, <1>9, <1>1, <1>2
    <3> QED
      BY <2>1, <3>1, <3>2, <1>1, HeaderFacts DEF Linked, End, Base
  <2>3. CASE x # dst
    <3>1. /\ next'[x] = next[x] /\ length'[x] = length[x]
          /\ next[x] # src /\ next[x] # next[src]
      BY <2>3, <2>0, <1>1, <1>4, <1>10
    <3>2. prev'[next[x]] = x /\ next[x] \in entries'
      BY <3>1, <2>0, <1>10, <1>5
    <3>3. /\ length[x] % 16 = 0 /\ x + EntrySize + length[x] <= End
          /\ next[x] = IF x + EntrySize + length[x] = End THEN Base ELSE x + EntrySize + length[x]
      BY <2>0, EntryFacts
    <3> QED
      BY <2>1, <3>1, <3>2, <3>3 DEF Linked, End, Base
  <2> QED
    BY <2>2, <2>3
<1>12. Ordered'
  <2> SUFFICES ASSUME NEW x \in entries', NEW y \in entries', x < y
               PROVE  x + EntrySize + length'[x] <= y
    BY DEF Ordered
  <2>1. /\ x \in entries /\ y \in entries /\ y # src /\ y \in Nat
        /\ x + EntrySize + length[x] <= y
    BY <1>5, EntryFacts
  <2>2. src < y => src + EntrySize + length[src] <= y
    BY <2>1, EntryFacts
  <2>3. CASE x = dst
    BY <2>3, <2>1, <2>2, <1>1, <1>2, <1>9
  <2>4. CASE x # dst
    BY <2>4, <2>1, <1>10
  <2> QED
    BY <2>3, <2>4
<1> QED
  BY <1>2, <1>3, <1>5, <1>7, <1>10, <1>11, <1>12

\* free(p) of a block a client holds: mark it free and merge it with prev.
LEMMA EnterFreeIInv ==
  ASSUME IInv, NEW a \in Held, pc \in {"idle", "copy"}, EnterFree(a)
  PROVE  IInv'
<1>1. /\ a \in entries /\ a \in HeaderAddr /\ free[a] = 0
      /\ prev[a] \in entries /\ prev[a] \in HeaderAddr /\ entries # {}
      /\ TypeOK
  BY EntryFacts DEF IInv, HeldOK, TypeOK
<1>2. MarkFree(a)
  BY <1>1 DEF EnterFree, DiagnoseDoubleFree, DiagnoseCorruption
<1>3. /\ free' = [free EXCEPT ![a] = 1] /\ held' = [held EXCEPT ![a] = NotHeld]
      /\ pc' = "merge" /\ UNCHANGED <<lastUsed, size, old>>
  BY <1>2 DEF MarkFree
<1>4. Held' = Held \ {a}
  BY <1>1, <1>3 DEF Held, TypeOK, NotHeld
<1>5. free' \in [HeaderAddr -> {0, 1}] /\ held' \in [HeaderAddr -> Nat \cup {NotHeld}]
  BY <1>1, <1>3 DEF TypeOK
<1>6. \A b \in Held' : b \in entries /\ free[b] = 0 /\ free'[b] = 0
                       /\ held'[b] = held[b] /\ held[b] <= length[b] /\ b # a
  BY <1>1, <1>3, <1>4 DEF TypeOK, IInv, HeldOK
<1>7. CASE free'[prev[a]] = 1 /\ Adjacent(prev[a], a)
  <2>1. Absorb(prev[a], a) /\ cur' = prev[a]
    BY <1>7, <1>2 DEF MarkFree
  <2>2. /\ entries' = entries \ {a} /\ prev[a] \in entries' /\ Base \in entries'
        /\ next' \in [HeaderAddr -> HeaderAddr \cup {NULL}]
        /\ prev' \in [HeaderAddr -> HeaderAddr \cup {NULL}]
        /\ length' \in [HeaderAddr -> Nat]
        /\ \A x \in entries : x # prev[a] => length'[x] = length[x]
        /\ ListOK' /\ Ordered'
    BY <1>1, <1>7, <2>1, AbsorbFacts
  <2>3. TypeOK'
    BY <1>1, <1>3, <1>5, <2>1, <2>2 DEF TypeOK
  <2>4. HeldOK'
    BY <1>6, <1>7, <2>2 DEF HeldOK
  <2>5. BootOK' /\ LastUsedLive' /\ CallOK' /\ DiagnosticsSilent'
    BY <1>3, <1>7, <2>1, <2>2 DEF BootOK, LastUsedLive, CallOK, DiagnosticsSilent
  <2> QED
    BY <2>2, <2>3, <2>4, <2>5 DEF IInv
<1>8. CASE ~(free'[prev[a]] = 1 /\ Adjacent(prev[a], a))
  <2>1. cur' = a /\ UNCHANGED <<length, next, prev, entries>>
    BY <1>8, <1>2 DEF MarkFree
  <2>2. free'[a] = 1
    BY <1>1, <1>3 DEF TypeOK
  <2>3. TypeOK'
    BY <1>1, <1>3, <1>5, <2>1 DEF TypeOK
  <2>4. ListOK' /\ Ordered'
    BY <2>1 DEF IInv, ListOK, Ordered, Linked, After
  <2>5. HeldOK'
    BY <1>6, <2>1 DEF HeldOK
  <2>6. BootOK' /\ LastUsedLive' /\ CallOK' /\ DiagnosticsSilent'
    BY <1>1, <1>3, <2>1, <2>2 DEF IInv, BootOK, LastUsedLive, CallOK, DiagnosticsSilent
  <2> QED
    BY <2>3, <2>4, <2>5, <2>6 DEF IInv
<1> QED
  BY <1>7, <1>8

LEMMA MergeNextIInv ==
  ASSUME IInv, MergeNext
  PROVE  IInv'
<1>1. /\ cur \in entries /\ cur \in HeaderAddr /\ free[cur] = 1
      /\ next[cur] \in entries /\ entries # {} /\ TypeOK /\ Base \in entries
  BY EntryFacts DEF IInv, TypeOK, CallOK, MergeNext, BootOK
<1>2. /\ UNCHANGED <<free, held>> /\ Held' = Held /\ lastUsed' = cur
      /\ pc' = "idle" /\ cur' = NULL /\ size' = 0 /\ old' = NULL
  BY DEF MergeNext, Return, Held
<1>3. \A b \in Held : b \in entries /\ free[b] = 0 /\ held[b] <= length[b]
  BY DEF IInv, HeldOK
<1>4. CallOK' /\ DiagnosticsSilent'
  BY <1>2 DEF CallOK, DiagnosticsSilent
<1>5. CASE free[next[cur]] = 1 /\ Adjacent(cur, next[cur])
  <2>1. Absorb(cur, next[cur])
    BY <1>5 DEF MergeNext
  <2>2. /\ entries' = entries \ {next[cur]} /\ cur \in entries' /\ Base \in entries'
        /\ next' \in [HeaderAddr -> HeaderAddr \cup {NULL}]
        /\ prev' \in [HeaderAddr -> HeaderAddr \cup {NULL}]
        /\ length' \in [HeaderAddr -> Nat]
        /\ \A x \in entries : x # cur => length'[x] = length[x]
        /\ ListOK' /\ Ordered'
    BY <1>1, <1>5, <2>1, AbsorbFacts
  <2>3. TypeOK'
    BY <1>1, <1>2, <2>2 DEF TypeOK
  <2>4. HeldOK'
    BY <1>1, <1>2, <1>3, <1>5, <2>2 DEF HeldOK
  <2>5. BootOK' /\ LastUsedLive'
    BY <1>2, <2>2 DEF BootOK, LastUsedLive
  <2> QED
    BY <1>4, <2>2, <2>3, <2>4, <2>5 DEF IInv
<1>6. CASE ~(free[next[cur]] = 1 /\ Adjacent(cur, next[cur]))
  <2>1. UNCHANGED <<length, next, prev, entries>>
    BY <1>6 DEF MergeNext
  <2>2. TypeOK'
    BY <1>1, <1>2, <2>1 DEF TypeOK
  <2>3. ListOK' /\ Ordered' /\ HeldOK' /\ BootOK' /\ LastUsedLive'
    BY <1>1, <1>2, <2>1 DEF IInv, ListOK, Ordered, Linked, After, HeldOK, BootOK, LastUsedLive
  <2> QED
    BY <1>4, <2>2, <2>3 DEF IInv
<1> QED
  BY <1>5, <1>6

\* Recording the new size changes neither who holds what nor any header.
LEMMA ReallocInPlaceEffect ==
  ASSUME IInv, NEW a \in Held, NEW n \in Requests, ReallocInPlace(a, n)
  PROVE  Held' = Held /\ UNCHANGED <<length, free, entries, pc, cur>>
<1>1. /\ n \in Nat /\ a \in HeaderAddr /\ held' = [held EXCEPT ![a] = n]
      /\ held[a] # NotHeld /\ held \in [HeaderAddr -> Nat \cup {NotHeld}]
  BY HeapAssumption DEF ReallocInPlace, Held, IInv, TypeOK
<1>2. n # NotHeld
  BY <1>1 DEF NotHeld
<1>3. \A x \in HeaderAddr : held'[x] # NotHeld <=> held[x] # NotHeld
  BY <1>1, <1>2
<1> QED
  BY <1>3 DEF Held, ReallocInPlace, mem, ctl

LEMMA ReallocInPlaceIInv ==
  ASSUME IInv, NEW a \in Held, NEW n \in Requests, ReallocInPlace(a, n)
  PROVE  IInv'
<1>1. /\ n \in Nat /\ a \in HeaderAddr /\ held' = [held EXCEPT ![a] = n]
      /\ UNCHANGED <<next, prev, length, free, lastUsed, entries, pc, cur, size, old>>
      /\ length[a] > n /\ length[a] \in Nat /\ pc = "idle"
  BY HeapAssumption DEF ReallocInPlace, mem, ctl, Held, IInv, TypeOK
<1>2. Held' = Held
  BY ReallocInPlaceEffect
<1>3. TypeOK'
  BY <1>1 DEF IInv, TypeOK
<1>4. HeldOK'
  BY <1>1, <1>2 DEF IInv, TypeOK, HeldOK
<1>5. BootOK' /\ ListOK' /\ Ordered' /\ LastUsedLive' /\ CallOK' /\ DiagnosticsSilent'
  BY <1>1, <1>2 DEF IInv, BootOK, ListOK, Ordered, Linked, After, LastUsedLive, CallOK, DiagnosticsSilent
<1> QED
  BY <1>3, <1>4, <1>5 DEF IInv

LEMMA NextIInv == IInv /\ [Next]_vars => IInv'
<1> SUFFICES ASSUME IInv, [Next]_vars PROVE IInv'
  OBVIOUS
<1>1. ASSUME NEW n \in Requests, Malloc(n) PROVE IInv'
  BY <1>1, HeapAssumption, EnterMallocIInv DEF Malloc
<1>2. ASSUME NEW a \in Held, Free(a) PROVE IInv'
  BY <1>2, EnterFreeIInv DEF Free
<1>3. ASSUME NEW a \in Held, NEW n \in Requests, ReallocInPlace(a, n) PROVE IInv'
  BY <1>3, ReallocInPlaceIInv
<1>4. ASSUME NEW a \in Held, NEW n \in Requests, ReallocMove(a, n) PROVE IInv'
  BY <1>4, HeapAssumption, EnterMallocIInv DEF ReallocMove
<1>5. CASE SearchNext \/ SearchDone
  BY <1>5, SearchIInv
<1>6. CASE Take
  BY <1>6, TakeSplitIInv, TakeWholeIInv
<1>7. CASE MergeNext
  BY <1>7, MergeNextIInv
<1>8. CASE ReallocFreeOld
  <2>1. old \in Held /\ pc = "copy"
    BY <1>8 DEF ReallocFreeOld, IInv, CallOK
  <2> QED
    BY <2>1, <1>8, EnterFreeIInv DEF ReallocFreeOld
<1>9. CASE UNCHANGED vars
  BY <1>9 DEF vars, IInv, TypeOK, BootOK, ListOK, Ordered, Linked, After, HeldOK, Held,
     LastUsedLive, CallOK, Fits, DiagnosticsSilent
<1> QED
  BY <1>1, <1>2, <1>3, <1>4, <1>5, <1>6, <1>7, <1>8, <1>9 DEF Next, Call, Step

\* The inductive invariant holds in every reachable state, for every size of
\* the reserve and of the header and every set of requests.
THEOREM Inductive == Spec => []IInv
<1>1. Init => IInv
  BY InitIInv
<1>2. IInv /\ [Next]_vars => IInv'
  BY NextIInv
<1> QED
  BY <1>1, <1>2, PTL DEF Spec

(***************************************************************************)
(* What the invariant gives the clients.                                   *)
(***************************************************************************)

\* Two different headers' blocks, granted lengths included, do not overlap.
LEMMA BlocksApart ==
  ASSUME IInv, NEW a \in entries, NEW b \in entries, a # b
  PROVE  \/ b + EntrySize <= a /\ b + EntrySize + length[b] <= a
         \/ a + EntrySize + length[a] <= b
<1>1. /\ a \in Nat /\ b \in Nat /\ length[a] \in Nat /\ length[b] \in Nat
      /\ After(a) = a + EntrySize + length[a] /\ After(b) = b + EntrySize + length[b]
      /\ a < b => After(a) <= b
      /\ b < a => After(b) <= a
  BY EntryFacts
<1> QED
  BY <1>1, HeapAssumption

LEMMA IInvNoOverlap == IInv => NoOverlap
<1> SUFFICES ASSUME IInv, NEW a \in Held
             PROVE  /\ a \in entries /\ free[a] = 0
                    /\ a + EntrySize + held[a] <= End
                    /\ \A b \in entries \ {a} :
                         \/ b + EntrySize <= a
                         \/ a + EntrySize + held[a] <= b
  BY DEF NoOverlap
<1>1. /\ a \in entries /\ free[a] = 0 /\ held[a] <= length[a] /\ held[a] \in Nat
  BY DEF IInv, HeldOK, TypeOK, Held
<1>2. /\ a \in Nat /\ length[a] \in Nat /\ a + EntrySize + length[a] <= End
  BY <1>1, EntryFacts
<1>3. ASSUME NEW b \in entries \ {a}
      PROVE  b + EntrySize <= a \/ a + EntrySize + length[a] <= b
  BY <1>1, BlocksApart
<1>4. EntrySize \in Nat /\ End \in Nat /\ \A b \in entries : b \in Nat
  BY HeapAssumption, HeaderFacts DEF IInv, TypeOK
<1> QED
  BY <1>1, <1>2, <1>3, <1>4

\* Memory safety of the heap for every reserve: no client's bytes overlap
\* another block or a header.
THEOREM HeapNoOverlap == Spec => []NoOverlap
BY Inductive, IInvNoOverlap, PTL

\* A contract-keeping client never sees "DOUBLE FREE!" or "MEMORY CORRUPTION".
THEOREM HeapDiagnosticsSilent == Spec => []DiagnosticsSilent
<1>1. IInv => DiagnosticsSilent
  BY DEF IInv
<1> QED
  BY Inductive, <1>1, PTL

\* realloc's copy of the old block's whole length fits the new block.
THEOREM HeapCopyFits == Spec => []CopyFits
<1>1. IInv => CopyFits
  <2> SUFFICES ASSUME IInv, pc = "copy" PROVE length[old] <= length[cur]
    BY DEF CopyFits
  <2>1. /\ old \in Held /\ length[old] <= size /\ length[cur] >= size
        /\ cur \in entries /\ size \in Nat /\ old \in HeaderAddr
    BY DEF IInv, CallOK, TypeOK, Held
  <2>2. length[old] \in Nat /\ length[cur] \in Nat
    BY <2>1 DEF IInv, TypeOK
  <2> QED
    BY <2>1, <2>2
<1> QED
  BY Inductive, <1>1, PTL

\* last_used is a live header whenever a search can start.
THEOREM HeapLastUsedLive == Spec => []LastUsedLive
<1>1. IInv => LastUsedLive
  BY DEF IInv
<1> QED
  BY Inductive, <1>1, PTL

(***************************************************************************)
(* Coalescing.                                                             *)
(***************************************************************************)

\* Only neighbours in the list can be adjacent in memory.
LEMMA AdjacentIsNext ==
  ASSUME IInv, NEW a \in entries, NEW b \in entries, Adjacent(a, b)
  PROVE  next[a] = b /\ prev[b] = a /\ a < b
<1>1. /\ After(a) = b /\ After(b) <= End /\ After(b) = b + EntrySize + length[b]
      /\ length[b] \in Nat /\ length[a] \in Nat /\ a \in Nat /\ b \in Nat
      /\ After(a) = a + EntrySize + length[a]
      /\ next[a] = IF After(a) = End THEN Base ELSE After(a)
      /\ prev[next[a]] = a
  BY EntryFacts DEF Adjacent
<1>2. EntrySize \in Nat /\ EntrySize > 0 /\ End \in Nat
  BY HeapAssumption, HeaderFacts
<1> QED
  BY <1>1, <1>2

\* A merge creates no new pair of free neighbours but those of the merged block.
LEMMA AbsorbMerged ==
  ASSUME IInv, UnmergedOnlyAtCur, NEW dst \in entries, NEW src \in entries,
         Adjacent(dst, src), Absorb(dst, src),
         NEW a \in entries', NEW b \in entries', Adjacent(a, b)'
  PROVE  /\ a \in entries /\ b \in entries
         /\ a # dst => Adjacent(a, b)
         /\ a = dst => Adjacent(src, b)
<1>1. /\ entries' = entries \ {src}
      /\ \A x \in entries : x # dst => length'[x] = length[x]
      /\ length'[dst] = length[dst] + length[src] + EntrySize
  BY AbsorbFacts, HeaderFacts DEF Absorb, IInv, TypeOK
<1>2. /\ dst \in Nat /\ length[dst] \in Nat /\ length[src] \in Nat /\ EntrySize \in Nat
      /\ dst + EntrySize + length[dst] = src
  BY EntryFacts, HeapAssumption DEF Adjacent, After
<1> QED
  BY <1>1, <1>2 DEF Adjacent, After

LEMMA MergedInit == Init => UnmergedOnlyAtCur /\ NoLeak
  BY DEF Init, UnmergedOnlyAtCur, NoLeak

LEMMA TakeMerged ==
  ASSUME IInv, UnmergedOnlyAtCur, NoLeak, Take
  PROVE  UnmergedOnlyAtCur' /\ NoLeak'
<1>1. /\ cur \in entries /\ free[cur] = 1 /\ cur \in HeaderAddr /\ pc = "take" /\ size \in Nat
  BY DEF IInv, TypeOK, CallOK, Take, Fits
<1>2. Held' = Held \cup {cur}
  BY <1>1 DEF Take, Held, IInv, TypeOK, NotHeld
<1>3. CASE ~SplitWorthwhile(cur, size)
  <2>1. /\ free' = [free EXCEPT ![cur] = 0] /\ UNCHANGED <<length, entries>>
    BY <1>3 DEF Take
  <2>2. \A x \in entries : x # cur => free'[x] = free[x]
    BY <2>1
  <2>3. free'[cur] = 0
    BY <1>1, <2>1 DEF IInv, TypeOK
  <2>4. NoLeak'
    BY <1>2, <2>1, <2>2, <2>3 DEF NoLeak
  <2>5. UnmergedOnlyAtCur'
    BY <1>1, <2>1, <2>2, <2>3 DEF UnmergedOnlyAtCur, Adjacent, After
  <2> QED
    BY <2>4, <2>5
<1>4. CASE SplitWorthwhile(cur, size)
  <2> DEFINE tail == cur + RoundUp(size) + EntrySize
  <2>1. /\ tail \in HeaderAddr /\ tail \notin entries /\ tail \in Nat
        /\ cur < tail /\ tail + EntrySize <= After(cur)
        /\ tail + EntrySize + (length[cur] - (tail - cur)) = After(cur)
        /\ tail - cur - EntrySize = RoundUp(size)
    BY <1>1, <1>4, TailFacts
  <2>2. /\ length' = [length EXCEPT ![cur] = tail - cur - EntrySize,
                                    ![tail] = length[cur] - (tail - cur)]
        /\ free' = [free EXCEPT ![cur] = 0, ![tail] = 1]
        /\ entries' = entries \cup {tail}
    BY <1>4 DEF Take, Split
  <2>3. /\ free'[cur] = 0 /\ free'[tail] = 1
        /\ length'[tail] = length[cur] - (tail - cur)
        /\ \A x \in entries : x # cur => free'[x] = free[x] /\ length'[x] = length[x]
    BY <1>1, <2>1, <2>2 DEF IInv, TypeOK
  <2>4. NoLeak'
    BY <1>2, <2>2, <2>3 DEF NoLeak
  <2>5. ASSUME NEW a \in entries', NEW b \in entries',
               free'[a] = 1, free'[b] = 1, Adjacent(a, b)'
        PROVE  FALSE
    <3>1. a # cur /\ b # cur
      BY <2>5, <2>3
    <3>2. CASE a = tail
      <4>1. Adjacent(cur, b) /\ b # tail
        BY <3>2, <2>5, <2>1, <2>3, HeapAssumption DEF Adjacent, After
      <4> QED
        BY <4>1, <3>1, <2>5, <2>2, <2>3, <1>1 DEF UnmergedOnlyAtCur
    <3>3. CASE a # tail
      <4>1. a \in entries /\ a + EntrySize + length[a] = b
        BY <3>3, <3>1, <2>5, <2>2, <2>3 DEF Adjacent, After
      <4>2. CASE b = tail
        <5>1. \/ a + EntrySize + length[a] <= cur
              \/ After(cur) <= a
          BY <4>1, <3>1, <1>1, BlocksApart, EntryFacts, HeapAssumption
        <5> QED
          BY <5>1, <4>1, <4>2, <2>1, <1>1, EntryFacts, HeapAssumption
      <4>3. CASE b # tail
        <5>1. b \in entries /\ free[a] = 1 /\ free[b] = 1 /\ Adjacent(a, b)
          BY <4>1, <4>3, <3>1, <2>5, <2>2, <2>3 DEF Adjacent, After
        <5> QED
          BY <5>1, <4>1, <1>1 DEF UnmergedOnlyAtCur
      <4> QED
        BY <4>2, <4>3
    <3> QED
      BY <3>2, <3>3
  <2> QED
    BY <2>4, <2>5 DEF UnmergedOnlyAtCur
<1> QED
  BY <1>3, <1>4

LEMMA EnterFreeMerged ==
  ASSUME IInv, UnmergedOnlyAtCur, NoLeak,
         NEW h \in Held, pc \in {"idle", "copy"}, EnterFree(h)
  PROVE  UnmergedOnlyAtCur' /\ NoLeak'
<1>1. /\ h \in entries /\ h \in HeaderAddr /\ free[h] = 0
      /\ prev[h] \in entries /\ prev[h] \in HeaderAddr
  BY EntryFacts DEF IInv, HeldOK, TypeOK
<1>2. MarkFree(h)
  BY <1>1 DEF EnterFree, DiagnoseDoubleFree, DiagnoseCorruption
<1>3. /\ free' = [free EXCEPT ![h] = 1] /\ held' = [held EXCEPT ![h] = NotHeld]
      /\ pc' = "merge"
  BY <1>2 DEF MarkFree
<1>4. /\ Held' = Held \ {h} /\ free'[h] = 1
      /\ \A x \in entries : x # h => free'[x] = free[x]
  BY <1>1, <1>3 DEF Held, IInv, TypeOK, NotHeld
<1>5. CASE free'[prev[h]] = 1 /\ Adjacent(prev[h], h)
  <2>1. Absorb(prev[h], h) /\ cur' = prev[h]
    BY <1>5, <1>2 DEF MarkFree
  <2>2. entries' = entries \ {h}
    BY <2>1 DEF Absorb
  <2>3. NoLeak'
    BY <1>4, <2>2 DEF NoLeak
  <2>4. ASSUME NEW a \in entries', NEW b \in entries',
               free'[a] = 1, free'[b] = 1, Adjacent(a, b)'
        PROVE  a = prev[h]
    <3>1. a \in entries /\ b \in entries /\ a # h /\ b # h
          /\ (a # prev[h] => Adjacent(a, b))
      BY <2>4, <2>1, <2>2, <1>1, <1>5, AbsorbMerged
    <3> QED
      BY <3>1, <2>4, <1>4 DEF UnmergedOnlyAtCur
  <2> QED
    BY <2>1, <2>3, <2>4, <1>3 DEF UnmergedOnlyAtCur
<1>6. CASE ~(free'[prev[h]] = 1 /\ Adjacent(prev[h], h))
  <2>1. cur' = h /\ UNCHANGED <<length, next, prev, entries>>
    BY <1>6, <1>2 DEF MarkFree
  <2>2. NoLeak'
    BY <1>4, <2>1 DEF NoLeak
  <2>3. ASSUME NEW a \in entries', NEW b \in entries',
               free'[a] = 1, free'[b] = 1, Adjacent(a, b)'
        PROVE  a = h
    <3>1. a \in entries /\ b \in entries /\ Adjacent(a, b)
      BY <2>3, <2>1 DEF Adjacent, After
    <3>2. b = h => a = prev[h]
      BY <3>1, AdjacentIsNext
    <3> QED
      BY <3>1, <3>2, <2>3, <1>4, <1>6 DEF UnmergedOnlyAtCur
  <2> QED
    BY <2>1, <2>2, <2>3, <1>3 DEF UnmergedOnlyAtCur
<1> QED
  BY <1>5, <1>6

LEMMA MergeNextMerged ==
  ASSUME IInv, UnmergedOnlyAtCur, NoLeak, MergeNext
  PROVE  UnmergedOnlyAtCur' /\ NoLeak'
<1>1. /\ cur \in entries /\ next[cur] \in entries /\ UNCHANGED <<free, held>> /\ Held' = Held
  BY EntryFacts DEF IInv, CallOK, MergeNext, Held
<1>2. CASE free[next[cur]] = 1 /\ Adjacent(cur, next[cur])
  <2>1. Absorb(cur, next[cur])
    BY <1>2 DEF MergeNext
  <2>2. entries' = entries \ {next[cur]}
    BY <2>1 DEF Absorb
  <2>3. next[cur] # cur
    BY <1>1, <1>2, AdjacentIsNext, EntryFacts
  <2>4. ASSUME NEW a \in entries', NEW b \in entries',
               free'[a] = 1, free'[b] = 1, Adjacent(a, b)'
        PROVE  FALSE
    <3>1. /\ a \in entries /\ b \in entries
          /\ (a # cur => Adjacent(a, b))
          /\ (a = cur => Adjacent(next[cur], b))
      BY <2>4, <2>1, <1>1, <1>2, AbsorbMerged
    <3> QED
      BY <3>1, <2>3, <2>4, <1>1, <1>2 DEF UnmergedOnlyAtCur
  <2> QED
    BY <2>2, <2>4, <1>1 DEF UnmergedOnlyAtCur, NoLeak
<1>3. CASE ~(free[next[cur]] = 1 /\ Adjacent(cur, next[cur]))
  <2>1. UNCHANGED <<length, next, prev, entries>>
    BY <1>3 DEF MergeNext
  <2>2. ASSUME NEW a \in entries, NEW b \in entries,
               free[a] = 1, free[b] = 1, Adjacent(a, b)
        PROVE  FALSE
    <3>1. a = cur
      BY <2>2 DEF UnmergedOnlyAtCur
    <3>2. b = next[cur]
      BY <2>2, <3>1, AdjacentIsNext
    <3> QED
      BY <3>1, <3>2, <2>2, <1>3
  <2> QED
    BY <2>1, <2>2, <1>1 DEF UnmergedOnlyAtCur, NoLeak, Adjacent, After
<1> QED
  BY <1>2, <1>3

LEMMA EnterMallocMerged ==
  ASSUME IInv, UnmergedOnlyAtCur, NoLeak,
         NEW n, NEW p, pc = "idle", EnterMalloc(n, p), UNCHANGED held
  PROVE  UnmergedOnlyAtCur' /\ NoLeak'
<1>1. pc' = "search" /\ Held' = Held
  BY DEF EnterMalloc, Held
<1>2. CASE prev[lastUsed] = NULL
  <2>1. /\ free' = [free EXCEPT ![lastUsed] = 1] /\ entries' = {lastUsed}
        /\ length' = [length EXCEPT ![lastUsed] = ReserveLength]
        /\ lastUsed \in HeaderAddr /\ lastUsed \in Nat
        /\ length \in [HeaderAddr -> Nat] /\ free \in [HeaderAddr -> {0, 1}]
    BY <1>2, HeaderFacts DEF EnterMalloc, IInv, TypeOK
  <2>2. /\ free'[lastUsed] = 1 /\ length'[lastUsed] = ReserveLength
        /\ lastUsed + EntrySize + ReserveLength # lastUsed
    BY <2>1, HeapAssumption
  <2> QED
    BY <2>1, <2>2 DEF UnmergedOnlyAtCur, NoLeak, Adjacent, After
<1>3. CASE prev[lastUsed] # NULL
  <2>1. UNCHANGED <<prev, next, length, free, entries>>
    BY <1>3 DEF EnterMalloc
  <2> QED
    BY <1>1, <2>1 DEF UnmergedOnlyAtCur, NoLeak, Adjacent, After
<1> QED
  BY <1>2, <1>3

\* Two free blocks stay unmerged only while free() is between its two merges,
\* and no block in use is without an owner.
LEMMA Merged == Spec => [](UnmergedOnlyAtCur /\ NoLeak)
<1> DEFINE M == UnmergedOnlyAtCur /\ NoLeak
<1>1. Init => M
  BY MergedInit
<1>2. IInv /\ M /\ [Next]_vars => M'
  <2> SUFFICES ASSUME IInv, M, [Next]_vars PROVE M'
    OBVIOUS
  <2>1. ASSUME NEW n \in Requests, Malloc(n) PROVE M'
    BY <2>1, EnterMallocMerged DEF Malloc
  <2>2. ASSUME NEW a \in Held, Free(a) PROVE M'
    BY <2>2, EnterFreeMerged DEF Free
  <2>3. ASSUME NEW a \in Held, NEW n \in Requests, ReallocInPlace(a, n) PROVE M'
    <3>1. Held' = Held /\ UNCHANGED <<length, free, entries, pc, cur>>
      BY <2>3, ReallocInPlaceEffect
    <3> QED
      BY <3>1 DEF UnmergedOnlyAtCur, NoLeak, Adjacent, After
  <2>4. ASSUME NEW a \in Held, NEW n \in Requests, ReallocMove(a, n) PROVE M'
    BY <2>4, EnterMallocMerged DEF ReallocMove
  <2>5. CASE SearchNext \/ SearchDone
    BY <2>5 DEF SearchNext, SearchDone, mem, UnmergedOnlyAtCur, NoLeak, Adjacent, After, Held
  <2>6. CASE Take
    BY <2>6, TakeMerged
  <2>7. CASE MergeNext
    BY <2>7, MergeNextMerged
  <2>8. CASE ReallocFreeOld
    <3>1. old \in Held /\ pc = "copy"
      BY <2>8 DEF ReallocFreeOld, IInv, CallOK
    <3> QED
      BY <3>1, <2>8, EnterFreeMerged DEF ReallocFreeOld
  <2>9. CASE UNCHANGED vars
    BY <2>9 DEF vars, UnmergedOnlyAtCur, NoLeak, Adjacent, After, Held
  <2> QED
    BY <2>1, <2>2, <2>3, <2>4, <2>5, <2>6, <2>7, <2>8, <2>9 DEF Next, Call, Step
<1> QED
  BY <1>1, <1>2, Inductive, PTL DEF Spec

\* free() leaves no two neighbouring free blocks behind.
THEOREM HeapCoalesced == Spec => []Coalesced
<1>1. UnmergedOnlyAtCur => Coalesced
  BY DEF UnmergedOnlyAtCur, Coalesced
<1> QED
  BY <1>1, Merged, PTL

\* Every block in use can still be freed by the client that owns it.
THEOREM HeapNoLeak == Spec => []NoLeak
BY Merged, PTL

\* The heap is sound in every reachable state, whatever the reserve and the
\* length of a header: the five properties above together.
THEOREM HeapIsSound == Spec => []HeapSound
<1>1. NoOverlap /\ Coalesced /\ NoLeak /\ CopyFits /\ DiagnosticsSilent => HeapSound
  BY DEF HeapSound
<1> QED
  BY <1>1, HeapNoOverlap, HeapCoalesced, HeapNoLeak, HeapCopyFits, HeapDiagnosticsSilent, PTL

(***************************************************************************)
(* What each step does to the blocks in clients' hands.                    *)
(***************************************************************************)
LEMMA TakeEffect ==
  ASSUME IInv, Take
  PROVE  /\ cur \in HeaderAddr /\ cur \notin Held /\ Held' = Held \cup {cur}
         /\ \A a \in Held : length'[a] = length[a]
<1>1. /\ cur \in entries /\ free[cur] = 1 /\ cur \in HeaderAddr /\ size \in Nat
  BY DEF IInv, TypeOK, CallOK, Take, Fits
<1>2. Held' = Held \cup {cur} /\ cur \notin Held
  BY <1>1 DEF Take, Held, IInv, TypeOK, NotHeld, HeldOK
<1>3. \A a \in Held : a \in entries /\ a # cur
  BY <1>2 DEF IInv, HeldOK
<1>4. CASE SplitWorthwhile(cur, size)
  <2> DEFINE tail == cur + RoundUp(size) + EntrySize
  <2>1. tail \notin entries
    BY <1>1, <1>4, TailFacts
  <2>2. length' = [length EXCEPT ![cur] = tail - cur - EntrySize,
                                 ![tail] = length[cur] - (tail - cur)]
    BY <1>4 DEF Take, Split
  <2>3. \A a \in Held : length'[a] = length[a]
    BY <2>1, <2>2, <1>3 DEF IInv, TypeOK, Held
  <2> QED
    BY <2>3, <1>1, <1>2
<1>5. CASE ~SplitWorthwhile(cur, size)
  BY <1>5, <1>1, <1>2 DEF Take
<1> QED
  BY <1>4, <1>5

LEMMA EnterFreeEffect ==
  ASSUME IInv, NEW h \in Held, EnterFree(h)
  PROVE  Held' = Held \ {h} /\ \A a \in Held' : length'[a] = length[a]
<1>1. /\ h \in entries /\ free[h] = 0 /\ prev[h] \in entries
  BY EntryFacts DEF IInv, HeldOK
<1>2. MarkFree(h)
  BY <1>1 DEF EnterFree, DiagnoseDoubleFree, DiagnoseCorruption
<1>3. Held' = Held \ {h}
  BY <1>2 DEF MarkFree, Held, IInv, TypeOK, NotHeld
<1>4. CASE free'[prev[h]] = 1 /\ Adjacent(prev[h], h)
  <2>1. Absorb(prev[h], h)
    BY <1>4, <1>2 DEF MarkFree
  <2>2. \A x \in entries : x # prev[h] => length'[x] = length[x]
    BY <1>1, <1>4, <2>1, AbsorbFacts
  <2>3. ASSUME NEW a \in Held' PROVE a \in entries /\ a # prev[h]
    <3>1. a \in entries /\ a # h /\ free[a] = 0
      BY <1>3 DEF IInv, HeldOK
    <3>2. free'[a] = free[a]
      BY <3>1, <1>2 DEF MarkFree, IInv, TypeOK
    <3> QED
      BY <3>1, <3>2, <1>4
  <2> QED
    BY <1>3, <2>2, <2>3
<1>5. CASE ~(free'[prev[h]] = 1 /\ Adjacent(prev[h], h))
  BY <1>5, <1>2, <1>3 DEF MarkFree
<1> QED
  BY <1>4, <1>5

LEMMA MergeNextEffect ==
  ASSUME IInv, MergeNext
  PROVE  Held' = Held /\ \A a \in Held : length'[a] = length[a]
<1>1. /\ cur \in entries /\ next[cur] \in entries /\ Held' = Held /\ free[cur] = 1
  BY EntryFacts DEF IInv, CallOK, MergeNext, Held
<1>2. CASE free[next[cur]] = 1 /\ Adjacent(cur, next[cur])
  <2>1. Absorb(cur, next[cur])
    BY <1>2 DEF MergeNext
  <2>2. \A x \in entries : x # cur => length'[x] = length[x]
    BY <1>1, <1>2, <2>1, AbsorbFacts
  <2> QED
    BY <1>1, <2>2 DEF IInv, HeldOK
<1>3. CASE ~(free[next[cur]] = 1 /\ Adjacent(cur, next[cur]))
  BY <1>3, <1>1 DEF MergeNext
<1> QED
  BY <1>2, <1>3

LEMMA EnterMallocEffect ==
  ASSUME IInv, pc = "idle", NEW n, NEW p, EnterMalloc(n, p), UNCHANGED held
  PROVE  Held' = Held /\ \A a \in Held : length'[a] = length[a]
<1>1. Held' = Held
  BY DEF Held
<1>2. CASE prev[lastUsed] # NULL
  BY <1>1, <1>2 DEF EnterMalloc
<1>3. CASE prev[lastUsed] = NULL
  <2>1. entries = {}
    <3>1. ASSUME entries # {} PROVE FALSE
      <4>1. lastUsed \in entries
        BY <3>1 DEF IInv, LastUsedLive
      <4>2. prev[lastUsed] \in HeaderAddr
        BY <4>1, EntryFacts DEF IInv, TypeOK
      <4> QED
        BY <4>2, <1>3, HeaderFacts
    <3> QED
      BY <3>1
  <2> QED
    BY <2>1, <1>1 DEF IInv, HeldOK
<1> QED
  BY <1>2, <1>3

\* One step of the heap, as its clients see it.
LEMMA StepEffect ==
  ASSUME IInv, [Next]_vars
  PROVE  /\ \A a \in Held : a \in Held' => length'[a] = length[a]
         /\ \/ Held' = Held
            \/ \E h \in HeaderAddr \ Held : Held' = Held \cup {h}
            \/ \E h \in Held : Held' = Held \ {h}
<1> DEFINE Effect ==
      /\ \A a \in Held : a \in Held' => length'[a] = length[a]
      /\ \/ Held' = Held
         \/ \E h \in HeaderAddr \ Held : Held' = Held \cup {h}
         \/ \E h \in Held : Held' = Held \ {h}
<1>1. ASSUME NEW n \in Requests, Malloc(n) PROVE Effect
  BY <1>1, EnterMallocEffect DEF Malloc
<1>2. ASSUME NEW a \in Held, Free(a) PROVE Effect
  BY <1>2, EnterFreeEffect DEF Free
<1>3. ASSUME NEW a \in Held, NEW n \in Requests, ReallocInPlace(a, n) PROVE Effect
  BY <1>3, ReallocInPlaceEffect
<1>4. ASSUME NEW a \in Held, NEW n \in Requests, ReallocMove(a, n) PROVE Effect
  BY <1>4, EnterMallocEffect DEF ReallocMove
<1>5. CASE SearchNext \/ SearchDone
  BY <1>5 DEF SearchNext, SearchDone, mem, Held
<1>6. CASE Take
  BY <1>6, TakeEffect
<1>7. CASE MergeNext
  BY <1>7, MergeNextEffect
<1>8. CASE ReallocFreeOld
  <2>1. old \in Held
    BY <1>8 DEF ReallocFreeOld, IInv, CallOK
  <2> QED
    BY <2>1, <1>8, EnterFreeEffect DEF ReallocFreeOld
<1>9. CASE UNCHANGED vars
  BY <1>9 DEF vars, Held
<1> QED
  BY <1>1, <1>2, <1>3, <1>4, <1>5, <1>6, <1>7, <1>8, <1>9 DEF Next, Call, Step

\* A block a client goes on holding keeps its extent, whatever other calls do.
THEOREM HeapHeldBlocksStay == Spec => HeldBlocksStay
<1>1. IInv /\ [Next]_vars =>
        [\A a \in Held : a \in Held' => length'[a] = length[a]]_vars
  BY StepEffect
<1> QED
  BY <1>1, Inductive, PTL DEF Spec, HeldBlocksStay

(***************************************************************************)
(* Heap implements Allocator.                                              *)
(***************************************************************************)
LEMMA GrantedFits ==
  ASSUME IInv, NEW a \in Held
  PROVE  /\ a \in HeaderAddr /\ length[a] \in {n \in 0 .. ReserveLength : n % 16 = 0}
         /\ a + EntrySize \in Nat
         /\ a + EntrySize + length[a] <= End
<1>1. /\ a \in HeaderAddr /\ a \in Nat /\ a >= Base
      /\ length[a] \in Nat /\ length[a] % 16 = 0
      /\ a + EntrySize + length[a] <= End
  BY EntryFacts DEF IInv, HeldOK
<1>2. EntrySize \in Nat /\ ReserveLength \in Nat /\ End = Base + EntrySize + ReserveLength
      /\ Base = 16
  BY HeapAssumption DEF End, Base
<1> QED
  BY <1>1, <1>2

LEMMA GrantedApart ==
  ASSUME IInv, NEW a \in Held, NEW b \in Held, a # b
  PROVE  Abstract!Disjoint([start |-> a + EntrySize, size |-> length[a]],
                           [start |-> b + EntrySize, size |-> length[b]])
<1>1. /\ a \in entries /\ b \in entries
      /\ a \in Nat /\ b \in Nat /\ length[a] \in Nat /\ length[b] \in Nat
  BY EntryFacts DEF IInv, HeldOK
<1>2. EntrySize \in Nat /\ EntrySize > 0
  BY HeapAssumption
<1>3. \/ b + EntrySize + length[b] <= a
      \/ a + EntrySize + length[a] <= b
  BY <1>1, BlocksApart
<1> QED
  BY <1>1, <1>2, <1>3 DEF Abstract!Disjoint

\* The blocks in clients' hands are blocks the abstract allocator may grant.
GrantedOK ==
  /\ \A a \in Held : /\ a \in HeaderAddr
                     /\ length[a] \in {n \in 0 .. ReserveLength : n % 16 = 0}
                     /\ a + EntrySize + length[a] <= End
  /\ \A a, b \in Held : a # b =>
       Abstract!Disjoint([start |-> a + EntrySize, size |-> length[a]],
                         [start |-> b + EntrySize, size |-> length[b]])

LEMMA IInvGrantedOK == IInv => GrantedOK
  BY GrantedFits, GrantedApart DEF GrantedOK

LEMMA StepRefines ==
  ASSUME IInv, [Next]_vars
  PROVE  [Abstract!Next]_Granted
<1>1. IInv'
  BY NextIInv
<1>2. GrantedOK'
  BY <1>1, IInvGrantedOK, PTL
<1>3. \A a \in Held : a \in Held' => length'[a] = length[a]
  BY StepEffect
<1>4. CASE Held' = Held
  BY <1>3, <1>4 DEF Granted
<1>5. ASSUME NEW h \in HeaderAddr \ Held, Held' = Held \cup {h}
      PROVE  Abstract!Alloc
  <2> DEFINE r == [start |-> h + EntrySize, size |-> length'[h]]
  <2>1. Granted' = Granted \cup {r}
    BY <1>3, <1>5 DEF Granted
  <2>2. /\ h + EntrySize \in {a + EntrySize : a \in HeaderAddr}
        /\ length'[h] \in {n \in 0 .. ReserveLength : n % 16 = 0}
        /\ h + EntrySize + length'[h] <= End
    BY <1>2, <1>5 DEF GrantedOK
  <2>3. ASSUME NEW a \in Held
        PROVE  Abstract!Disjoint(r, [start |-> a + EntrySize, size |-> length[a]])
    BY <1>2, <1>3, <1>5, <2>3 DEF GrantedOK, Abstract!Disjoint
  <2>4. \A s \in Granted : Abstract!Disjoint(r, s)
    BY <2>3 DEF Granted
  <2> QED
    BY <2>1, <2>2, <2>4 DEF Abstract!Alloc
<1>6. ASSUME NEW h \in Held, Held' = Held \ {h}
      PROVE  Abstract!Release
  <2> DEFINE r == [start |-> h + EntrySize, size |-> length[h]]
  <2>1. r \in Granted
    BY DEF Granted
  <2>2. ASSUME NEW a \in Held, a # h
        PROVE  [start |-> a + EntrySize, size |-> length[a]] # r
    <3>1. Abstract!Disjoint([start |-> a + EntrySize, size |-> length[a]], r)
      BY <2>2, GrantedApart
    <3> QED
      BY <3>1 DEF Abstract!Disjoint
  <2>3. Granted' = Granted \ {r}
    BY <1>3, <1>6, <2>2 DEF Granted
  <2> QED
    BY <2>1, <2>3 DEF Abstract!Release
<1> QED
  BY <1>4, <1>5, <1>6, StepEffect DEF Abstract!Next

\* The heap implements the abstract allocator: what it hands out is memory
\* nobody else has, until it is given back.
THEOREM HeapImplementsAllocator == Spec => ImplementsAllocator
<1>1. Init => Abstract!Init
  BY DEF Init, Abstract!Init, Granted, Held
<1>2. IInv /\ [Next]_vars => [Abstract!Next]_Granted
  BY StepRefines
<1> QED
  BY <1>1, <1>2, Inductive, PTL DEF Spec, ImplementsAllocator, Abstract!Spec
=============================================================================
