----------------------------- MODULE TypedProofs -----------------------------
(***************************************************************************)
(* The deque of typed characters (module Deque, as TypedCharacters has it  *)
(* between the keyboard handler and main()), for strides of any length,    *)
(* any number of characters and calls: its list keeps the shape that both  *)
(* ends rely on, and what main() reads is in order.  Then the decoder of   *)
(* the keyboard (module Ps2Keyboard) before it: what is typed is what the  *)
(* user meant, however far the user types ahead, and main() reads it so.   *)
(***************************************************************************)
EXTENDS TypedCharacters, SequenceTheorems, TLAPS

Stride == [buf : [0 .. Slots - 1 -> Int], first : 0 .. Slots, last : 0 .. Slots]

Count == Len(typed)
Strides == Len(strides)
First == strides[1].first

\* Cells in front of those of stride i; characters that were taken, and those that were
\* taken before the first cell of the first stride.
Before(i) == (i - 1) * Slots
Taken == Len(got) + (IF pc = "retire" THEN 1 ELSE 0)
Base == Taken - First

\* Where push_back puts the next character: the stride and the cell in it.
Full == strides[Strides].last = Slots
PushStride == IF Full THEN Strides + 1 ELSE Strides
PushCell == IF Full THEN 0 ELSE strides[Strides].last

DequeTypeOK ==
  /\ strides \in Seq(Stride) /\ strides # <<>>
  /\ Count \in Nat /\ got \in Seq(Int) /\ front \in Int
  /\ pc \in {"idle", "advance", "retire"}
  /\ waits \in BOOLEAN /\ drained \in BOOLEAN /\ wrapped \in BOOLEAN

\* Every cell that was written holds the character whose turn it is, and what was read
\* is such a character or a cell that was not written yet, until the read index of a
\* stride goes round.
PlacedOK ==
  ~wrapped =>
    /\ Count = Base + Before(Strides) + strides[Strides].last
    /\ \A i \in 1 .. Strides, k \in 0 .. Slots - 1 :
         strides[i].buf[k] = IF k < strides[i].last THEN Base + Before(i) + k + 1 ELSE 0
    /\ \A i \in 1 .. Len(got) : got[i] \in {0, i}
    /\ pc = "retire" \/ (pc = "advance" /\ First < Slots) => front \in {0, Len(got) + 1}

\* A main() that waits for its characters stays behind the handler, and leaves a stride
\* that it has read to the end if there is another.
BehindOK ==
  waits /\ ~drained =>
    /\ ~wrapped
    /\ Strides = 1 => First <= strides[1].last
    /\ pc = "idle" /\ First = Slots => Strides = 1
    /\ pc = "advance" => First < Slots /\ (Strides = 1 => First < strides[1].last)
    /\ pc # "idle" => front = Len(got) + 1
    /\ \A i \in 1 .. Len(got) : got[i] = i

DequeInv == DequeTypeOK /\ ListShape /\ PlacedOK /\ BehindOK

LEMMA BeforeFacts ==
  /\ Before(1) = 0
  /\ \A i \in Nat : Before(i) \in Int /\ Before(i + 1) = Before(i) + Slots
  /\ \A i \in Nat : i >= 2 => Before(i) >= Slots
<1>1. Slots \in Nat /\ Slots > 0
  BY TypedAssumption
<1>2. ASSUME NEW i \in Nat, i >= 2 PROVE Before(i) >= Slots
  <2>1. PICK d \in Nat : i - 1 = d + 1
    BY <1>2
  <2>2. Before(i) = d * Slots + Slots /\ d * Slots \in Nat
    BY <1>1, <2>1 DEF Before
  <2> QED
    BY <1>1, <2>2
<1> QED
  BY <1>1, <1>2 DEF Before

\* What the invariant says of the list, for the steps below.
LEMMA ListFacts ==
  ASSUME DequeTypeOK, ListShape
  PROVE  /\ Slots \in Nat /\ Slots > 0 /\ Strides \in Nat /\ Strides >= 1
         /\ strides \in Seq(Stride) /\ got \in Seq(Int) /\ Len(got) \in Nat
         /\ \A i \in 1 .. Strides : strides[i] \in Stride /\ strides[i].last \in 0 .. Slots
         /\ First \in 0 .. Slots /\ Taken \in Nat /\ Base \in Int
         /\ Strides > 1 => strides[1].last = Slots
         /\ \A i \in 2 .. Strides : strides[i].first = 0
<1>1. Slots \in Nat /\ Slots > 0
  BY TypedAssumption
<1>2. strides \in Seq(Stride) /\ strides # <<>> /\ got \in Seq(Int)
  BY DEF DequeTypeOK
<1>3. Strides \in Nat /\ Strides >= 1 /\ \A i \in 1 .. Strides : strides[i] \in Stride
  BY <1>2 DEF Strides
<1>6. \A i \in 1 .. Strides : strides[i].last \in 0 .. Slots
  BY <1>3 DEF Stride
<1>4. First \in 0 .. Slots
  BY <1>3 DEF First, Stride
<1>5. Taken \in Nat /\ Base \in Int
  BY <1>1, <1>2, <1>4 DEF Taken, Base
<1> QED
  BY <1>1, <1>2, <1>3, <1>4, <1>5, <1>6 DEF ListShape, D!ListShape, D!LastAt, Strides

LEMMA FrontInv ==
  ASSUME DequeInv, D!Front, UNCHANGED typed
  PROVE  DequeInv'
<1>0. /\ Slots \in Nat /\ Slots > 0 /\ Strides \in Nat /\ Strides >= 1
      /\ strides \in Seq(Stride) /\ Len(got) \in Nat /\ First \in 0 .. Slots
      /\ Taken \in Nat /\ Base \in Int
      /\ \A i \in 1 .. Strides : strides[i] \in Stride /\ strides[i].last \in 0 .. Slots
  BY ListFacts DEF DequeInv
<1>1. /\ pc = "idle" /\ pc' = "advance" /\ (waits => ~D!Empty)
      /\ front' = IF First = Slots THEN -1 ELSE strides[1].buf[First]
      /\ UNCHANGED <<waits, strides, typed, got, drained, wrapped>>
  BY DEF D!Front, D!Head1, D!FirstByte, First
<1>2. strides[1] \in Stride /\ (First # Slots => First \in 0 .. Slots - 1)
  BY <1>0
<1>3. front' \in Int
  BY <1>1, <1>2 DEF Stride
<1>4. DequeTypeOK'
  BY <1>1, <1>3 DEF DequeInv, DequeTypeOK, Count
<1>5. ListShape'
  BY <1>1 DEF DequeInv, ListShape, D!ListShape, D!LastAt
<1>6. Taken' = Taken /\ Base' = Base /\ Taken = Len(got)
      /\ Strides' = Strides /\ First' = First /\ Count' = Count
  BY <1>1 DEF Taken, Base, First, Strides, Count
<1>7. ~wrapped /\ First < Slots =>
        front' = IF First < strides[1].last THEN Len(got) + 1 ELSE 0
  <2> SUFFICES ASSUME ~wrapped, First < Slots
               PROVE  front' = IF First < strides[1].last THEN Len(got) + 1 ELSE 0
    OBVIOUS
  <2>1. strides[1].buf[First] = IF First < strides[1].last THEN Base + Before(1) + First + 1 ELSE 0
    BY <1>0, <1>2 DEF DequeInv, PlacedOK
  <2>2. Base + Before(1) + First + 1 = Len(got) + 1
    <3>1. First \in Int /\ Taken \in Int /\ Taken = Len(got)
      BY <1>0, <1>6
    <3>2. Before(1) = 0
      BY BeforeFacts
    <3> QED
      BY <3>1, <3>2 DEF Base
  <2> QED
    BY <1>0, <1>1, <2>1, <2>2
<1>8. PlacedOK'
  BY <1>0, <1>1, <1>6, <1>7 DEF DequeInv, PlacedOK
<1>9. waits /\ Strides = 1 => First # strides[1].last
  BY <1>1 DEF D!Empty, D!LastAt, D!Head1, Strides, First
<1>10. BehindOK'
  <2> SUFFICES ASSUME waits, ~drained PROVE BehindOK'
    BY <1>1 DEF BehindOK
  <2>1. /\ ~wrapped /\ (Strides = 1 => First <= strides[1].last) /\ (First = Slots => Strides = 1)
        /\ \A i \in 1 .. Len(got) : got[i] = i
    BY <1>1 DEF DequeInv, BehindOK
  <2>2. First < Slots /\ (Strides = 1 => First < strides[1].last)
    BY <1>0, <1>9, <2>1
  <2>3. First < strides[1].last
    BY <1>0, <2>2, ListFacts DEF DequeInv
  <2>4. front' = Len(got) + 1
    BY <1>7, <2>1, <2>2, <2>3
  <2> QED
    BY <1>1, <1>6, <2>1, <2>2, <2>4 DEF BehindOK
<1> QED
  BY <1>4, <1>5, <1>8, <1>10 DEF DequeInv

LEMMA AdvanceInv ==
  ASSUME DequeInv, D!Advance, UNCHANGED typed
  PROVE  DequeInv'
<1>0. /\ Slots \in Nat /\ Slots > 0 /\ Strides \in Nat /\ Strides >= 1
      /\ strides \in Seq(Stride) /\ Len(got) \in Nat /\ First \in 0 .. Slots
      /\ Taken \in Nat /\ Base \in Int
      /\ \A i \in 1 .. Strides : strides[i] \in Stride /\ strides[i].last \in 0 .. Slots
  BY ListFacts DEF DequeInv
<1>1. /\ pc = "advance" /\ pc' = "retire"
      /\ strides' = [strides EXCEPT ![1].first = (@ + 1) % (Slots + 1)]
      /\ wrapped' = (wrapped \/ First = Slots)
      /\ UNCHANGED <<waits, typed, got, front, drained>>
  BY DEF D!Advance, D!Head1, D!IndexRange, First
<1>2. /\ Strides' = Strides /\ strides' \in Seq(Stride)
      /\ First' = (First + 1) % (Slots + 1)
      /\ \A i \in 1 .. Strides :
           strides'[i].buf = strides[i].buf /\ strides'[i].last = strides[i].last
      /\ \A i \in 2 .. Strides : strides'[i] = strides[i]
  <2> DEFINE s == [strides[1] EXCEPT !.first = (First + 1) % (Slots + 1)]
  <2>1. (First + 1) % (Slots + 1) \in 0 .. Slots
    BY <1>0
  <2>2. /\ s \in Stride /\ s.buf = strides[1].buf /\ s.last = strides[1].last
        /\ s.first = (First + 1) % (Slots + 1)
    <3>1. strides[1] \in Stride
      BY <1>0
    <3> QED
      BY <2>1, <3>1 DEF Stride
  <2>3. strides' = [strides EXCEPT ![1] = s]
    BY <1>1 DEF First
  <2> HIDE DEF s
  <2>4. /\ strides' \in Seq(Stride) /\ Len(strides') = Len(strides)
        /\ strides'[1] = s /\ \A i \in 2 .. Strides : strides'[i] = strides[i]
    BY <1>0, <2>2, <2>3 DEF Strides
  <2>5. First' = (First + 1) % (Slots + 1)
    BY <2>2, <2>4 DEF First
  <2>6. \A i \in 1 .. Strides : i = 1 \/ i \in 2 .. Strides
    BY <1>0
  <2> QED
    BY <2>2, <2>4, <2>5, <2>6 DEF Strides
<1>3. First < Slots => First' = First + 1
  <2> SUFFICES ASSUME First < Slots PROVE (First + 1) % (Slots + 1) = First + 1
    BY <1>2
  <2> QED
    BY <1>0
<1>4. DequeTypeOK'
  BY <1>0, <1>1, <1>2 DEF DequeInv, DequeTypeOK, Count, Strides
<1>5. ListShape'
  BY <1>1, <1>2 DEF DequeInv, ListShape, D!ListShape, D!LastAt, Strides
<1>6. Taken' = Taken + 1 /\ Count' = Count /\ (First < Slots => Base' = Base)
  BY <1>0, <1>1, <1>3 DEF Taken, Base, Count
<1>7. PlacedOK'
  <2> SUFFICES ASSUME ~wrapped' PROVE PlacedOK'
    BY DEF PlacedOK
  <2>1. ~wrapped /\ First < Slots
    <3>1. ~wrapped /\ First # Slots
      BY <1>1, Zenon
    <3> QED
      BY <1>0, <3>1
  <2>2. Strides' = Strides /\ Base' = Base /\ Count' = Count /\ Before(Strides)' = Before(Strides)
    BY <1>2, <1>6, <2>1 DEF Before
  <2>3. (Count = Base + Before(Strides) + strides[Strides].last)'
    BY <1>0, <1>2, <2>1, <2>2 DEF DequeInv, PlacedOK
  <2>4. \A i \in 1 .. Strides, k \in 0 .. Slots - 1 :
          strides'[i].buf[k] = IF k < strides'[i].last THEN Base + Before(i) + k + 1 ELSE 0
    BY <1>2, <2>1 DEF DequeInv, PlacedOK
  <2>5. front' \in {0, Len(got) + 1} /\ \A i \in 1 .. Len(got) : got[i] \in {0, i}
    BY <1>1, <2>1 DEF DequeInv, PlacedOK
  <2> QED
    BY <1>1, <2>2, <2>3, <2>4, <2>5 DEF PlacedOK, Before
<1>8. BehindOK'
  <2> SUFFICES ASSUME waits, ~drained PROVE BehindOK'
    BY <1>1 DEF BehindOK
  <2>1. ~wrapped' /\ First < Slots
    <3>1. ~wrapped /\ First < Slots
      BY <1>1 DEF DequeInv, BehindOK
    <3>2. First # Slots
      BY <1>0, <3>1
    <3> QED
      BY <1>1, <3>1, <3>2, Zenon
  <2> QED
    BY <1>0, <1>1, <1>2, <1>3, <2>1 DEF DequeInv, BehindOK
<1> QED
  BY <1>4, <1>5, <1>7, <1>8 DEF DequeInv

LEMMA RetireInv ==
  ASSUME DequeInv, D!Retire, UNCHANGED typed
  PROVE  DequeInv'
<1>0. /\ Slots \in Nat /\ Slots > 0 /\ Strides \in Nat /\ Strides >= 1
      /\ strides \in Seq(Stride) /\ Len(got) \in Nat /\ First \in 0 .. Slots
      /\ Taken \in Nat /\ Base \in Int
      /\ \A i \in 1 .. Strides : strides[i] \in Stride /\ strides[i].last \in 0 .. Slots
  BY ListFacts DEF DequeInv
<1>1. /\ pc = "retire" /\ pc' = "idle" /\ front' = 0
      /\ strides' = IF First = Slots /\ Strides # 1 THEN Tail(strides) ELSE strides
      /\ got' = Append(got, front)
      /\ UNCHANGED <<waits, typed, drained, wrapped>>
  BY DEF D!Retire, D!Head1, D!LastAt, D!Unwritten, First, Strides
<1>2. /\ got' \in Seq(Int) /\ Len(got') = Len(got) + 1
      /\ \A i \in 1 .. Len(got) : got'[i] = got[i]
      /\ got'[Len(got) + 1] = front
  BY <1>1, <1>0 DEF DequeInv, DequeTypeOK
<1>3. Taken' = Taken /\ Taken = Len(got) + 1 /\ Count' = Count
  BY <1>1, <1>2 DEF Taken, Count
<1>4. ~wrapped => \A i \in 1 .. Len(got') : got'[i] \in {0, i}
  <2> SUFFICES ASSUME ~wrapped, NEW i \in 1 .. Len(got') PROVE got'[i] \in {0, i}
    OBVIOUS
  <2>1. CASE i = Len(got) + 1
    BY <1>1, <1>2, <2>1 DEF DequeInv, PlacedOK
  <2>2. CASE i \in 1 .. Len(got)
    BY <1>2, <2>2 DEF DequeInv, PlacedOK
  <2> QED
    BY <1>0, <1>2, <2>1, <2>2
<1>5. waits /\ ~drained => \A i \in 1 .. Len(got') : got'[i] = i
  <2> SUFFICES ASSUME waits, ~drained, NEW i \in 1 .. Len(got') PROVE got'[i] = i
    OBVIOUS
  <2>1. CASE i = Len(got) + 1
    BY <1>1, <1>2, <2>1 DEF DequeInv, BehindOK
  <2>2. CASE i \in 1 .. Len(got)
    BY <1>2, <2>2 DEF DequeInv, BehindOK
  <2> QED
    BY <1>0, <1>2, <2>1, <2>2
<1>6. CASE ~(First = Slots /\ Strides # 1)
  <2>1. strides' = strides /\ Strides' = Strides /\ First' = First /\ Base' = Base
    BY <1>1, <1>3, <1>6 DEF Strides, First, Base
  <2>2. DequeTypeOK'
    BY <1>1, <1>2, <1>3, <2>1 DEF DequeInv, DequeTypeOK
  <2>3. ListShape'
    BY <2>1 DEF DequeInv, ListShape, D!ListShape, D!LastAt
  <2>4. PlacedOK'
    <3> SUFFICES ASSUME ~wrapped PROVE PlacedOK'
      BY <1>1 DEF PlacedOK
    <3>1. Before(Strides)' = Before(Strides)
      BY <2>1 DEF Before
    <3>2. (Count = Base + Before(Strides) + strides[Strides].last)'
      BY <1>3, <2>1, <3>1 DEF DequeInv, PlacedOK
    <3>3. \A i \in 1 .. Strides, k \in 0 .. Slots - 1 :
            strides'[i].buf[k] = IF k < strides'[i].last THEN Base + Before(i) + k + 1 ELSE 0
      BY <2>1 DEF DequeInv, PlacedOK
    <3>4. Before(Strides)' = Before(Strides) /\ pc' = "idle" /\ Strides' = Strides /\ Base' = Base
      BY <1>1, <2>1, <3>1
    <3> QED
      BY <1>4, <3>2, <3>3, <3>4 DEF PlacedOK, Before
  <2>5. BehindOK'
    <3> SUFFICES ASSUME waits, ~drained PROVE BehindOK'
      BY <1>1 DEF BehindOK
    <3> QED
      BY <1>1, <1>5, <1>6, <2>1 DEF DequeInv, BehindOK
  <2> QED
    BY <2>2, <2>3, <2>4, <2>5 DEF DequeInv
<1>7. CASE First = Slots /\ Strides # 1
  <2>1. /\ strides' \in Seq(Stride) /\ Strides' = Strides - 1 /\ Strides >= 2 /\ strides' # <<>>
        /\ \A i \in 1 .. Strides - 1 : strides'[i] = strides[i + 1]
    <3>1. Strides >= 2 /\ strides' = Tail(strides)
      BY <1>0, <1>1, <1>7
    <3>2. Len(Tail(strides)) = Len(strides) - 1 /\ Tail(strides) \in Seq(Stride)
      BY <1>0, <3>1 DEF Strides
    <3>3. \A i \in 1 .. Len(strides) - 1 : Tail(strides)[i] = strides[i + 1]
      BY <1>0, <3>1 DEF Strides
    <3>4. Len(strides') >= 1
      BY <1>0, <3>1, <3>2 DEF Strides
    <3>5. strides' # <<>>
      BY <3>4
    <3>6. Strides' = Strides - 1 /\ \A i \in 1 .. Strides - 1 : strides'[i] = strides[i + 1]
      BY <3>1, <3>2, <3>3 DEF Strides
    <3> QED
      BY <3>1, <3>2, <3>5, <3>6
  <2>2. First' = 0 /\ Base' = Base + Slots
    <3>1. strides[2].first = 0 /\ strides'[1] = strides[2]
      BY <1>0, <2>1, ListFacts DEF DequeInv
    <3> QED
      BY <1>0, <1>3, <1>7, <3>1 DEF First, Base
  <2>3. DequeTypeOK'
    BY <1>1, <1>2, <1>3, <2>1 DEF DequeInv, DequeTypeOK
  <2>4. ListShape'
    <3>1. /\ \A i \in 1 .. Strides - 1 : strides[i].last = Slots
          /\ \A i \in 2 .. Strides : strides[i].first = 0 /\ strides[i].last > 0
      BY DEF DequeInv, ListShape, D!ListShape, D!LastAt, Strides
    <3>2. ASSUME NEW i \in 1 .. Strides - 2 PROVE strides'[i].last = Slots
      <4>1. i + 1 \in 1 .. Strides - 1 /\ i \in 1 .. Strides - 1
        BY <1>0
      <4> QED
        BY <2>1, <3>1, <4>1
    <3>3. ASSUME NEW i \in 2 .. Strides - 1 PROVE strides'[i].first = 0 /\ strides'[i].last > 0
      <4>1. i + 1 \in 2 .. Strides /\ i \in 1 .. Strides - 1
        BY <1>0
      <4> QED
        BY <2>1, <3>1, <4>1
    <3> QED
      BY <1>0, <2>1, <3>2, <3>3 DEF ListShape, D!ListShape, D!LastAt, Strides
  <2>5. PlacedOK'
    <3> SUFFICES ASSUME ~wrapped PROVE PlacedOK'
      BY <1>1 DEF PlacedOK
    <3>1. \A i \in 1 .. Strides - 1 : Before(i) \in Int /\ Before(i + 1) = Before(i) + Slots
      <4> TAKE i \in 1 .. Strides - 1
      <4>1. i \in Nat
        BY <1>0
      <4> QED
        BY <4>1, BeforeFacts
    <3>2. (Count = Base + Before(Strides) + strides[Strides].last)'
      <4>1. Count = Base + Before(Strides) + strides[Strides].last
        BY DEF DequeInv, PlacedOK
      <4>2. /\ strides'[Strides - 1] = strides[Strides] /\ Strides - 1 \in 1 .. Strides - 1
            /\ Before(Strides) = Before(Strides - 1) + Slots /\ Before(Strides - 1) \in Int
        BY <1>0, <2>1, <3>1
      <4>3. strides[Strides].last \in Int
        BY <1>0
      <4>4. Count = Base + Slots + Before(Strides - 1) + strides'[Strides - 1].last
        BY <1>0, <4>1, <4>2, <4>3
      <4>5. Before(Strides)' = Before(Strides - 1)
        BY <2>1 DEF Before
      <4> QED
        BY <1>3, <2>1, <2>2, <4>4, <4>5
    <3>3. ASSUME NEW i \in 1 .. Strides - 1, NEW k \in 0 .. Slots - 1
          PROVE  strides'[i].buf[k] =
                   IF k < strides'[i].last THEN Base + Slots + Before(i) + k + 1 ELSE 0
      <4>1. strides[i + 1].buf[k] =
              IF k < strides[i + 1].last THEN Base + Before(i + 1) + k + 1 ELSE 0
        BY <1>0 DEF DequeInv, PlacedOK
      <4>2. strides'[i] = strides[i + 1] /\ Before(i) \in Int /\ Before(i + 1) = Before(i) + Slots
        BY <2>1, <3>1
      <4> QED
        BY <1>0, <4>1, <4>2
    <3> QED
      BY <1>1, <1>4, <2>1, <2>2, <3>2, <3>3 DEF PlacedOK, Before
  <2>6. BehindOK'
    <3> SUFFICES ASSUME waits, ~drained PROVE BehindOK'
      BY <1>1 DEF BehindOK
    <3>1. ~wrapped /\ strides[2].last \in 0 .. Slots /\ strides'[1] = strides[2]
      <4>1. ~wrapped
        BY DEF DequeInv, BehindOK
      <4> QED
        BY <1>0, <2>1, <4>1
    <3>2. Strides' = 1 => First' <= strides'[1].last
      BY <1>0, <2>2, <3>1
    <3>3. First' # Slots
      BY <1>0, <2>2
    <3> QED
      BY <1>1, <1>5, <3>1, <3>2, <3>3 DEF BehindOK
  <2> QED
    BY <2>3, <2>4, <2>5, <2>6 DEF DequeInv
<1> QED
  BY <1>6, <1>7

\* push_back puts the next character into the first cell behind those that were written,
\* in a new stride if the last is full.
LEMMA PushFacts ==
  ASSUME DequeInv, D!Type
  PROVE  /\ strides' \in Seq(Stride) /\ Strides' = PushStride
         /\ \A i \in 1 .. PushStride - 1 : strides'[i] = strides[i]
         /\ strides'[PushStride].last = PushCell + 1
         /\ strides'[PushStride].first = IF Full THEN 0 ELSE strides[PushStride].first
         /\ \A k \in 0 .. Slots - 1 : strides'[PushStride].buf[k] =
              IF k = PushCell THEN Count + 1 ELSE IF Full THEN 0 ELSE strides[PushStride].buf[k]
<1>0. /\ Slots \in Nat /\ Slots > 0 /\ Strides \in Nat /\ Strides >= 1
      /\ strides \in Seq(Stride) /\ Len(got) \in Nat /\ First \in 0 .. Slots
      /\ Taken \in Nat /\ Base \in Int
      /\ \A i \in 1 .. Strides : strides[i] \in Stride /\ strides[i].last \in 0 .. Slots
  BY ListFacts DEF DequeInv
<1> DEFINE new == D!NewStride
           r == IF Full THEN Append(strides, new) ELSE strides
<1>1. new \in Stride /\ new.first = 0 /\ new.last = 0 /\ \A k \in 0 .. Slots - 1 : new.buf[k] = 0
  BY <1>0 DEF D!NewStride, D!Unwritten, Stride
<1> HIDE DEF new
<1>2. /\ r \in Seq(Stride) /\ Len(r) = PushStride /\ PushStride \in Nat /\ PushStride >= 1
      /\ \A i \in 1 .. PushStride - 1 : r[i] = strides[i]
      /\ r[PushStride] = IF Full THEN new ELSE strides[PushStride]
  BY <1>0, <1>1 DEF Strides, PushStride
<1>3. r[PushStride] \in Stride /\ r[PushStride].last = PushCell /\ PushCell \in 0 .. Slots - 1
  <2>1. CASE Full
    BY <1>0, <1>1, <1>2, <2>1 DEF PushCell
  <2>2. CASE ~Full
    <3>1. strides[Strides] \in Stride /\ strides[Strides].last \in 0 .. Slots
      BY <1>0
    <3>2. strides[Strides].last \in 0 .. Slots - 1
      BY <1>0, <2>2, <3>1 DEF Full
    <3> QED
      BY <1>2, <2>2, <3>1, <3>2 DEF PushCell, PushStride
  <2> QED
    BY <2>1, <2>2
<1>4. strides' = [r EXCEPT ![PushStride].buf[r[PushStride].last] = Count + 1,
                            ![PushStride].last = @ + 1]
  BY <1>2 DEF D!Type, D!PushBack, D!ReserveAtEnd, new, Strides, Count, Full, PushStride
<1> HIDE DEF r
<1> DEFINE e == [r[PushStride] EXCEPT !.buf[PushCell] = Count + 1, !.last = PushCell + 1]
<1>5. /\ e \in Stride /\ e.last = PushCell + 1 /\ e.first = r[PushStride].first
      /\ \A k \in 0 .. Slots - 1 :
           e.buf[k] = IF k = PushCell THEN Count + 1 ELSE r[PushStride].buf[k]
  <2>1. Count + 1 \in Int /\ PushCell + 1 \in 0 .. Slots
    BY <1>0, <1>3 DEF DequeInv, DequeTypeOK
  <2> QED
    BY <1>3, <2>1 DEF Stride
<1>6. strides' = [r EXCEPT ![PushStride] = e]
  BY <1>2, <1>3, <1>4
<1> HIDE DEF e
<1>7. /\ strides' \in Seq(Stride) /\ Len(strides') = PushStride /\ strides'[PushStride] = e
      /\ \A i \in 1 .. PushStride - 1 : strides'[i] = r[i]
  BY <1>2, <1>5, <1>6
<1>8. strides'[PushStride].first = IF Full THEN 0 ELSE strides[PushStride].first
  BY <1>1, <1>2, <1>5, <1>7
<1>9. \A k \in 0 .. Slots - 1 : strides'[PushStride].buf[k] =
        IF k = PushCell THEN Count + 1 ELSE IF Full THEN 0 ELSE strides[PushStride].buf[k]
  BY <1>1, <1>2, <1>5, <1>7
<1> QED
  BY <1>2, <1>5, <1>7, <1>8, <1>9 DEF Strides

LEMMA TypeInv ==
  ASSUME DequeInv, D!Type
  PROVE  DequeInv'
<1>0. /\ Slots \in Nat /\ Slots > 0 /\ Strides \in Nat /\ Strides >= 1
      /\ strides \in Seq(Stride) /\ Len(got) \in Nat /\ First \in 0 .. Slots
      /\ Taken \in Nat /\ Base \in Int
      /\ \A i \in 1 .. Strides : strides[i] \in Stride /\ strides[i].last \in 0 .. Slots
  BY ListFacts DEF DequeInv
<1>1. /\ strides' \in Seq(Stride) /\ Strides' = PushStride
      /\ \A i \in 1 .. PushStride - 1 : strides'[i] = strides[i]
      /\ strides'[PushStride].last = PushCell + 1
      /\ strides'[PushStride].first = IF Full THEN 0 ELSE strides[PushStride].first
      /\ \A k \in 0 .. Slots - 1 : strides'[PushStride].buf[k] =
           IF k = PushCell THEN Count + 1 ELSE IF Full THEN 0 ELSE strides[PushStride].buf[k]
  BY PushFacts
<1>2. /\ Count' = Count + 1 /\ Count \in Nat
      /\ drained' = (drained \/ (pc = "idle" /\ D!Empty /\ strides[1].last = Slots))
      /\ UNCHANGED <<waits, got, pc, front, wrapped>>
  BY DEF D!Type, D!Head1, Count, DequeInv, DequeTypeOK
<1>3. /\ PushStride \in Nat /\ PushStride >= 1 /\ PushCell \in 0 .. Slots - 1
      /\ (Full => PushStride >= 2)
  <2>1. strides[Strides].last \in 0 .. Slots
    BY <1>0
  <2> QED
    BY <1>0, <2>1 DEF Full, PushStride, PushCell
<1>4. /\ PushStride - 1 <= Strides /\ PushStride - 1 \in Nat
      /\ ~Full => PushStride = Strides /\ PushCell = strides[Strides].last
      /\ Full => PushStride = Strides + 1 /\ PushCell = 0 /\ strides[Strides].last = Slots
  BY <1>0 DEF Full, PushStride, PushCell
<1>5. First' = First /\ Taken' = Taken /\ Base' = Base
  <2>1. CASE PushStride = 1
    <3>1. Strides = 1 /\ ~Full
      BY <1>0, <1>4, <2>1
    <3>2. strides'[1].first = strides[1].first
      BY <1>1, <2>1, <3>1
    <3> QED
      BY <1>2, <3>2 DEF First, Taken, Base
  <2>2. CASE PushStride # 1
    <3>1. 1 \in 1 .. PushStride - 1
      BY <1>3, <2>2
    <3> QED
      BY <1>1, <1>2, <3>1 DEF First, Taken, Base
  <2> QED
    BY <2>1, <2>2
<1>6. DequeTypeOK'
  <2>1. strides' # <<>>
    BY <1>1, <1>3 DEF Strides
  <2>2. drained' \in BOOLEAN
    BY <1>2, Zenon DEF DequeInv, DequeTypeOK
  <2>3. Count' \in Nat
    BY <1>2
  <2> QED
    BY <1>1, <1>2, <2>1, <2>2, <2>3 DEF DequeInv, DequeTypeOK
<1>7. ListShape'
  <2>1. /\ \A i \in 1 .. Strides - 1 : strides[i].last = Slots
        /\ \A i \in 2 .. Strides : strides[i].first = 0 /\ strides[i].last > 0
    BY DEF DequeInv, ListShape, D!ListShape, D!LastAt, Strides
  <2>2. ASSUME NEW i \in 1 .. PushStride - 1 PROVE strides'[i].last = Slots
    <3>1. i \in 1 .. Strides
      BY <1>0, <1>4
    <3>2. CASE i \in 1 .. Strides - 1
      BY <1>1, <2>1, <3>2
    <3>3. CASE i = Strides
      <4>1. Full
        BY <1>0, <1>4, <3>3
      <4> QED
        BY <1>1, <1>4, <3>3, <4>1
    <3> QED
      BY <1>0, <3>1, <3>2, <3>3
  <2>3. ASSUME NEW i \in 2 .. PushStride PROVE strides'[i].first = 0 /\ strides'[i].last > 0
    <3>1. CASE i = PushStride
      <4>1. strides'[PushStride].last > 0
        BY <1>1, <1>3
      <4>2. ~Full => strides[PushStride].first = 0
        BY <1>0, <1>4, <2>1, <3>1
      <4> QED
        BY <1>1, <3>1, <4>1, <4>2
    <3>2. CASE i # PushStride
      <4>1. i \in 2 .. Strides /\ i \in 1 .. PushStride - 1
        BY <1>0, <1>3, <1>4, <3>2
      <4> QED
        BY <1>1, <2>1, <4>1
    <3> QED
      BY <3>1, <3>2
  <2>4. Len(strides') = PushStride
    BY <1>1 DEF Strides
  <2> QED
    BY <1>3, <2>2, <2>3, <2>4 DEF ListShape, D!ListShape, D!LastAt
<1>8. PlacedOK'
  <2> SUFFICES ASSUME ~wrapped PROVE PlacedOK'
    BY <1>2 DEF PlacedOK
  <2>1. /\ Count = Base + Before(Strides) + strides[Strides].last
        /\ \A i \in 1 .. Strides, k \in 0 .. Slots - 1 :
             strides[i].buf[k] = IF k < strides[i].last THEN Base + Before(i) + k + 1 ELSE 0
        /\ \A i \in 1 .. Len(got) : got[i] \in {0, i}
        /\ pc = "retire" \/ (pc = "advance" /\ First < Slots) => front \in {0, Len(got) + 1}
    BY DEF DequeInv, PlacedOK
  <2>2. Count = Base + Before(PushStride) + PushCell
    <3>1. Before(Strides) \in Int /\ Before(Strides + 1) = Before(Strides) + Slots
      BY <1>0, BeforeFacts
    <3>2. CASE Full
      BY <1>0, <1>4, <2>1, <3>1, <3>2
    <3>3. CASE ~Full
      BY <1>4, <2>1, <3>3
    <3> QED
      BY <3>2, <3>3
  <2>3. Before(PushStride) \in Int
    BY <1>3, BeforeFacts
  <2>4. Count + 1 = Base + Before(PushStride) + strides'[PushStride].last
    BY <1>0, <1>1, <1>3, <2>2, <2>3
  <2>5. ASSUME NEW i \in 1 .. PushStride, NEW k \in 0 .. Slots - 1
        PROVE  strides'[i].buf[k] = IF k < strides'[i].last THEN Base + Before(i) + k + 1 ELSE 0
    <3>1. CASE i \in 1 .. PushStride - 1
      <4>1. i \in 1 .. Strides
        BY <1>0, <1>4, <3>1
      <4> QED
        BY <1>1, <2>1, <3>1, <4>1
    <3>2. CASE i = PushStride /\ k = PushCell
      <4>1. strides'[PushStride].buf[k] = Count + 1 /\ strides'[PushStride].last = PushCell + 1
        BY <1>1, <3>2
      <4>2. Count + 1 = Base + Before(PushStride) + PushCell + 1 /\ PushCell < PushCell + 1
        BY <1>0, <1>3, <2>2, <2>3
      <4> QED
        BY <3>2, <4>1, <4>2
    <3>3. CASE i = PushStride /\ k # PushCell /\ Full
      <4>1. strides'[PushStride].buf[k] = 0 /\ strides'[PushStride].last = 1 /\ ~(k < 1)
        BY <1>1, <1>4, <3>3
      <4> QED
        BY <3>3, <4>1
    <3>4. CASE i = PushStride /\ k # PushCell /\ ~Full
      <4>1. /\ strides'[PushStride].buf[k] = strides[Strides].buf[k]
            /\ strides'[PushStride].last = strides[Strides].last + 1
            /\ k # strides[Strides].last /\ PushStride = Strides
        BY <1>1, <1>4, <3>4
      <4>2. strides[Strides].buf[k] =
              IF k < strides[Strides].last THEN Base + Before(Strides) + k + 1 ELSE 0
        BY <1>0, <2>1
      <4>3. k < strides[Strides].last + 1 <=> k < strides[Strides].last
        <5>1. strides[Strides].last \in 0 .. Slots
          BY <1>0
        <5> QED
          BY <4>1, <5>1
      <4> QED
        BY <3>4, <4>1, <4>2, <4>3
    <3> QED
      BY <1>3, <3>1, <3>2, <3>3, <3>4
  <2>6. Before(Strides)' = Before(PushStride)
    BY <1>1 DEF Before
  <2>7. (Count = Base + Before(Strides) + strides[Strides].last)'
    BY <1>1, <1>2, <1>5, <2>4, <2>6
  <2> QED
    BY <1>1, <1>2, <1>5, <2>1, <2>5, <2>7 DEF PlacedOK, Before
<1>9. BehindOK'
  <2> SUFFICES ASSUME waits, ~drained, ~(pc = "idle" /\ D!Empty /\ strides[1].last = Slots)
               PROVE  BehindOK'
    BY <1>2, Zenon DEF BehindOK
  <2>1. /\ ~wrapped
        /\ Strides = 1 => First <= strides[1].last
        /\ pc = "idle" /\ First = Slots => Strides = 1
        /\ pc = "advance" => First < Slots /\ (Strides = 1 => First < strides[1].last)
        /\ pc # "idle" => front = Len(got) + 1
        /\ \A i \in 1 .. Len(got) : got[i] = i
    BY DEF DequeInv, BehindOK
  <2>2. PushStride = 1 =>
          Strides = 1 /\ strides'[1].last = strides[1].last + 1 /\ strides[1].last \in Int
    BY <1>0, <1>1, <1>4
  <2>3. ~(pc = "idle" /\ First = Slots)
    <3> SUFFICES ASSUME pc = "idle", First = Slots PROVE FALSE
      OBVIOUS
    <3>1. Strides = 1 /\ strides[1].last = Slots
      BY <1>0, <2>1
    <3> QED
      BY <3>1 DEF D!Empty, D!LastAt, D!Head1, Strides, First
  <2>4. PushStride = 1 => First <= strides'[1].last /\ (pc = "advance" => First < strides'[1].last)
    BY <1>0, <2>1, <2>2
  <2> QED
    BY <1>1, <1>2, <1>5, <2>1, <2>3, <2>4 DEF BehindOK
<1> QED
  BY <1>6, <1>7, <1>8, <1>9 DEF DequeInv

-----------------------------------------------------------------------------
LEMMA InitInv == TypedInit => DequeInv
<1> SUFFICES ASSUME TypedInit PROVE DequeInv
  OBVIOUS
<1>1. Slots \in Nat /\ Slots > 0
  BY TypedAssumption
<1>2. /\ strides = <<D!NewStride>> /\ got = <<>> /\ pc = "idle" /\ front = 0
      /\ Count = 0 /\ waits \in BOOLEAN /\ drained = FALSE /\ wrapped = FALSE
  BY DEF TypedInit, D!Init, D!Unwritten, Count
<1>3. /\ D!NewStride \in Stride /\ D!NewStride.first = 0 /\ D!NewStride.last = 0
      /\ \A k \in 0 .. Slots - 1 : D!NewStride.buf[k] = 0
  BY <1>1 DEF D!NewStride, D!Unwritten, Stride
<1>4. /\ strides \in Seq(Stride) /\ strides # <<>> /\ Strides = 1 /\ strides[1] = D!NewStride
      /\ First = 0 /\ Taken = 0 /\ Base = 0 /\ Len(got) = 0
  BY <1>2, <1>3 DEF Strides, First, Taken, Base
<1>5. DequeTypeOK
  <2>1. got \in Seq(Int) /\ pc \in {"idle", "advance", "retire"} /\ Count \in Nat /\ front \in Int
    BY <1>2
  <2>2. waits \in BOOLEAN /\ drained \in BOOLEAN /\ wrapped \in BOOLEAN
    BY <1>2, Zenon
  <2>3. strides \in Seq(Stride) /\ strides # <<>>
    BY <1>4
  <2> QED
    BY <2>1, <2>2, <2>3, Zenon DEF DequeTypeOK
<1>6. ListShape
  BY <1>4 DEF ListShape, D!ListShape, D!LastAt, Strides
<1>7. PlacedOK
  <2>1. Before(1) = 0
    BY BeforeFacts
  <2>2. Count = Base + Before(Strides) + strides[Strides].last
    BY <1>2, <1>3, <1>4, <2>1
  <2>3. ASSUME NEW i \in 1 .. Strides, NEW k \in 0 .. Slots - 1
        PROVE  strides[i].buf[k] = 0 /\ ~(k < strides[i].last)
    BY <1>1, <1>3, <1>4
  <2> QED
    BY <1>2, <1>4, <2>2, <2>3 DEF PlacedOK
<1>8. BehindOK
  BY <1>1, <1>2, <1>3, <1>4 DEF BehindOK
<1> QED
  BY <1>5, <1>6, <1>7, <1>8 DEF DequeInv

\* A key that gives no character, and everything else that is not the deque's.
LEMMA OtherInv ==
  ASSUME DequeInv, UNCHANGED dequeVars, Count' = Count
  PROVE  DequeInv'
<1>1. UNCHANGED <<waits, strides, got, pc, front, drained, wrapped>>
  BY DEF dequeVars
<1>2. Taken' = Taken /\ Base' = Base /\ Strides' = Strides /\ First' = First
  BY <1>1 DEF Taken, Base, Strides, First
<1>3. DequeTypeOK'
  BY <1>1 DEF DequeInv, DequeTypeOK
<1>4. ListShape'
  BY <1>1 DEF DequeInv, ListShape, D!ListShape, D!LastAt
<1>5. PlacedOK'
  BY <1>1, <1>2 DEF DequeInv, PlacedOK, Before
<1>6. BehindOK'
  BY <1>1, <1>2 DEF DequeInv, BehindOK
<1> QED
  BY <1>3, <1>4, <1>5, <1>6 DEF DequeInv

LEMMA NextInv ==
  ASSUME DequeInv, [TypedNext]_typedVars
  PROVE  DequeInv'
<1>1. CASE User
  <2>1. PICK k \in Keys : (PressKey(k) \/ ReleaseKey(k)) /\ UNCHANGED dequeVars
    BY <1>1 DEF User
  <2>2. typed' = typed
    BY <2>1, Zenon DEF PressKey, ReleaseKey, decoder
  <2> QED
    BY <2>1, <2>2, OtherInv DEF Count
<1>2. CASE Handler
  BY <1>2, OtherInv, TypeInv DEF Handler, Count
<1>3. CASE Main
  <2>1. typed' = typed /\ D!Getchar
    BY <1>3 DEF Main, vars
  <2> QED
    BY <2>1, FrontInv, AdvanceInv, RetireInv DEF D!Getchar
<1>4. CASE UNCHANGED typedVars
  BY <1>4, OtherInv DEF typedVars, vars, Count
<1> QED
  BY <1>1, <1>2, <1>3, <1>4 DEF TypedNext

\* Whatever the handler and getchar do to the deque between two steps of each other
\* (deque:38-46, 117-148, Keyboard.cpp:10-19), every character is in the cell whose turn
\* it is and a main() that waits for its characters stays behind the handler.
THEOREM TypedInvariant == TypedSpec => []DequeInv
<1>1. TypedInit => DequeInv
  BY InitInv
<1>2. DequeInv /\ [TypedNext]_typedVars => DequeInv'
  BY NextInv
<1> QED
  BY <1>1, <1>2, PTL DEF TypedSpec

\* reserve_1_at_end and pop_front keep the list of strides as both rely on it
\* (deque:117-127, 139-148), though one runs in an interrupt of the other.
THEOREM ListShapeHolds == TypedSpec => []ListShape
<1>1. DequeInv => ListShape
  BY DEF DequeInv
<1> QED
  BY <1>1, TypedInvariant, PTL

\* getchar returns no character twice before the read index of a stride goes round, even
\* if it is called with nothing to read (Keyboard.cpp:15-19).
THEOREM ReadOnce == TypedSpec => []OnceUntilWrap
<1>1. DequeInv => OnceUntilWrap
  <2> SUFFICES ASSUME DequeInv, ~wrapped, NEW i \in DOMAIN got, NEW j \in DOMAIN got,
                      i # j, got[i] = got[j]
               PROVE  got[i] = 0
    BY DEF OnceUntilWrap, D!OnceUntilWrap, D!Unwritten
  <2>1. i \in 1 .. Len(got) /\ j \in 1 .. Len(got)
    BY DEF DequeInv, DequeTypeOK
  <2>2. got[i] \in {0, i} /\ got[j] \in {0, j}
    BY <2>1 DEF DequeInv, PlacedOK
  <2> QED
    BY <2>1, <2>2
<1> QED
  BY <1>1, TypedInvariant, PTL

\* A main() that waits for its characters gets them in the order they were typed, none
\* lost and none before it was typed, until a character comes when the deque is empty
\* and its stride is full (deque:38-46, 117-127).
THEOREM ReadInOrder == TypedSpec => []D!InOrder
<1>1. DequeInv => D!InOrder
  <2> SUFFICES ASSUME DequeInv, waits, ~drained PROVE D!InOrder
    BY DEF D!InOrder
  <2>1. ~wrapped /\ \A i \in 1 .. Len(got) : got[i] = i
    BY DEF DequeInv, BehindOK
  <2>2. got = [i \in 1 .. Len(got) |-> i]
    BY <2>1 DEF DequeInv, DequeTypeOK
  <2>3. Len(got) <= Count
    <3>0. /\ Slots \in Nat /\ Strides \in Nat /\ Strides >= 1 /\ Len(got) \in Nat
          /\ First \in 0 .. Slots /\ Taken \in Nat /\ Base \in Int
          /\ strides[Strides].last \in 0 .. Slots
      BY ListFacts DEF DequeInv
    <3>1. Count = Base + Before(Strides) + strides[Strides].last
      BY <2>1 DEF DequeInv, PlacedOK
    <3>2. Len(got) <= Base + First
      BY <3>0 DEF Taken, Base
    <3>3. CASE Strides = 1
      <4>1. Before(1) = 0
        BY BeforeFacts
      <4>2. First <= strides[1].last \/ Len(got) + 1 = Taken
        BY <3>3 DEF DequeInv, BehindOK
      <4> QED
        BY <3>0, <3>1, <3>2, <3>3, <4>1, <4>2 DEF DequeInv, BehindOK
    <3>4. CASE Strides >= 2
      <4>1. Before(Strides) >= Slots /\ Before(Strides) \in Int
        BY <3>0, <3>4, BeforeFacts
      <4> QED
        BY <3>0, <3>1, <3>2, <4>1
    <3> QED
      BY <3>0, <3>3, <3>4
  <2> QED
    BY <2>2, <2>3 DEF D!InOrder, Count
<1> QED
  BY <1>1, TypedInvariant, PTL

-----------------------------------------------------------------------------
(***************************************************************************)
(* What will become of the bytes on the wire.                              *)
(***************************************************************************)

\* The bytes the keyboard sends, and the one the buffer begins with; the characters.
Bytes == {"00", "11", "12", "14", "1C", "2E", "77", "E0", "E1", "F0"}
Chars == {"a", "A", "5", "%", "euro", "not sign"}

\* A decoder, or one that has stored a byte behind its buffer and is lost.
Decoders ==
  [b : [0 .. 2 -> Bytes], n : 0 .. 3, keys : SUBSET Keys, typed : Seq(Chars), lost : BOOLEAN]

Decoder(b, n, down, chars) == [b |-> b, n |-> n, keys |-> down, typed |-> chars, lost |-> FALSE]

\* onInput, of a decoder with the code in b.
Told(b, d, sc) ==
  LET down == IF sc.dir = Press THEN d.keys \cup {sc.key} ELSE d.keys \ {sc.key}
      shifted == "ShiftLeft" \in down
      found == QwertyLookup(sc.key, shifted, "AltRight" \in down)
      c == IF shifted THEN toupper(found) ELSE found
  IN Decoder(b, 0, down, IF sc.dir = Release \/ c = NoChar THEN d.typed ELSE Append(d.typed, AsByte(c)))

\* onInterrupt, of a decoder.
Takes(d, byte) ==
  IF d.lost THEN d
  ELSE IF d.n = 3 THEN [d EXCEPT !.lost = TRUE]
  ELSE LET b == [d.b EXCEPT ![d.n] = byte]
           code == Decoded(b, d.n + 1)
       IN IF code = <<>> THEN Decoder(b, d.n + 1, d.keys, d.typed)
          ELSE IF code = <<Invalid>> THEN Decoder(b, 0, d.keys, d.typed)
          ELSE Told(b, d, code[1])

\* The characters are those meant, as far as they go.
Fits(d, m) ==
  ~d.lost => /\ Len(d.typed) <= Len(m)
             /\ \A i \in 1 .. Len(d.typed) : d.typed[i] = m[i] \/ m[i] = "euro"

\* The decoders p lead from `now` through the bytes w to d.
Path(p, w, now, d, m) ==
  /\ p \in [1 .. Len(w) + 1 -> Decoders]
  /\ p[1] = now /\ p[Len(w) + 1] = d
  /\ \A i \in 1 .. Len(w) : p[i + 1] = Takes(p[i], w[i])
  /\ \A i \in 1 .. Len(w) + 1 : Fits(p[i], m)
Leads(w, now, d, m) == \E p : Path(p, w, now, d, m)

\* All is decoded, and the keys are those the user holds.
AtRest(d, down, m) == d.lost \/ (d.n = 0 /\ d.keys = down /\ Len(d.typed) = Len(m))

Current == Decoder(buffer, offset, keys, typed)

KeyTypeOK ==
  /\ held \in SUBSET (Keys \ {"Pause"}) /\ wire \in Seq(Bytes) /\ buffer \in [0 .. 2 -> Bytes]
  /\ offset \in 0 .. 255 /\ meant \in Seq(Chars)

\* An unfinished code begins with one of the three prefixes, and is not longer than the
\* buffer unless it is the release of Pause.
BufferOK ==
  \/ offset = 0
  \/ offset = 1 /\ buffer[0] \in {"E0", "E1", "F0"}
  \/ offset = 2 /\ buffer[0] \in {"E0", "E1"} /\ (buffer[0] = "E0" => buffer[1] = "F0")
  \/ offset >= 3 /\ buffer[0] = "E1" /\ buffer[1] = "F0"

\* The decoder, once it has taken all that is on the wire, has what the user meant.
EndsAtRest(w, now, down, m) == \E d \in Decoders : Leads(w, now, d, m) /\ AtRest(d, down, m)
WireOK == ~overrun => EndsAtRest(wire, Current, held, meant)

KeyInv == KeyTypeOK /\ BufferOK /\ WireOK

-----------------------------------------------------------------------------
(***************************************************************************)
(* The tables.                                                             *)
(***************************************************************************)

PlainKeys == {"AltLeft", "ShiftLeft", "CtrlLeft", "A", "N5"}
ExtendedKeys == {"AltRight", "CtrlRight"}
PrefixBytes == {"E0", "E1", "F0"}

\* No byte is that of two keys, and none is a prefix.
LEMMA TableFacts ==
  /\ DOMAIN Plain = PlainKeys /\ DOMAIN Extended = ExtendedKeys
  /\ Keys = PlainKeys \cup ExtendedKeys \cup {"Pause"}
  /\ \A k \in PlainKeys :
       /\ Plain[k] \in Bytes /\ Plain[k] \notin PrefixBytes /\ Lookup(Plain, Plain[k]) = k
  /\ \A k \in ExtendedKeys :
       /\ Extended[k] \in Bytes /\ Extended[k] \notin PrefixBytes /\ Lookup(Extended, Extended[k]) = k
  /\ DOMAIN mapping = {"A", "N5"}
<1>1. DOMAIN Plain = PlainKeys BY DEF Plain, PlainKeys
<1>2. DOMAIN Extended = ExtendedKeys BY DEF Extended, ExtendedKeys
<1>3. /\ Plain["AltLeft"] = "11" /\ Plain["ShiftLeft"] = "12" /\ Plain["CtrlLeft"] = "14"
      /\ Plain["A"] = "1C" /\ Plain["N5"] = "2E"
  BY DEF Plain
<1>4. Extended["AltRight"] = "11" /\ Extended["CtrlRight"] = "14" BY DEF Extended
<1>5. \A k \in PlainKeys : Plain[k] \in Bytes /\ Plain[k] \notin PrefixBytes
  <2>1. \A k \in PlainKeys : Plain[k] \in {"11", "12", "14", "1C", "2E"} BY <1>3 DEF PlainKeys
  <2>2. \A c \in {"11", "12", "14", "1C", "2E"} : c \in Bytes BY DEF Bytes
  <2>3. \A c \in {"11", "12", "14", "1C", "2E"} : c \notin PrefixBytes BY DEF PrefixBytes
  <2> QED BY <2>1, <2>2, <2>3
<1>6. ASSUME NEW k \in PlainKeys PROVE Lookup(Plain, Plain[k]) = k
  <2>1. \A j \in PlainKeys : Plain[j] = Plain[k] => j = k BY <1>3 DEF PlainKeys
  <2> QED BY <1>1, <2>1 DEF Lookup
<1>7. ASSUME NEW k \in ExtendedKeys
      PROVE  Extended[k] \in Bytes /\ Extended[k] \notin PrefixBytes /\ Lookup(Extended, Extended[k]) = k
  <2>1. \A j \in DOMAIN Extended : Extended[j] = Extended[k] => j = k BY <1>2, <1>4 DEF ExtendedKeys
  <2>2. Lookup(Extended, Extended[k]) = k BY <1>2, <2>1 DEF Lookup
  <2>3. Extended[k] \in {"11", "14"} BY <1>4 DEF ExtendedKeys
  <2>4. \A c \in {"11", "14"} : c \in Bytes BY DEF Bytes
  <2>5. \A c \in {"11", "14"} : c \notin PrefixBytes BY DEF PrefixBytes
  <2> QED BY <2>2, <2>3, <2>4, <2>5
<1>8. DOMAIN mapping = {"A", "N5"} BY DEF mapping
<1>9. Keys = PlainKeys \cup ExtendedKeys \cup {"Pause"} BY <1>1, <1>2 DEF Keys
<1> QED BY <1>1, <1>2, <1>5, <1>6, <1>7, <1>8, <1>9

\* What the layout gives for a key that was just pressed is what is printed on it.
LEMMA CharacterIs ==
  ASSUME NEW k \in Keys, NEW down, k \in down
  PROVE  LET shifted == "ShiftLeft" \in down
             found == QwertyLookup(k, shifted, "AltRight" \in down)
             c == IF shifted THEN toupper(found) ELSE found
         IN \/ c = NoChar /\ Meaning(k, down) = <<>>
            \/ /\ c # NoChar /\ AsByte(c) \in Chars
               /\ \E x \in Chars : Meaning(k, down) = <<x>> /\ (AsByte(c) = x \/ x = "euro")
<1> DEFINE shifted == "ShiftLeft" \in down
           alt == "AltRight" \in down
<1>1. /\ ~shifted /\ ~alt => Column(shifted, alt) = 1
      /\ shifted /\ ~alt => Column(shifted, alt) = 2
      /\ ~shifted /\ alt => Column(shifted, alt) = 3
      /\ shifted /\ alt => Column(shifted, alt) = 4
  BY DEF Column
<1>2. /\ mapping["A"] = <<"a", "a", NoChar, NoChar>> /\ mapping["N5"] = <<"5", "%", "euro", NoChar>>
      /\ "A" \in DOMAIN mapping /\ "N5" \in DOMAIN mapping /\ DOMAIN mapping = {"A", "N5"}
  BY DEF mapping
<1>3. CASE k = "A"
  <2>1. QwertyLookup(k, shifted, alt) = IF alt THEN NoChar ELSE "a"
    BY <1>1, <1>2, <1>3 DEF QwertyLookup
  <2>2. alt => Meaning(k, down) = <<>> BY <1>3 DEF Meaning
  <2>3. ~alt => Meaning(k, down) = IF shifted THEN <<"A">> ELSE <<"a">> BY <1>3 DEF Meaning
  <2>4. /\ toupper("a") = "A" /\ toupper(NoChar) = NoChar /\ AsByte("a") = "a" /\ AsByte("A") = "A"
        /\ NoChar \notin {"a", "A"}
    BY DEF toupper, AsByte, NoChar
  <2>5. "a" \in Chars /\ "A" \in Chars BY DEF Chars
  <2>6. CASE alt BY <2>1, <2>2, <2>4, <2>6
  <2>7. CASE ~alt /\ shifted BY <2>1, <2>3, <2>4, <2>5, <2>7
  <2>8. CASE ~alt /\ ~shifted BY <2>1, <2>3, <2>4, <2>5, <2>8
  <2> QED BY <2>6, <2>7, <2>8
<1>4. CASE k = "N5"
  <2>1. QwertyLookup(k, shifted, alt) =
          IF alt THEN (IF shifted THEN NoChar ELSE "euro") ELSE (IF shifted THEN "%" ELSE "5")
    BY <1>1, <1>2, <1>4 DEF QwertyLookup
  <2>2. alt => Meaning(k, down) = IF shifted THEN <<>> ELSE <<"euro">> BY <1>4 DEF Meaning
  <2>3. ~alt => Meaning(k, down) = IF shifted THEN <<"%">> ELSE <<"5">> BY <1>4 DEF Meaning
  <2>4. /\ toupper("%") = "%" /\ toupper(NoChar) = NoChar /\ AsByte("5") = "5" /\ AsByte("%") = "%"
        /\ AsByte("euro") = "not sign" /\ NoChar \notin {"5", "%", "euro"}
    BY DEF toupper, AsByte, NoChar
  <2>5. "5" \in Chars /\ "%" \in Chars /\ "euro" \in Chars /\ "not sign" \in Chars BY DEF Chars
  <2>6. CASE alt /\ shifted BY <2>1, <2>2, <2>4, <2>6
  <2>7. CASE alt /\ ~shifted BY <2>1, <2>2, <2>4, <2>5, <2>7
  <2>8. CASE ~alt /\ shifted BY <2>1, <2>3, <2>4, <2>5, <2>8
  <2>9. CASE ~alt /\ ~shifted BY <2>1, <2>3, <2>4, <2>5, <2>9
  <2> QED BY <2>6, <2>7, <2>8, <2>9
<1>5. CASE k \notin {"A", "N5"}
  <2>1. k = "ShiftLeft" => Column(shifted, alt) # 1 BY <1>1
  <2>2. QwertyLookup(k, shifted, alt) = NoChar BY <1>2, <1>5, <2>1 DEF QwertyLookup
  <2>3. Meaning(k, down) = <<>> BY <1>5 DEF Meaning
  <2> QED BY <2>2, <2>3 DEF toupper, NoChar
<1> QED BY <1>3, <1>4, <1>5

-----------------------------------------------------------------------------
(***************************************************************************)
(* From one decoder to the next.                                           *)
(***************************************************************************)

\* The first decoder is the one there is; with nothing on the wire it is the last, too.
LEMMA LeadsFrom ==
  ASSUME NEW w \in Seq(Bytes), NEW now, NEW d, NEW m, Leads(w, now, d, m)
  PROVE  /\ now \in Decoders /\ d \in Decoders /\ Fits(now, m) /\ Fits(d, m)
         /\ w = <<>> => now = d
<1>1. PICK p : Path(p, w, now, d, m) BY DEF Leads
<1>2. Len(w) \in Nat BY LenProperties
<1>3. 1 \in 1 .. Len(w) + 1 /\ Len(w) + 1 \in 1 .. Len(w) + 1 BY <1>2
<1>4. p[1] \in Decoders /\ p[Len(w) + 1] \in Decoders BY <1>1, <1>3 DEF Path
<1>5. Fits(p[1], m) /\ Fits(p[Len(w) + 1], m) BY <1>1, <1>3 DEF Path
<1>6. w = <<>> => p[1] = p[Len(w) + 1] BY <1>2
<1> QED BY <1>1, <1>4, <1>5, <1>6 DEF Path

LEMMA LeadsNowhere ==
  ASSUME NEW d \in Decoders, NEW m, Fits(d, m)
  PROVE  Leads(<<>>, d, d, m)
<1> DEFINE p == [i \in 1 .. 1 |-> d]
<1>1. Len(<<>>) = 0 OBVIOUS
<1>2. p \in [1 .. 1 -> Decoders] /\ p[1] = d OBVIOUS
<1>3. \A i \in 1 .. 1 : Fits(p[i], m) BY <1>2
<1> HIDE DEF p
<1>4. Path(p, <<>>, d, d, m) BY <1>1, <1>2, <1>3 DEF Path
<1> QED BY <1>4 DEF Leads

\* A byte more on the wire.
LEMMA LeadsOn ==
  ASSUME NEW w \in Seq(Bytes), NEW byte \in Bytes, NEW now, NEW d, NEW m, Leads(w, now, d, m),
         NEW e \in Decoders, e = Takes(d, byte), Fits(e, m)
  PROVE  Append(w, byte) \in Seq(Bytes) /\ Leads(Append(w, byte), now, e, m)
<1>1. PICK p : Path(p, w, now, d, m) BY DEF Leads
<1> DEFINE n == Len(w)
           v == Append(w, byte)
           q == [i \in 1 .. n + 2 |-> IF i <= n + 1 THEN p[i] ELSE e]
<1>2. n \in Nat BY LenProperties
<1>3. v \in Seq(Bytes) /\ Len(v) = n + 1 /\ v[n + 1] = byte /\ \A i \in 1 .. n : v[i] = w[i]
  BY AppendProperties
<1>4. /\ p \in [1 .. n + 1 -> Decoders] /\ p[1] = now /\ p[n + 1] = d
      /\ \A i \in 1 .. n : p[i + 1] = Takes(p[i], w[i])
      /\ \A i \in 1 .. n + 1 : Fits(p[i], m)
  BY <1>1 DEF Path
<1> HIDE DEF n, v
<1>5. /\ q \in [1 .. n + 2 -> Decoders] /\ q[n + 2] = e
      /\ \A i \in 1 .. n + 1 : q[i] = p[i]
  BY <1>2, <1>4
<1> HIDE DEF q
<1>6. q[1] = now BY <1>2, <1>4, <1>5
<1>7. ASSUME NEW i \in 1 .. n + 1 PROVE q[i + 1] = Takes(q[i], v[i])
  <2>1. CASE i = n + 1
    <3>1. q[i + 1] = e /\ q[i] = d /\ v[i] = byte BY <1>2, <1>3, <1>4, <1>5, <2>1
    <3> QED BY <3>1
  <2>2. CASE i # n + 1
    <3>1. i \in 1 .. n /\ i + 1 \in 1 .. n + 1 BY <1>2, <2>2
    <3> QED BY <1>3, <1>4, <1>5, <3>1
  <2> QED BY <2>1, <2>2
<1>8. ASSUME NEW i \in 1 .. n + 2 PROVE Fits(q[i], m)
  <2>1. CASE i = n + 2 BY <1>5, <2>1
  <2>2. CASE i # n + 2
    <3>1. i \in 1 .. n + 1 BY <1>2, <2>2
    <3> QED BY <1>4, <1>5, <3>1
  <2> QED BY <2>1, <2>2
<1>9. Len(v) + 1 = n + 2 /\ Len(v) = n + 1 BY <1>2, <1>3
<1>10. Path(q, v, now, e, m) BY <1>5, <1>6, <1>7, <1>8, <1>9 DEF Path
<1> QED BY <1>3, <1>10 DEF Leads, v

\* More that is meant.
LEMMA FitsMore ==
  ASSUME NEW d \in Decoders, NEW m \in Seq(Chars), NEW x \in Seq(Chars), Fits(d, m)
  PROVE  Fits(d, m \o x)
<1>1. Len(m) \in Nat /\ Len(x) \in Nat /\ Len(d.typed) \in Nat BY DEF Decoders
<1>2. Len(m \o x) = Len(m) + Len(x) /\ \A i \in 1 .. Len(m) : (m \o x)[i] = m[i]
  BY <1>1, ConcatProperties
<1> QED BY <1>1, <1>2 DEF Fits

LEMMA LeadsMore ==
  ASSUME NEW w \in Seq(Bytes), NEW now, NEW d, NEW m \in Seq(Chars), NEW x \in Seq(Chars), Leads(w, now, d, m)
  PROVE  Leads(w, now, d, m \o x)
<1>1. PICK p : Path(p, w, now, d, m) BY DEF Leads
<1>2. \A i \in 1 .. Len(w) + 1 : p[i] \in Decoders /\ Fits(p[i], m) BY <1>1 DEF Path
<1>3. \A i \in 1 .. Len(w) + 1 : Fits(p[i], m \o x) BY <1>2, FitsMore
<1>4. Path(p, w, now, d, m \o x) BY <1>1, <1>3 DEF Path
<1> QED BY <1>4 DEF Leads

\* A byte is taken.
LEMMA LeadsRest ==
  ASSUME NEW w \in Seq(Bytes), w # <<>>, NEW now, NEW d, NEW m, Leads(w, now, d, m)
  PROVE  Tail(w) \in Seq(Bytes) /\ Head(w) \in Bytes /\ Leads(Tail(w), Takes(now, Head(w)), d, m)
<1>1. PICK p : Path(p, w, now, d, m) BY DEF Leads
<1> DEFINE n == Len(w)
           v == Tail(w)
           q == [i \in 1 .. n |-> p[i + 1]]
<1>2. n \in Nat /\ n > 0 BY EmptySeq, LenProperties
<1>3. v \in Seq(Bytes) /\ Len(v) = n - 1 /\ Head(w) \in Bytes /\ Head(w) = w[1]
      /\ \A i \in 1 .. n - 1 : v[i] = w[i + 1]
  BY HeadTailProperties
<1>4. /\ p \in [1 .. n + 1 -> Decoders] /\ p[1] = now /\ p[n + 1] = d
      /\ \A i \in 1 .. n : p[i + 1] = Takes(p[i], w[i])
      /\ \A i \in 1 .. n + 1 : Fits(p[i], m)
  BY <1>1 DEF Path
<1> HIDE DEF n, v
<1>5. q \in [1 .. n -> Decoders] /\ \A i \in 1 .. n : q[i] = p[i + 1] BY <1>2, <1>4
<1> HIDE DEF q
<1>6. q[1] = Takes(now, Head(w)) /\ q[n] = d BY <1>2, <1>3, <1>4, <1>5
<1>7. ASSUME NEW i \in 1 .. n - 1 PROVE q[i + 1] = Takes(q[i], v[i])
  <2>1. i \in 1 .. n /\ i + 1 \in 1 .. n BY <1>2
  <2>2. q[i + 1] = p[i + 2] /\ q[i] = p[i + 1] /\ v[i] = w[i + 1]
    BY <1>2, <1>3, <1>5, <2>1
  <2>3. p[(i + 1) + 1] = Takes(p[i + 1], w[i + 1]) BY <1>4, <2>1
  <2>4. (i + 1) + 1 = i + 2 BY <1>2
  <2> QED BY <2>2, <2>3, <2>4
<1>8. ASSUME NEW i \in 1 .. n PROVE Fits(q[i], m)
  <2>1. i + 1 \in 1 .. n + 1 BY <1>2
  <2> QED BY <1>4, <1>5, <2>1
<1>9. Len(v) + 1 = n /\ Len(v) = n - 1 BY <1>2, <1>3
<1>10. Path(q, v, Takes(now, Head(w)), d, m) BY <1>5, <1>6, <1>7, <1>8, <1>9 DEF Path
<1> QED BY <1>3, <1>10 DEF Leads, v

-----------------------------------------------------------------------------
(***************************************************************************)
(* The interrupt.                                                          *)
(***************************************************************************)

\* The tests of onInterrupt, by the first byte of the code.
LEMMA DecodedIs ==
  ASSUME NEW b, NEW n \in Nat
  PROVE  /\ b[0] \notin PrefixBytes => Decoded(b, n) = <<Code(Lookup(Plain, b[0]), Press)>>
         /\ b[0] = "F0" => Decoded(b, n) = IF n = 2 THEN <<Code(Lookup(Plain, b[1]), Release)>> ELSE <<>>
         /\ b[0] = "E0" =>
              Decoded(b, n) = IF n = 2 /\ b[1] # "F0" THEN <<Code(Lookup(Extended, b[1]), Press)>>
                              ELSE IF n = 3 /\ b[1] = "F0" THEN <<Code(Lookup(Extended, b[2]), Release)>>
                              ELSE <<>>
         /\ b[0] = "E1" =>
              Decoded(b, n) = IF n = 3 /\ b[1] # "F0" THEN <<Code("Pause", Press)>>
                              ELSE IF n = 5 /\ b[1] = "F0" THEN <<Code("Pause", Release)>>
                              ELSE <<>>
<1>1. CASE b[0] \notin PrefixBytes BY <1>1 DEF Decoded, PrefixBytes, PlainRelease
<1>2. CASE b[0] = "F0" BY <1>2 DEF Decoded, PrefixBytes, PlainRelease
<1>3. CASE b[0] = "E0" BY <1>3 DEF Decoded, PrefixBytes, PlainRelease, ShortPress
<1>4. CASE b[0] = "E1" BY <1>4 DEF Decoded, PrefixBytes, PlainRelease
<1> QED BY <1>1, <1>2, <1>3, <1>4 DEF PrefixBytes

\* What is in the buffer afterwards.
LEMMA BufferStep ==
  ASSUME KeyTypeOK, BufferOK, OnInterrupt
  PROVE  KeyTypeOK' /\ BufferOK'
<1>1. PICK s \in Stores(buffer, offset, Head(wire)) :
        /\ buffer' = s[1]
        /\ offset' = IF s[2] = 0 \/ Decoded(s[1], s[2]) = <<>> THEN s[2] ELSE 0
  BY DEF OnInterrupt
<1>2. /\ Head(wire) \in Bytes /\ Tail(wire) \in Seq(Bytes) /\ offset \in 0 .. 255 /\ buffer \in [0 .. 2 -> Bytes]
      /\ wire' = Tail(wire) /\ held' = held /\ meant' = meant
  BY HeadTailProperties DEF KeyTypeOK, OnInterrupt
<1> DEFINE b == s[1]
           n == s[2]
<1>3. CASE offset < 3
  <2>1. b = [buffer EXCEPT ![offset] = Head(wire)] /\ n = offset + 1 BY <1>1, <1>3 DEF Stores
  <2>2. b \in [0 .. 2 -> Bytes] /\ n \in 1 .. 3 BY <1>2, <1>3, <2>1
  <2>3. KeyTypeOK' BY <1>1, <1>2, <2>2 DEF KeyTypeOK
  <2>4. \A i \in 0 .. 2 : i # offset => b[i] = buffer[i] BY <1>2, <2>1
  <2> HIDE DEF b, n
  <2>a. n \in Nat /\ n # 0 BY <2>2
  <2>5. CASE Decoded(b, n) # <<>>
    <3>1. offset' = 0 BY <1>1, <2>a, <2>5 DEF b, n
    <3> QED BY <2>3, <3>1 DEF BufferOK
  <2>6. CASE Decoded(b, n) = <<>>
    <3>1. buffer' = b /\ offset' = n BY <1>1, <2>6 DEF b, n
    <3>2. b[0] \in PrefixBytes BY <2>a, <2>6, DecodedIs
    <3>3. CASE n = 1 BY <2>3, <3>1, <3>2, <3>3 DEF BufferOK, PrefixBytes
    <3>4. CASE n = 2
      <4>1. b[0] # "F0" BY <2>a, <2>6, <3>4, DecodedIs
      <4>2. b[0] = "E0" => b[1] = "F0" BY <2>a, <2>6, <3>4, DecodedIs
      <4> QED BY <2>3, <3>1, <3>2, <3>4, <4>1, <4>2 DEF BufferOK, PrefixBytes
    <3>5. CASE n = 3
      <4>1. b[0] = buffer[0] /\ b[1] = buffer[1] /\ offset = 2 BY <1>2, <2>1, <2>4, <3>5
      <4>2. b[0] # "F0" BY <4>1 DEF BufferOK
      <4>3. ~(b[0] = "E0" /\ b[1] = "F0")
        <5>1. SUFFICES ASSUME b[0] = "E0", b[1] = "F0" PROVE FALSE OBVIOUS
        <5>2. Decoded(b, n) = <<Code(Lookup(Extended, b[2]), Release)>> BY <2>a, <3>5, <5>1, DecodedIs
        <5> QED BY <2>6, <5>2
      <4>4. b[0] # "E0" BY <4>1, <4>3 DEF BufferOK
      <4>5. b[0] = "E1" => b[1] = "F0" BY <2>a, <2>6, <3>5, DecodedIs
      <4> QED BY <2>3, <3>1, <3>2, <3>5, <4>2, <4>4, <4>5 DEF BufferOK, PrefixBytes
    <3> QED BY <2>2, <3>3, <3>4, <3>5
  <2> QED BY <2>3, <2>5, <2>6
<1>4. CASE offset >= 3
  <2>1. b = buffer /\ n \in 0 .. 255 /\ (n = 0 \/ n >= 3)
    <3>1. CASE offset = 3 BY <1>1, <3>1 DEF Stores
    <3>2. CASE offset > 3
      <4>1. b = buffer /\ n = (offset + 1) % 256 BY <1>1, <1>2, <3>2 DEF Stores
      <4>2. offset + 1 < 256 => (offset + 1) % 256 = offset + 1 BY <1>2
      <4>3. offset + 1 = 256 => (offset + 1) % 256 = 0 BY <1>2
      <4> HIDE DEF n, b
      <4> QED BY <1>2, <3>2, <4>1, <4>2, <4>3
    <3> QED BY <1>2, <1>4, <3>1, <3>2
  <2> HIDE DEF b, n
  <2>2. buffer' = buffer /\ (offset' = n \/ offset' = 0) BY <1>1, <2>1 DEF b, n
  <2>3. buffer[0] = "E1" /\ buffer[1] = "F0" BY <1>2, <1>4 DEF BufferOK
  <2>4. BufferOK' BY <2>1, <2>2, <2>3 DEF BufferOK
  <2>5. KeyTypeOK'
    <3>1. offset' \in 0 .. 255 /\ buffer' = buffer BY <2>1, <2>2
    <3> QED BY <1>2, <3>1 DEF KeyTypeOK
  <2> QED BY <2>4, <2>5
<1> QED BY <1>2, <1>3, <1>4

\* As long as no byte was stored behind the buffer, the decoder takes the next byte.
LEMMA TakesByte ==
  ASSUME KeyTypeOK, OnInterrupt, offset < 3
  PROVE  Current' = Takes(Current, Head(wire))
<1> DEFINE b == [buffer EXCEPT ![offset] = Head(wire)]
           code == Decoded(b, offset + 1)
<1>1. offset + 1 # 0 /\ offset # 3 BY DEF KeyTypeOK
<1>2. Stores(buffer, offset, Head(wire)) = {<<b, offset + 1>>} BY DEF Stores
<1>3. /\ buffer' = b
      /\ offset' = IF code = <<>> THEN offset + 1 ELSE 0
      /\ IF code \in {<<>>, <<Invalid>>} THEN UNCHANGED <<keys, typed>> ELSE OnInput(code[1])
  BY <1>1, <1>2 DEF OnInterrupt
<1>4. /\ Current.b = buffer /\ Current.n = offset /\ Current.keys = keys /\ Current.typed = typed
      /\ Current.lost = FALSE
  BY DEF Current, Decoder
<1>5. <<Invalid>> # <<>> OBVIOUS
<1> DEFINE c == Current
<1> HIDE DEF b, code
<1>6. Takes(Current, Head(wire)) =
        IF code = <<>> THEN Decoder(b, offset + 1, keys, typed)
        ELSE IF code = <<Invalid>> THEN Decoder(b, 0, keys, typed)
        ELSE Told(b, Current, code[1])
  BY <1>1, <1>4 DEF Takes, b, code
<1>7. CASE code = <<>> BY <1>3, <1>6, <1>7 DEF Current
<1>8. CASE code = <<Invalid>> BY <1>3, <1>5, <1>6, <1>8 DEF Current
<1>9. CASE code \notin {<<>>, <<Invalid>>}
  <2> DEFINE sc == code[1]
  <2>1. OnInput(sc) /\ Current' = Decoder(b, 0, keys', typed') BY <1>3, <1>9 DEF Current
  <2>2. Takes(Current, Head(wire)) = Told(b, Current, sc) BY <1>6, <1>9
  <2> HIDE DEF sc
  <2>3. Told(b, Current, sc) = Decoder(b, 0, keys', typed') BY <1>4, <2>1 DEF OnInput, Told
  <2> QED BY <2>1, <2>2, <2>3
<1> QED BY <1>7, <1>8, <1>9

LEMMA InterruptInv ==
  ASSUME KeyInv, OnInterrupt
  PROVE  KeyInv'
<1>1. KeyTypeOK' /\ BufferOK' BY BufferStep DEF KeyInv
<1>2. WireOK'
  <2>1. SUFFICES ASSUME ~overrun' PROVE \E d \in Decoders : Leads(wire, Current, d, meant)' /\ AtRest(d, held, meant)'
    BY DEF WireOK, EndsAtRest
  <2>2. ~overrun /\ offset < 3 /\ wire # <<>> /\ wire' = Tail(wire) /\ held' = held /\ meant' = meant
    <3>1. overrun' = (overrun \/ offset >= 3) BY DEF OnInterrupt
    <3>2. ~overrun /\ ~(offset >= 3) BY <2>1, <3>1
    <3>3. offset < 3 BY <3>2 DEF KeyInv, KeyTypeOK
    <3> QED BY <3>2, <3>3 DEF OnInterrupt
  <2>3. PICK d \in Decoders : Leads(wire, Current, d, meant) /\ AtRest(d, held, meant)
    BY <2>2 DEF KeyInv, WireOK, EndsAtRest
  <2>4. Current' = Takes(Current, Head(wire)) BY <2>2, TakesByte DEF KeyInv
  <2>5. Leads(Tail(wire), Takes(Current, Head(wire)), d, meant)
    <3>1. wire \in Seq(Bytes) BY DEF KeyInv, KeyTypeOK
    <3> QED BY <2>2, <2>3, <3>1, LeadsRest
  <2>6. Leads(wire, Current, d, meant)' BY <2>2, <2>4, <2>5
  <2>7. AtRest(d, held, meant)' BY <2>2, <2>3
  <2> QED BY <2>6, <2>7
<1> QED BY <1>1, <1>2 DEF KeyInv


-----------------------------------------------------------------------------
(***************************************************************************)
(* What the decoder will make of the bytes of a key.                       *)
(***************************************************************************)

\* Bytes sent one after the other.
LEMMA OneMore ==
  ASSUME NEW S, NEW w \in Seq(S), NEW x \in S
  PROVE  w \o <<x>> = Append(w, x)
BY AppendIsConcat

LEMMA ManyMore ==
  ASSUME NEW S, NEW w \in Seq(S), NEW v \in Seq(S), NEW x \in S
  PROVE  w \o Append(v, x) = Append(w \o v, x)
<1>1. <<x>> \in Seq(S) /\ w \o v \in Seq(S) BY ConcatProperties
<1>2. Append(v, x) = v \o <<x>> /\ Append(w \o v, x) = (w \o v) \o <<x>> BY <1>1, AppendIsConcat
<1>3. (w \o v) \o <<x>> = w \o (v \o <<x>>) BY <1>1, ConcatAssociative
<1> QED BY <1>2, <1>3

\* A decoder that is lost stays so.
LEMMA LostOn ==
  ASSUME NEW w \in Seq(Bytes), NEW v \in Seq(Bytes), NEW now, NEW d, NEW m, Leads(w, now, d, m), d.lost
  PROVE  w \o v \in Seq(Bytes) /\ Leads(w \o v, now, d, m)
<1>1. PICK p : Path(p, w, now, d, m) BY DEF Leads
<1> DEFINE n == Len(w)
           k == Len(v)
           u == w \o v
           q == [i \in 1 .. n + k + 1 |-> IF i <= n + 1 THEN p[i] ELSE d]
<1>2. n \in Nat /\ k \in Nat BY LenProperties
<1>3. u \in Seq(Bytes) /\ Len(u) = n + k /\ \A i \in 1 .. n : u[i] = w[i] BY ConcatProperties
<1>4. /\ p \in [1 .. n + 1 -> Decoders] /\ p[1] = now /\ p[n + 1] = d
      /\ \A i \in 1 .. n : p[i + 1] = Takes(p[i], w[i])
      /\ \A i \in 1 .. n + 1 : Fits(p[i], m)
  BY <1>1 DEF Path
<1> HIDE DEF n, k, u
<1>5. d \in Decoders /\ Fits(d, m) BY <1>2, <1>4
<1>6. /\ q \in [1 .. n + k + 1 -> Decoders]
      /\ \A i \in 1 .. n + 1 : q[i] = p[i]
      /\ \A i \in n + 1 .. n + k + 1 : q[i] = d
  BY <1>2, <1>4, <1>5
<1> HIDE DEF q
<1>7. q[1] = now /\ q[n + k + 1] = d BY <1>2, <1>4, <1>6
<1>8. ASSUME NEW i \in 1 .. n + k PROVE q[i + 1] = Takes(q[i], u[i])
  <2>1. CASE i \in 1 .. n
    <3>1. i \in 1 .. n + 1 /\ i + 1 \in 1 .. n + 1 BY <1>2, <2>1
    <3> QED BY <1>3, <1>4, <1>6, <2>1, <3>1
  <2>2. CASE i \notin 1 .. n
    <3>1. i \in n + 1 .. n + k + 1 /\ i + 1 \in n + 1 .. n + k + 1 BY <1>2, <2>2
    <3>2. q[i] = d /\ q[i + 1] = d BY <1>6, <3>1
    <3> QED BY <3>2 DEF Takes
  <2> QED BY <2>1, <2>2
<1>9. ASSUME NEW i \in 1 .. n + k + 1 PROVE Fits(q[i], m)
  <2>1. CASE i \in 1 .. n + 1 BY <1>4, <1>6, <2>1
  <2>2. CASE i \notin 1 .. n + 1
    <3>1. i \in n + 1 .. n + k + 1 BY <1>2, <2>2
    <3> QED BY <1>5, <1>6, <3>1
  <2> QED BY <2>1, <2>2
<1>10. Path(q, u, now, d, m) BY <1>3, <1>6, <1>7, <1>8, <1>9 DEF Path
<1> QED BY <1>3, <1>10 DEF Leads, u

\* The code is not complete yet.
LEMMA WaitsOn ==
  ASSUME NEW w \in Seq(Bytes), NEW byte \in Bytes, NEW now, NEW d \in Decoders, NEW m, Leads(w, now, d, m),
         ~d.lost, d.n < 3, Decoded([d.b EXCEPT ![d.n] = byte], d.n + 1) = <<>>
  PROVE  LET e == Decoder([d.b EXCEPT ![d.n] = byte], d.n + 1, d.keys, d.typed)
         IN e \in Decoders /\ Append(w, byte) \in Seq(Bytes) /\ Leads(Append(w, byte), now, e, m)
<1> DEFINE b == [d.b EXCEPT ![d.n] = byte]
           e == Decoder(b, d.n + 1, d.keys, d.typed)
<1>1. d.n \in 0 .. 2 /\ d.b \in [0 .. 2 -> Bytes] BY DEF Decoders
<1>2. b \in [0 .. 2 -> Bytes] /\ d.n + 1 \in 0 .. 3 BY <1>1
<1>3. d.n # 3 BY <1>1
<1>4. e = Takes(d, byte) BY <1>3 DEF Takes
<1> HIDE DEF b
<1>5. e \in Decoders BY <1>2 DEF Decoder, Decoders
<1>6. Fits(d, m) BY LeadsFrom
<1>7. Fits(e, m) BY <1>6 DEF Fits, Decoder
<1> HIDE DEF e
<1>8. Append(w, byte) \in Seq(Bytes) /\ Leads(Append(w, byte), now, e, m) BY <1>4, <1>5, <1>7, LeadsOn
<1> QED BY <1>5, <1>8 DEF e, b

\* The code is complete.
LEMMA TellsOn ==
  ASSUME NEW w \in Seq(Bytes), NEW byte \in Bytes, NEW now, NEW d \in Decoders, NEW m, Leads(w, now, d, m),
         ~d.lost, d.n < 3, NEW k \in Keys, NEW dir,
         Decoded([d.b EXCEPT ![d.n] = byte], d.n + 1) = <<Code(k, dir)>>,
         NEW e \in Decoders, e = Told([d.b EXCEPT ![d.n] = byte], d, Code(k, dir)), Fits(e, m)
  PROVE  Append(w, byte) \in Seq(Bytes) /\ Leads(Append(w, byte), now, e, m)
<1> DEFINE b == [d.b EXCEPT ![d.n] = byte]
           code == Decoded(b, d.n + 1)
<1>1. d.n # 3 BY DEF Decoders
<1>2. k # "Invalid" BY TableFacts DEF PlainKeys, ExtendedKeys
<1>3. Code(k, dir) # Invalid BY <1>2 DEF Code, Invalid
<1>4. code = <<Code(k, dir)>> OBVIOUS
<1> HIDE DEF b, code
<1>5. code # <<>> /\ code # <<Invalid>> /\ code[1] = Code(k, dir) BY <1>3, <1>4
<1>6. Takes(d, byte) = Told(b, d, code[1]) BY <1>1, <1>5 DEF Takes, b, code
<1>7. e = Takes(d, byte) BY <1>5, <1>6 DEF b
<1> QED BY <1>7, LeadsOn

\* A decoder that has taken all there was.
Rests(d, m) == d \in Decoders /\ m \in Seq(Chars) /\ ~d.lost /\ Len(d.typed) = Len(m) /\ Fits(d, m)

\* It is told of a press, and of a release.
LEMMA Pressed ==
  ASSUME NEW d, NEW m, Rests(d, m), NEW k \in Keys, NEW b \in [0 .. 2 -> Bytes]
  PROVE  LET e == Told(b, d, Code(k, Press))
             x == Meaning(k, d.keys \cup {k})
         IN /\ e \in Decoders /\ ~e.lost /\ e.n = 0 /\ e.keys = d.keys \cup {k}
            /\ Rests(e, m \o x) /\ x \in Seq(Chars)
<1> DEFINE down == d.keys \cup {k}
           shifted == "ShiftLeft" \in down
           found == QwertyLookup(k, shifted, "AltRight" \in down)
           c == IF shifted THEN toupper(found) ELSE found
           e == Told(b, d, Code(k, Press))
           x == Meaning(k, down)
           t == d.typed
<1>1. /\ down \in SUBSET Keys /\ t \in Seq(Chars) /\ m \in Seq(Chars) /\ Len(t) \in Nat /\ Len(t) = Len(m)
      /\ \A i \in 1 .. Len(t) : t[i] = m[i] \/ m[i] = "euro"
  BY DEF Rests, Decoders, Fits
<1>2. e = Decoder(b, 0, down, IF c = NoChar THEN t ELSE Append(t, AsByte(c)))
  BY DEF Told, Code, Press, Release
<1>3. k \in down OBVIOUS
<1>4. \/ c = NoChar /\ x = <<>>
      \/ /\ c # NoChar /\ AsByte(c) \in Chars
         /\ \E y \in Chars : x = <<y>> /\ (AsByte(c) = y \/ y = "euro")
  BY <1>3, CharacterIs
<1> HIDE DEF e, c, down, x, t
<1>5. CASE c = NoChar /\ x = <<>>
  <2>1. m \o x = m BY <1>1, <1>5, ConcatEmptySeq
  <2>2. e = Decoder(b, 0, down, t) BY <1>2, <1>5
  <2>3. e \in Decoders /\ ~e.lost /\ e.n = 0 /\ e.keys = down /\ e.typed = t
    BY <1>1, <2>2 DEF Decoder, Decoders
  <2>4. Rests(e, m) BY <1>1, <2>3 DEF Rests, Fits
  <2> QED BY <1>5, <2>1, <2>3, <2>4 DEF e, x, down
<1>6. CASE c # NoChar
  <2>1. PICK y \in Chars : x = <<y>> /\ (AsByte(c) = y \/ y = "euro") BY <1>4, <1>6
  <2>2. AsByte(c) \in Chars BY <1>4, <1>6
  <2> DEFINE z == AsByte(c)
             u == Append(t, z)
             v == Append(m, y)
  <2>3. m \o x = v BY <1>1, <2>1, OneMore
  <2>4. e = Decoder(b, 0, down, u) BY <1>2, <1>6
  <2>5. u \in Seq(Chars) /\ Len(u) = Len(t) + 1 /\ u[Len(t) + 1] = z /\ \A i \in 1 .. Len(t) : u[i] = t[i]
    BY <1>1, <2>2, AppendProperties
  <2>6. v \in Seq(Chars) /\ Len(v) = Len(m) + 1 /\ v[Len(m) + 1] = y /\ \A i \in 1 .. Len(m) : v[i] = m[i]
    BY <1>1, AppendProperties
  <2>7. z = y \/ y = "euro" BY <2>1
  <2> HIDE DEF u, v, z
  <2>8. e \in Decoders /\ ~e.lost /\ e.n = 0 /\ e.keys = down /\ e.typed = u
    BY <1>1, <2>4, <2>5 DEF Decoder, Decoders
  <2>9. \A i \in 1 .. Len(u) : u[i] = v[i] \/ v[i] = "euro"
    <3>1. TAKE i \in 1 .. Len(u)
    <3>2. CASE i = Len(t) + 1 BY <1>1, <2>5, <2>6, <2>7, <3>2
    <3>3. CASE i # Len(t) + 1
      <4>1. i \in 1 .. Len(t) BY <1>1, <2>5, <3>3
      <4> QED BY <1>1, <2>5, <2>6, <4>1
    <3> QED BY <3>2, <3>3
  <2>10. Rests(e, v) BY <1>1, <2>5, <2>6, <2>8, <2>9 DEF Rests, Fits
  <2>11. x \in Seq(Chars) BY <2>1
  <2> QED BY <2>3, <2>8, <2>10, <2>11 DEF e, x, down
<1> QED BY <1>4, <1>5, <1>6

LEMMA Released ==
  ASSUME NEW d, NEW m, Rests(d, m), NEW k \in Keys, NEW b \in [0 .. 2 -> Bytes]
  PROVE  LET e == Told(b, d, Code(k, Release))
         IN /\ e \in Decoders /\ ~e.lost /\ e.n = 0 /\ e.keys = d.keys \ {k}
            /\ Rests(e, m)
<1> DEFINE e == Told(b, d, Code(k, Release))
<1>1. e = Decoder(b, 0, d.keys \ {k}, d.typed) BY DEF Told, Code, Press, Release
<1>2. d.keys \ {k} \in SUBSET Keys /\ d.typed \in Seq(Chars) BY DEF Rests, Decoders
<1> HIDE DEF e
<1>3. e \in Decoders /\ ~e.lost /\ e.n = 0 /\ e.keys = d.keys \ {k} /\ e.typed = d.typed
  BY <1>1, <1>2 DEF Decoder, Decoders
<1>4. Rests(e, m) BY <1>3 DEF Rests, Fits
<1> QED BY <1>3, <1>4 DEF e

\* What the keyboard sends for a key.
LEMMA BytesAre ==
  /\ \A k \in PlainKeys : BytesOf(k, Press) = <<Plain[k]>> /\ BytesOf(k, Release) = <<"F0", Plain[k]>>
  /\ \A k \in ExtendedKeys :
       BytesOf(k, Press) = <<"E0", Extended[k]>> /\ BytesOf(k, Release) = <<"E0", "F0", Extended[k]>>
  /\ \A dir : BytesOf("Pause", dir) = <<"E1", "14", "77", "E1", "F0", "14", "F0", "77">>
<1>1. "Pause" \notin PlainKeys /\ "Pause" \notin ExtendedKeys BY DEF PlainKeys, ExtendedKeys
<1>2. \A k \in ExtendedKeys : k \notin PlainKeys BY DEF PlainKeys, ExtendedKeys
<1>3. Press # Release BY DEF Press, Release
<1>4. ASSUME NEW k \in PlainKeys
      PROVE  BytesOf(k, Press) = <<Plain[k]>> /\ BytesOf(k, Release) = <<"F0", Plain[k]>>
  <2>1. k # "Pause" /\ k \in DOMAIN Plain /\ k \notin DOMAIN Extended BY <1>1, <1>2, TableFacts
  <2> QED BY <1>3, <2>1 DEF BytesOf
<1>5. ASSUME NEW k \in ExtendedKeys
      PROVE  BytesOf(k, Press) = <<"E0", Extended[k]>> /\ BytesOf(k, Release) = <<"E0", "F0", Extended[k]>>
  <2>1. k # "Pause" /\ k \notin DOMAIN Plain /\ k \in DOMAIN Extended BY <1>1, <1>2, TableFacts
  <2> QED BY <1>3, <2>1 DEF BytesOf
<1>6. ASSUME NEW dir PROVE BytesOf("Pause", dir) = <<"E1", "14", "77", "E1", "F0", "14", "F0", "77">>
  <2>1. "Pause" \notin DOMAIN Plain /\ "Pause" \notin DOMAIN Extended BY <1>1, TableFacts
  <2> QED BY <2>1 DEF BytesOf
<1> QED BY <1>4, <1>5, <1>6

-----------------------------------------------------------------------------
\* The bytes w lead to d, which has taken all there was.
At(w, now, d, m) == w \in Seq(Bytes) /\ Leads(w, now, d, m) /\ Rests(d, m)

LEMMA Waiting ==
  ASSUME NEW w, NEW now, NEW d, NEW m, At(w, now, d, m), d.n < 3, NEW byte \in Bytes,
         Decoded([d.b EXCEPT ![d.n] = byte], d.n + 1) = <<>>
  PROVE  \E e : /\ At(Append(w, byte), now, e, m)
                /\ e.n = d.n + 1 /\ e.keys = d.keys /\ e.b = [d.b EXCEPT ![d.n] = byte]
<1> DEFINE b == [d.b EXCEPT ![d.n] = byte]
           e == Decoder(b, d.n + 1, d.keys, d.typed)
<1>1. /\ w \in Seq(Bytes) /\ Leads(w, now, d, m) /\ d \in Decoders /\ m \in Seq(Chars) /\ ~d.lost
      /\ Len(d.typed) = Len(m) /\ Fits(d, m)
  BY DEF At, Rests
<1>2. e \in Decoders /\ Append(w, byte) \in Seq(Bytes) /\ Leads(Append(w, byte), now, e, m)
  BY <1>1, WaitsOn
<1>3. ~e.lost /\ e.typed = d.typed /\ e.n = d.n + 1 /\ e.keys = d.keys /\ e.b = b BY DEF Decoder
<1> HIDE DEF e, b
<1>4. Rests(e, m) BY <1>1, <1>2, <1>3 DEF Rests, Fits
<1>5. At(Append(w, byte), now, e, m) BY <1>2, <1>4 DEF At
<1> QED BY <1>3, <1>5 DEF b

LEMMA TellsPress ==
  ASSUME NEW w, NEW now, NEW d, NEW m, At(w, now, d, m), d.n < 3, NEW byte \in Bytes, NEW k \in Keys,
         Decoded([d.b EXCEPT ![d.n] = byte], d.n + 1) = <<Code(k, Press)>>
  PROVE  \E e : /\ At(Append(w, byte), now, e, m \o Meaning(k, d.keys \cup {k}))
                /\ e.n = 0 /\ e.keys = d.keys \cup {k}
<1> DEFINE b == [d.b EXCEPT ![d.n] = byte]
           e == Told(b, d, Code(k, Press))
           x == Meaning(k, d.keys \cup {k})
<1>1. w \in Seq(Bytes) /\ Leads(w, now, d, m) /\ Rests(d, m) BY DEF At
<1>2. d \in Decoders /\ m \in Seq(Chars) /\ ~d.lost BY <1>1 DEF Rests
<1>3. b \in [0 .. 2 -> Bytes] BY <1>2 DEF Decoders
<1> HIDE DEF b, e, x
<1>4. /\ e \in Decoders /\ ~e.lost /\ e.n = 0 /\ e.keys = d.keys \cup {k}
      /\ Rests(e, m \o x) /\ x \in Seq(Chars)
  BY <1>1, <1>3, Pressed DEF e, x
<1>5. Leads(w, now, d, m \o x) BY <1>1, <1>2, <1>4, LeadsMore
<1>6. Fits(e, m \o x) BY <1>4 DEF Rests
<1>7. e = Told([d.b EXCEPT ![d.n] = byte], d, Code(k, Press)) BY DEF e, b
<1>8. Append(w, byte) \in Seq(Bytes) /\ Leads(Append(w, byte), now, e, m \o x)
  BY <1>1, <1>2, <1>4, <1>5, <1>6, <1>7, TellsOn
<1>9. At(Append(w, byte), now, e, m \o x) BY <1>4, <1>8 DEF At
<1> QED BY <1>4, <1>9 DEF x

LEMMA TellsRelease ==
  ASSUME NEW w, NEW now, NEW d, NEW m, At(w, now, d, m), d.n < 3, NEW byte \in Bytes, NEW k \in Keys,
         Decoded([d.b EXCEPT ![d.n] = byte], d.n + 1) = <<Code(k, Release)>>
  PROVE  \E e : At(Append(w, byte), now, e, m) /\ e.n = 0 /\ e.keys = d.keys \ {k}
<1> DEFINE b == [d.b EXCEPT ![d.n] = byte]
           e == Told(b, d, Code(k, Release))
<1>1. w \in Seq(Bytes) /\ Leads(w, now, d, m) /\ Rests(d, m) BY DEF At
<1>2. d \in Decoders /\ ~d.lost BY <1>1 DEF Rests
<1>3. b \in [0 .. 2 -> Bytes] BY <1>2 DEF Decoders
<1> HIDE DEF b, e
<1>4. e \in Decoders /\ ~e.lost /\ e.n = 0 /\ e.keys = d.keys \ {k} /\ Rests(e, m)
  BY <1>1, <1>3, Released DEF e
<1>5. Fits(e, m) BY <1>4 DEF Rests
<1>6. e = Told([d.b EXCEPT ![d.n] = byte], d, Code(k, Release)) BY DEF e, b
<1>7. Append(w, byte) \in Seq(Bytes) /\ Leads(Append(w, byte), now, e, m)
  BY <1>1, <1>2, <1>4, <1>5, <1>6, TellsOn
<1>8. At(Append(w, byte), now, e, m) BY <1>4, <1>7 DEF At
<1> QED BY <1>4, <1>8

LEMMA Overruns ==
  ASSUME NEW w, NEW now, NEW d, NEW m, At(w, now, d, m), d.n = 3, NEW byte \in Bytes
  PROVE  /\ Append(w, byte) \in Seq(Bytes)
         /\ \E e \in Decoders : Leads(Append(w, byte), now, e, m) /\ e.lost
<1> DEFINE e == [d EXCEPT !.lost = TRUE]
<1>1. w \in Seq(Bytes) /\ Leads(w, now, d, m) /\ d \in Decoders /\ ~d.lost BY DEF At, Rests
<1>2. e \in Decoders /\ e.lost BY <1>1 DEF Decoders
<1>3. e = Takes(d, byte) BY <1>1 DEF Takes
<1>4. Fits(e, m) BY <1>2 DEF Fits
<1> HIDE DEF e
<1>5. Append(w, byte) \in Seq(Bytes) /\ Leads(Append(w, byte), now, e, m)
  BY <1>1, <1>2, <1>3, <1>4, LeadsOn
<1> QED BY <1>2, <1>5

LEMMA PlainKeyDown ==
  ASSUME NEW w, NEW now, NEW d, NEW m, At(w, now, d, m), d.n = 0, NEW k \in PlainKeys
  PROVE  \E e : /\ At(w \o BytesOf(k, Press), now, e, m \o Meaning(k, d.keys \cup {k}))
                /\ e.n = 0 /\ e.keys = d.keys \cup {k}
<1> DEFINE byte == Plain[k]
           b == [d.b EXCEPT ![d.n] = byte]
<1>1. k \in Keys /\ byte \in Bytes /\ byte \notin PrefixBytes /\ Lookup(Plain, byte) = k BY TableFacts
<1>2. BytesOf(k, Press) = <<byte>> BY BytesAre
<1> HIDE DEF byte
<1>3. d.b \in [0 .. 2 -> Bytes] /\ w \in Seq(Bytes) BY DEF At, Rests, Decoders
<1>4. b[0] = byte /\ d.n + 1 = 1 BY <1>3
<1> HIDE DEF b
<1>5. Decoded(b, d.n + 1) = <<Code(k, Press)>> BY <1>1, <1>4, DecodedIs
<1>6. d.n < 3 OBVIOUS
<1>7. \E e : /\ At(Append(w, byte), now, e, m \o Meaning(k, d.keys \cup {k}))
             /\ e.n = 0 /\ e.keys = d.keys \cup {k}
  BY <1>1, <1>5, <1>6, TellsPress DEF b
<1>8. w \o BytesOf(k, Press) = Append(w, byte) BY <1>1, <1>2, <1>3, OneMore
<1> QED BY <1>7, <1>8

\* The first byte of a longer code.
LEMMA Prefixed ==
  ASSUME NEW w, NEW now, NEW d, NEW m, At(w, now, d, m), d.n = 0, NEW byte \in PrefixBytes
  PROVE  \E e : At(Append(w, byte), now, e, m) /\ e.n = 1 /\ e.keys = d.keys /\ e.b[0] = byte
<1> DEFINE b == [d.b EXCEPT ![d.n] = byte]
<1>1. byte \in Bytes BY DEF PrefixBytes, Bytes
<1>2. d.b \in [0 .. 2 -> Bytes] BY DEF At, Rests, Decoders
<1>3. b[0] = byte /\ d.n + 1 = 1 /\ d.n < 3 BY <1>2
<1> HIDE DEF b
<1>4. Decoded(b, d.n + 1) = <<>> BY <1>3, DecodedIs DEF PrefixBytes
<1>5. \E e : At(Append(w, byte), now, e, m) /\ e.n = d.n + 1 /\ e.keys = d.keys /\ e.b = b
  BY <1>1, <1>3, <1>4, Waiting DEF b
<1> QED BY <1>3, <1>5

\* The second byte.
LEMMA PrefixedTwice ==
  ASSUME NEW w, NEW now, NEW d, NEW m, At(w, now, d, m), d.n = 1, NEW byte \in Bytes,
         \/ d.b[0] = "E0" /\ byte = "F0"
         \/ d.b[0] = "E1"
  PROVE  \E e : /\ At(Append(w, byte), now, e, m)
                /\ e.n = 2 /\ e.keys = d.keys /\ e.b[0] = d.b[0] /\ e.b[1] = byte
<1> DEFINE b == [d.b EXCEPT ![d.n] = byte]
<1>1. d.b \in [0 .. 2 -> Bytes] BY DEF At, Rests, Decoders
<1>2. b[0] = d.b[0] /\ b[1] = byte /\ d.n + 1 = 2 /\ d.n < 3 BY <1>1
<1> HIDE DEF b
<1>3. Decoded(b, d.n + 1) = <<>> BY <1>2, DecodedIs
<1>4. \E e : At(Append(w, byte), now, e, m) /\ e.n = d.n + 1 /\ e.keys = d.keys /\ e.b = b
  BY <1>2, <1>3, Waiting DEF b
<1> QED BY <1>2, <1>4

LEMMA PlainKeyUp ==
  ASSUME NEW w, NEW now, NEW d, NEW m, At(w, now, d, m), d.n = 0, NEW k \in PlainKeys
  PROVE  \E e : At(w \o BytesOf(k, Release), now, e, m) /\ e.n = 0 /\ e.keys = d.keys \ {k}
<1> DEFINE byte == Plain[k]
<1>1. k \in Keys /\ byte \in Bytes /\ Lookup(Plain, byte) = k BY TableFacts
<1>2. BytesOf(k, Release) = <<"F0", byte>> BY BytesAre
<1> HIDE DEF byte
<1>3. "F0" \in PrefixBytes /\ "F0" \in Bytes BY DEF PrefixBytes, Bytes
<1>4. PICK e : At(Append(w, "F0"), now, e, m) /\ e.n = 1 /\ e.keys = d.keys /\ e.b[0] = "F0"
  BY <1>3, Prefixed
<1> DEFINE b == [e.b EXCEPT ![e.n] = byte]
<1>5. e.b \in [0 .. 2 -> Bytes] BY <1>4 DEF At, Rests, Decoders
<1>6. b[0] = "F0" /\ b[1] = byte /\ e.n + 1 = 2 /\ e.n < 3 BY <1>4, <1>5
<1> HIDE DEF b
<1>7. Decoded(b, e.n + 1) = <<Code(k, Release)>> BY <1>1, <1>6, DecodedIs
<1>8. \E f : At(Append(Append(w, "F0"), byte), now, f, m) /\ f.n = 0 /\ f.keys = e.keys \ {k}
  BY <1>1, <1>4, <1>6, <1>7, TellsRelease DEF b
<1>9. w \o BytesOf(k, Release) = Append(Append(w, "F0"), byte)
  <2>1. <<"F0", byte>> = Append(<<"F0">>, byte) /\ <<"F0">> \in Seq(Bytes) /\ w \in Seq(Bytes)
    BY <1>3 DEF At
  <2> QED BY <1>1, <1>2, <1>3, <2>1, OneMore, ManyMore
<1> QED BY <1>4, <1>8, <1>9

LEMMA ExtendedKeyDown ==
  ASSUME NEW w, NEW now, NEW d, NEW m, At(w, now, d, m), d.n = 0, NEW k \in ExtendedKeys
  PROVE  \E e : /\ At(w \o BytesOf(k, Press), now, e, m \o Meaning(k, d.keys \cup {k}))
                /\ e.n = 0 /\ e.keys = d.keys \cup {k}
<1> DEFINE byte == Extended[k]
<1>1. k \in Keys /\ byte \in Bytes /\ byte \notin PrefixBytes /\ Lookup(Extended, byte) = k BY TableFacts
<1>2. BytesOf(k, Press) = <<"E0", byte>> BY BytesAre
<1> HIDE DEF byte
<1>3. "E0" \in PrefixBytes /\ "E0" \in Bytes /\ "F0" \in PrefixBytes BY DEF PrefixBytes, Bytes
<1>4. PICK e : At(Append(w, "E0"), now, e, m) /\ e.n = 1 /\ e.keys = d.keys /\ e.b[0] = "E0"
  BY <1>3, Prefixed
<1> DEFINE b == [e.b EXCEPT ![e.n] = byte]
<1>5. e.b \in [0 .. 2 -> Bytes] BY <1>4 DEF At, Rests, Decoders
<1>6. b[0] = "E0" /\ b[1] = byte /\ e.n + 1 = 2 /\ e.n < 3 BY <1>4, <1>5
<1> HIDE DEF b
<1>7. Decoded(b, e.n + 1) = <<Code(k, Press)>> BY <1>1, <1>3, <1>6, DecodedIs
<1>8. \E f : /\ At(Append(Append(w, "E0"), byte), now, f, m \o Meaning(k, e.keys \cup {k}))
             /\ f.n = 0 /\ f.keys = e.keys \cup {k}
  BY <1>1, <1>4, <1>6, <1>7, TellsPress DEF b
<1>9. w \o BytesOf(k, Press) = Append(Append(w, "E0"), byte)
  <2>1. <<"E0", byte>> = Append(<<"E0">>, byte) /\ <<"E0">> \in Seq(Bytes) /\ w \in Seq(Bytes)
    BY <1>3 DEF At
  <2> QED BY <1>1, <1>2, <1>3, <2>1, OneMore, ManyMore
<1> QED BY <1>4, <1>8, <1>9

LEMMA ExtendedKeyUp ==
  ASSUME NEW w, NEW now, NEW d, NEW m, At(w, now, d, m), d.n = 0, NEW k \in ExtendedKeys
  PROVE  \E e : At(w \o BytesOf(k, Release), now, e, m) /\ e.n = 0 /\ e.keys = d.keys \ {k}
<1> DEFINE byte == Extended[k]
<1>1. k \in Keys /\ byte \in Bytes /\ Lookup(Extended, byte) = k BY TableFacts
<1>2. BytesOf(k, Release) = <<"E0", "F0", byte>> BY BytesAre
<1> HIDE DEF byte
<1>3. "E0" \in PrefixBytes /\ "E0" \in Bytes /\ "F0" \in Bytes BY DEF PrefixBytes, Bytes
<1> DEFINE w1 == Append(w, "E0")
           w2 == Append(w1, "F0")
<1>4. PICK e : At(w1, now, e, m) /\ e.n = 1 /\ e.keys = d.keys /\ e.b[0] = "E0"
  BY <1>3, Prefixed
<1> HIDE DEF w1
<1>5. PICK f : At(w2, now, f, m) /\ f.n = 2 /\ f.keys = e.keys /\ f.b[0] = "E0" /\ f.b[1] = "F0"
  BY <1>3, <1>4, PrefixedTwice
<1> HIDE DEF w2
<1> DEFINE b == [f.b EXCEPT ![f.n] = byte]
<1>6. f.b \in [0 .. 2 -> Bytes] BY <1>5 DEF At, Rests, Decoders
<1>7. b[0] = "E0" /\ b[1] = "F0" /\ b[2] = byte /\ f.n + 1 = 3 /\ f.n < 3 BY <1>5, <1>6
<1> HIDE DEF b
<1>8. Decoded(b, f.n + 1) = <<Code(k, Release)>> BY <1>1, <1>7, DecodedIs
<1>9. \E g : At(Append(w2, byte), now, g, m) /\ g.n = 0 /\ g.keys = f.keys \ {k}
  BY <1>1, <1>5, <1>7, <1>8, TellsRelease DEF b
<1>10. w \o BytesOf(k, Release) = Append(w2, byte)
  <2> DEFINE v1 == <<"E0">>
             v2 == Append(v1, "F0")
  <2>1. <<"E0", "F0", byte>> = Append(v2, byte) OBVIOUS
  <2>2. v1 \in Seq(Bytes) /\ v2 \in Seq(Bytes) /\ w \in Seq(Bytes) BY <1>3 DEF At
  <2>3. w \o v1 = w1 BY <1>3, <2>2, OneMore DEF w1
  <2> HIDE DEF v1
  <2>4. w \o v2 = w2 BY <1>3, <2>2, <2>3, ManyMore DEF w2
  <2> HIDE DEF v2
  <2>5. w \o Append(v2, byte) = Append(w2, byte) BY <1>1, <2>2, <2>4, ManyMore
  <2>6. BytesOf(k, Release) = Append(v2, byte) BY <1>2, <2>1
  <2> QED BY <2>5, <2>6
<1> QED BY <1>4, <1>5, <1>9, <1>10

\* Pause: its release outgrows the buffer.
LEMMA PauseKeyDown ==
  ASSUME NEW w, NEW now, NEW d, NEW m, At(w, now, d, m), d.n = 0, NEW dir
  PROVE  /\ w \o BytesOf("Pause", dir) \in Seq(Bytes)
         /\ \E e \in Decoders : Leads(w \o BytesOf("Pause", dir), now, e, m) /\ e.lost
<1>1. /\ "E1" \in PrefixBytes /\ "E1" \in Bytes /\ "14" \in Bytes /\ "77" \in Bytes /\ "F0" \in Bytes
      /\ "Pause" \in Keys /\ "14" # "F0" /\ w \in Seq(Bytes)
  BY DEF PrefixBytes, Bytes, Keys, At
<1> DEFINE w1 == Append(w, "E1")
           w2 == Append(w1, "14")
           w3 == Append(w2, "77")
           w4 == Append(w3, "E1")
           w5 == Append(w4, "F0")
           w6 == Append(w5, "14")
           w7 == Append(w6, "F0")
<1>2. PICK d1 : At(w1, now, d1, m) /\ d1.n = 1 /\ d1.b[0] = "E1" BY <1>1, Prefixed
<1> HIDE DEF w1
<1>3. PICK d2 : At(w2, now, d2, m) /\ d2.n = 2 /\ d2.b[0] = "E1" /\ d2.b[1] = "14"
  BY <1>1, <1>2, PrefixedTwice
<1> HIDE DEF w2
<1>4. PICK d3 : At(w3, now, d3, m) /\ d3.n = 0
  <2> DEFINE b == [d2.b EXCEPT ![d2.n] = "77"]
  <2>1. d2.b \in [0 .. 2 -> Bytes] /\ m \in Seq(Chars) BY <1>3 DEF At, Rests, Decoders
  <2>2. b[0] = "E1" /\ b[1] = "14" /\ d2.n + 1 = 3 /\ d2.n < 3 BY <1>3, <2>1
  <2> HIDE DEF b
  <2>3. Decoded(b, d2.n + 1) = <<Code("Pause", Press)>> BY <1>1, <2>2, DecodedIs
  <2>4. m \o Meaning("Pause", d2.keys \cup {"Pause"}) = m BY <2>1, ConcatEmptySeq DEF Meaning
  <2>5. \E e : At(w3, now, e, m \o Meaning("Pause", d2.keys \cup {"Pause"})) /\ e.n = 0
    BY <1>1, <1>3, <2>2, <2>3, TellsPress DEF b
  <2> QED BY <2>4, <2>5
<1> HIDE DEF w3
<1>5. PICK d4 : At(w4, now, d4, m) /\ d4.n = 1 /\ d4.b[0] = "E1" BY <1>1, <1>4, Prefixed
<1> HIDE DEF w4
<1>6. PICK d5 : At(w5, now, d5, m) /\ d5.n = 2 /\ d5.b[0] = "E1" /\ d5.b[1] = "F0"
  BY <1>1, <1>5, PrefixedTwice
<1> HIDE DEF w5
<1>7. PICK d6 : At(w6, now, d6, m) /\ d6.n = 3
  <2> DEFINE b == [d5.b EXCEPT ![d5.n] = "14"]
  <2>1. d5.b \in [0 .. 2 -> Bytes] BY <1>6 DEF At, Rests, Decoders
  <2>2. b[0] = "E1" /\ b[1] = "F0" /\ d5.n + 1 = 3 /\ d5.n < 3 BY <1>6, <2>1
  <2> HIDE DEF b
  <2>3. Decoded(b, d5.n + 1) = <<>> BY <2>2, DecodedIs
  <2>4. \E e : At(w6, now, e, m) /\ e.n = d5.n + 1 BY <1>1, <1>6, <2>2, <2>3, Waiting DEF b
  <2> QED BY <2>2, <2>4
<1> HIDE DEF w6
<1>8. PICK e \in Decoders : Leads(w7, now, e, m) /\ e.lost BY <1>1, <1>7, Overruns
<1>9. w7 \in Seq(Bytes) BY <1>1, <1>7, Overruns
<1> HIDE DEF w7
<1>10. w7 \o <<"77">> \in Seq(Bytes) /\ Leads(w7 \o <<"77">>, now, e, m)
  <2>1. <<"77">> \in Seq(Bytes) BY <1>1
  <2> QED BY <1>8, <1>9, <2>1, LostOn
<1>11. w \o BytesOf("Pause", dir) = w7 \o <<"77">>
  <2> DEFINE v1 == <<"E1">>
             v2 == Append(v1, "14")
             v3 == Append(v2, "77")
             v4 == Append(v3, "E1")
             v5 == Append(v4, "F0")
             v6 == Append(v5, "14")
             v7 == Append(v6, "F0")
             v8 == Append(v7, "77")
  <2>1. <<"E1", "14", "77", "E1", "F0", "14", "F0", "77">> = v8 OBVIOUS
  <2>2. v1 \in Seq(Bytes) /\ w \o v1 = w1 BY <1>1, OneMore DEF w1
  <2> HIDE DEF v1
  <2>3. v2 \in Seq(Bytes) /\ w \o v2 = w2 BY <1>1, <2>2, AppendProperties, ManyMore DEF w2
  <2> HIDE DEF v2
  <2>4. v3 \in Seq(Bytes) /\ w \o v3 = w3 BY <1>1, <2>3, AppendProperties, ManyMore DEF w3
  <2> HIDE DEF v3
  <2>5. v4 \in Seq(Bytes) /\ w \o v4 = w4 BY <1>1, <2>4, AppendProperties, ManyMore DEF w4
  <2> HIDE DEF v4
  <2>6. v5 \in Seq(Bytes) /\ w \o v5 = w5 BY <1>1, <2>5, AppendProperties, ManyMore DEF w5
  <2> HIDE DEF v5
  <2>7. v6 \in Seq(Bytes) /\ w \o v6 = w6 BY <1>1, <2>6, AppendProperties, ManyMore DEF w6
  <2> HIDE DEF v6
  <2>8. v7 \in Seq(Bytes) /\ w \o v7 = w7 BY <1>1, <2>7, AppendProperties, ManyMore DEF w7
  <2> HIDE DEF v7
  <2>9. w \o v8 = Append(w7, "77") BY <1>1, <2>8, ManyMore
  <2>10. w7 \o <<"77">> = Append(w7, "77") BY <1>1, <1>9, OneMore
  <2> HIDE DEF v8
  <2>11. BytesOf("Pause", dir) = v8 BY <2>1, BytesAre
  <2> QED BY <2>9, <2>10, <2>11
<1> QED BY <1>8, <1>10, <1>11

-----------------------------------------------------------------------------
(***************************************************************************)
(* The user.                                                               *)
(***************************************************************************)

LEMMA KindsOfKeys ==
  \A k \in Keys : \/ k \in PlainKeys /\ k # "Pause"
                  \/ k \in ExtendedKeys /\ k # "Pause"
                  \/ k = "Pause"
BY TableFacts DEF PlainKeys, ExtendedKeys

LEMMA BytesTyped ==
  ASSUME NEW k \in Keys, NEW dir \in {Press, Release}
  PROVE  BytesOf(k, dir) \in Seq(Bytes)
<1>1. "E0" \in Bytes /\ "E1" \in Bytes /\ "F0" \in Bytes /\ "14" \in Bytes /\ "77" \in Bytes BY DEF Bytes
<1>2. CASE k \in PlainKeys
  <2>1. Plain[k] \in Bytes BY <1>2, TableFacts
  <2>2. BytesOf(k, dir) = <<Plain[k]>> \/ BytesOf(k, dir) = <<"F0", Plain[k]>> BY <1>2, BytesAre
  <2>3. <<Plain[k]>> \in Seq(Bytes) /\ <<"F0", Plain[k]>> \in Seq(Bytes) BY <1>1, <2>1
  <2> QED BY <2>2, <2>3
<1>3. CASE k \in ExtendedKeys
  <2>1. Extended[k] \in Bytes BY <1>3, TableFacts
  <2>2. BytesOf(k, dir) = <<"E0", Extended[k]>> \/ BytesOf(k, dir) = <<"E0", "F0", Extended[k]>>
    BY <1>3, BytesAre
  <2>3. <<"E0", Extended[k]>> \in Seq(Bytes) /\ <<"E0", "F0", Extended[k]>> \in Seq(Bytes) BY <1>1, <2>1
  <2> QED BY <2>2, <2>3
<1>4. CASE k = "Pause"
  <2>1. BytesOf(k, dir) = <<"E1", "14", "77", "E1", "F0", "14", "F0", "77">> BY <1>4, BytesAre
  <2> QED BY <1>1, <2>1
<1> QED BY <1>2, <1>3, <1>4, KindsOfKeys

LEMMA MeaningTyped ==
  ASSUME NEW k \in Keys, NEW down, k \in down \/ k = "Pause"
  PROVE  Meaning(k, down) \in Seq(Chars)
<1>1. CASE k = "Pause"
  <2>1. Meaning(k, down) = <<>> BY <1>1 DEF Meaning
  <2> QED BY <2>1
<1>2. CASE k # "Pause"
  <2>1. Meaning(k, down) = <<>> \/ \E x \in Chars : Meaning(k, down) = <<x>>
    BY <1>2, CharacterIs
  <2>2. <<>> \in Seq(Chars) /\ \A x \in Chars : <<x>> \in Seq(Chars) OBVIOUS
  <2> QED BY <2>1, <2>2
<1> QED BY <1>1, <1>2

\* Where the decoder comes to rest is the start of the next key.
LEMMA RestsThere ==
  ASSUME KeyTypeOK, NEW d \in Decoders, Leads(wire, Current, d, meant), AtRest(d, held, meant), ~d.lost
  PROVE  At(wire, Current, d, meant) /\ d.n = 0 /\ d.keys = held
<1>1. d.n = 0 /\ d.keys = held /\ Len(d.typed) = Len(meant) BY DEF AtRest
<1>2. wire \in Seq(Bytes) /\ meant \in Seq(Chars) BY DEF KeyTypeOK
<1>3. Fits(d, meant) BY <1>2, LeadsFrom
<1> QED BY <1>1, <1>2, <1>3 DEF At, Rests

LEMMA EndsThere ==
  ASSUME NEW w, NEW now, NEW d, NEW m, At(w, now, d, m), d.n = 0
  PROVE  EndsAtRest(w, now, d.keys, m)
<1>1. d \in Decoders /\ Leads(w, now, d, m) /\ Len(d.typed) = Len(m) BY DEF At, Rests
<1>2. AtRest(d, d.keys, m) BY <1>1 DEF AtRest
<1> QED BY <1>1, <1>2 DEF EndsAtRest

LEMMA PressInv ==
  ASSUME KeyInv, NEW k \in Keys, PressKey(k)
  PROVE  KeyInv'
<1> DEFINE x == Meaning(k, held')
           v == BytesOf(k, Press)
<1>1. /\ held' = IF k = "Pause" THEN held ELSE held \cup {k}
      /\ wire' = wire \o v /\ meant' = meant \o x
      /\ buffer' = buffer /\ offset' = offset /\ overrun' = overrun /\ Current' = Current
  BY DEF PressKey, decoder, Current
<1>2. KeyTypeOK BY DEF KeyInv
<1>3. v \in Seq(Bytes) BY BytesTyped
<1>4. x \in Seq(Chars)
  <2>1. k \in held' \/ k = "Pause" BY <1>1
  <2> QED BY <2>1, MeaningTyped
<1> HIDE DEF v, x
<1>5. /\ held \in SUBSET (Keys \ {"Pause"}) /\ wire \in Seq(Bytes) /\ meant \in Seq(Chars)
      /\ buffer \in [0 .. 2 -> Bytes] /\ offset \in 0 .. 255
  BY <1>2 DEF KeyTypeOK
<1>6. KeyTypeOK'
  <2>1. held' \in SUBSET (Keys \ {"Pause"}) BY <1>1, <1>5
  <2>2. wire' \in Seq(Bytes) BY <1>1, <1>3, <1>5, ConcatProperties
  <2>3. meant' \in Seq(Chars) BY <1>1, <1>4, <1>5, ConcatProperties
  <2>4. buffer' \in [0 .. 2 -> Bytes] /\ offset' \in 0 .. 255 BY <1>1, <1>5
  <2> QED BY <2>1, <2>2, <2>3, <2>4 DEF KeyTypeOK
<1>7. BufferOK'
  <2>1. BufferOK BY DEF KeyInv
  <2> QED BY <1>1, <2>1 DEF BufferOK
<1>8. WireOK'
  <2>1. SUFFICES ASSUME ~overrun' PROVE EndsAtRest(wire', Current, held', meant')
    BY <1>1 DEF WireOK
  <2>2. PICK d \in Decoders : Leads(wire, Current, d, meant) /\ AtRest(d, held, meant)
    BY <1>1, <2>1 DEF KeyInv, WireOK, EndsAtRest
  <2>3. CASE d.lost
    <3>1. Leads(wire, Current, d, meant') BY <1>1, <1>4, <1>5, <2>2, LeadsMore
    <3>2. Leads(wire', Current, d, meant') BY <1>1, <1>3, <1>5, <2>3, <3>1, LostOn
    <3> QED BY <2>3, <3>2 DEF EndsAtRest, AtRest
  <2>4. CASE ~d.lost
    <3>1. At(wire, Current, d, meant) /\ d.n = 0 /\ d.keys = held BY <1>2, <2>2, <2>4, RestsThere
    <3>2. CASE k # "Pause"
      <4>1. held' = d.keys \cup {k} BY <1>1, <3>1, <3>2
      <4>2. PICK e : At(wire \o v, Current, e, meant \o x) /\ e.n = 0 /\ e.keys = held'
        <5>1. CASE k \in PlainKeys BY <3>1, <4>1, <5>1, PlainKeyDown DEF v, x
        <5>2. CASE k \in ExtendedKeys BY <3>1, <4>1, <5>2, ExtendedKeyDown DEF v, x
        <5> QED BY <3>2, <5>1, <5>2, KindsOfKeys
      <4>3. EndsAtRest(wire \o v, Current, e.keys, meant \o x) BY <4>2, EndsThere
      <4> QED BY <1>1, <4>2, <4>3
    <3>3. CASE k = "Pause"
      <4>1. PICK e \in Decoders : Leads(wire', Current, e, meant) /\ e.lost
        BY <1>1, <3>1, <3>3, PauseKeyDown DEF v
      <4>2. wire' \in Seq(Bytes) BY <1>6 DEF KeyTypeOK
      <4>3. Leads(wire', Current, e, meant') BY <1>1, <1>4, <1>5, <4>1, <4>2, LeadsMore
      <4> QED BY <4>1, <4>3 DEF EndsAtRest, AtRest
    <3> QED BY <3>2, <3>3
  <2> QED BY <2>3, <2>4
<1> QED BY <1>6, <1>7, <1>8 DEF KeyInv

LEMMA ReleaseInv ==
  ASSUME KeyInv, NEW k \in Keys, ReleaseKey(k)
  PROVE  KeyInv'
<1> DEFINE v == BytesOf(k, Release)
<1>1. /\ held' = held \ {k} /\ k \in held
      /\ wire' = wire \o v /\ meant' = meant
      /\ buffer' = buffer /\ offset' = offset /\ overrun' = overrun /\ Current' = Current
  BY DEF ReleaseKey, decoder, Current
<1>2. KeyTypeOK BY DEF KeyInv
<1>3. v \in Seq(Bytes) BY BytesTyped
<1> HIDE DEF v
<1>4. /\ held \in SUBSET (Keys \ {"Pause"}) /\ wire \in Seq(Bytes) /\ meant \in Seq(Chars)
      /\ buffer \in [0 .. 2 -> Bytes] /\ offset \in 0 .. 255
  BY <1>2 DEF KeyTypeOK
<1>5. KeyTypeOK'
  <2>1. held' \in SUBSET (Keys \ {"Pause"}) BY <1>1, <1>4
  <2>2. wire' \in Seq(Bytes) BY <1>1, <1>3, <1>4, ConcatProperties
  <2>3. meant' \in Seq(Chars) /\ buffer' \in [0 .. 2 -> Bytes] /\ offset' \in 0 .. 255 BY <1>1, <1>4
  <2> QED BY <2>1, <2>2, <2>3 DEF KeyTypeOK
<1>6. BufferOK'
  <2>1. BufferOK BY DEF KeyInv
  <2> QED BY <1>1, <2>1 DEF BufferOK
<1>7. WireOK'
  <2>1. SUFFICES ASSUME ~overrun' PROVE EndsAtRest(wire', Current, held', meant')
    BY <1>1 DEF WireOK
  <2>2. PICK d \in Decoders : Leads(wire, Current, d, meant) /\ AtRest(d, held, meant)
    BY <1>1, <2>1 DEF KeyInv, WireOK, EndsAtRest
  <2>3. CASE d.lost
    <3>1. Leads(wire', Current, d, meant') BY <1>1, <1>3, <1>4, <2>2, <2>3, LostOn
    <3> QED BY <2>3, <3>1 DEF EndsAtRest, AtRest
  <2>4. CASE ~d.lost
    <3>1. At(wire, Current, d, meant) /\ d.n = 0 /\ d.keys = held BY <1>2, <2>2, <2>4, RestsThere
    <3>2. held' = d.keys \ {k} /\ k # "Pause" BY <1>1, <1>4, <3>1
    <3>3. PICK e : At(wire \o v, Current, e, meant) /\ e.n = 0 /\ e.keys = held'
      <4>1. CASE k \in PlainKeys BY <3>1, <3>2, <4>1, PlainKeyUp DEF v
      <4>2. CASE k \in ExtendedKeys BY <3>1, <3>2, <4>2, ExtendedKeyUp DEF v
      <4> QED BY <3>2, <4>1, <4>2, KindsOfKeys
    <3>4. EndsAtRest(wire \o v, Current, e.keys, meant) BY <3>3, EndsThere
    <3> QED BY <1>1, <3>3, <3>4
  <2> QED BY <2>3, <2>4
<1> QED BY <1>5, <1>6, <1>7 DEF KeyInv

-----------------------------------------------------------------------------
(***************************************************************************)
(* What is typed, and what is read.                                        *)
(***************************************************************************)

LEMMA KeyInitInv == Init => KeyInv
<1> SUFFICES ASSUME Init PROVE KeyInv OBVIOUS
<1>1. /\ held = {} /\ wire = <<>> /\ offset = 0 /\ keys = {} /\ typed = <<>> /\ meant = <<>>
      /\ buffer = [i \in 0 .. 2 |-> "00"]
  BY DEF Init
<1>2. buffer \in [0 .. 2 -> Bytes]
  <2>1. "00" \in Bytes BY DEF Bytes
  <2> QED BY <1>1, <2>1
<1>3. KeyTypeOK BY <1>1, <1>2 DEF KeyTypeOK
<1>4. BufferOK BY <1>1 DEF BufferOK
<1>5. Current = Decoder(buffer, 0, {}, <<>>) BY <1>1 DEF Current
<1>6. /\ Current \in Decoders /\ ~Current.lost /\ Current.n = 0 /\ Current.keys = {} /\ Current.typed = <<>>
  BY <1>2, <1>5 DEF Decoder, Decoders
<1>7. Fits(Current, meant) /\ AtRest(Current, held, meant) BY <1>1, <1>6 DEF Fits, AtRest
<1>8. Leads(wire, Current, Current, meant) BY <1>1, <1>6, <1>7, LeadsNowhere
<1>9. WireOK BY <1>6, <1>7, <1>8 DEF WireOK, EndsAtRest
<1> QED BY <1>3, <1>4, <1>9 DEF KeyInv

LEMMA KeyNextInv == KeyInv /\ [TypedNext]_typedVars => KeyInv'
<1> SUFFICES ASSUME KeyInv, [TypedNext]_typedVars PROVE KeyInv' OBVIOUS
<1>1. CASE User
  <2>1. PICK k \in Keys : PressKey(k) \/ ReleaseKey(k) BY <1>1 DEF User
  <2> QED BY <2>1, PressInv, ReleaseInv
<1>2. CASE Handler BY <1>2, InterruptInv DEF Handler
<1>3. CASE UNCHANGED vars
  BY <1>3 DEF vars, KeyInv, KeyTypeOK, BufferOK, WireOK, EndsAtRest, Current
<1>4. Main => UNCHANGED vars BY DEF Main
<1>5. UNCHANGED typedVars => UNCHANGED vars BY DEF typedVars
<1> QED BY <1>1, <1>2, <1>3, <1>4, <1>5 DEF TypedNext

LEMMA KeyInvTyped == KeyInv => TypedAsMeant /\ (~overrun => typed \in Seq(Chars))
<1> SUFFICES ASSUME KeyInv PROVE TypedAsMeant /\ (~overrun => typed \in Seq(Chars)) OBVIOUS
<1>1. offset >= 3 => buffer[0] = "E1" /\ buffer[1] = "F0" BY DEF KeyInv, KeyTypeOK, BufferOK
<1>2. ASSUME ~overrun
      PROVE  /\ typed \in Seq(Chars) /\ Len(typed) <= Len(meant)
             /\ \A i \in DOMAIN typed : typed[i] = meant[i] \/ meant[i] = "euro"
             /\ wire = <<>> => Len(typed) = Len(meant) /\ keys = held /\ offset = 0
  <2>1. PICK d \in Decoders : Leads(wire, Current, d, meant) /\ AtRest(d, held, meant)
    BY <1>2 DEF KeyInv, WireOK, EndsAtRest
  <2>2. /\ Current.n = offset /\ Current.keys = keys /\ Current.typed = typed /\ Current.lost = FALSE
    BY DEF Current, Decoder
  <2>3. wire \in Seq(Bytes) BY DEF KeyInv, KeyTypeOK
  <2>4. Current \in Decoders /\ Fits(Current, meant) BY <2>1, <2>3, LeadsFrom
  <2>5. wire = <<>> => Current = d BY <2>1, <2>3, LeadsFrom
  <2>6. typed \in Seq(Chars) BY <2>2, <2>4 DEF Decoders
  <2>7. DOMAIN typed = 1 .. Len(typed) BY <2>6
  <2>8. Len(typed) <= Len(meant) /\ \A i \in DOMAIN typed : typed[i] = meant[i] \/ meant[i] = "euro"
    BY <2>2, <2>4, <2>7 DEF Fits
  <2>9. wire = <<>> => Len(typed) = Len(meant) /\ keys = held /\ offset = 0
    BY <2>1, <2>2, <2>5 DEF AtRest
  <2> QED BY <2>6, <2>8, <2>9
<1> QED BY <1>1, <1>2 DEF TypedAsMeant

\* Whatever is still on its way from the keyboard, onInterrupt and onInput will make of it
\* what the user meant, and come to rest with the keys that are held, unless a fourth byte
\* is stored (ps2keyboard.cpp:276-320, Keyboard.cpp:48-64, ps2.h:25-26).
THEOREM KeyInvariant == TypedSpec => []KeyInv
<1>1. TypedInit => KeyInv BY KeyInitInv DEF TypedInit
<1>2. KeyInv /\ [TypedNext]_typedVars => KeyInv' BY KeyNextInv
<1> QED BY <1>1, <1>2, PTL DEF TypedSpec

\* The decoder gives the characters meant, in order, with the modifiers held when each was
\* pressed, but for the euro sign, and only the release of Pause outgrows its buffer
\* (ps2keyboard.cpp:276-320, Keyboard.cpp:48-64, Qwerty.cpp:76-83).
THEOREM TypedIsMeant == TypedSpec => []TypedAsMeant
<1>1. KeyInv => TypedAsMeant BY KeyInvTyped
<1> QED BY <1>1, KeyInvariant, PTL

\* A main() that waits for its characters reads what the user meant, in order, none twice
\* and none lost, wherever the interrupts fall in getchar (deque:117-127,
\* Keyboard.cpp:10-19, 48-64).
THEOREM ReadIsMeant == TypedSpec => []ReadAsMeant
<1>1. KeyInv /\ DequeInv /\ D!InOrder => ReadAsMeant
  <2> SUFFICES ASSUME KeyInv, DequeInv, D!InOrder, waits, ~drained, ~overrun
               PROVE  \A i \in DOMAIN got : typed[got[i]] = meant[i] \/ meant[i] = "euro"
    BY DEF ReadAsMeant
  <2>1. TypedAsMeant /\ typed \in Seq(Chars) BY KeyInvTyped
  <2>2. got = [i \in 1 .. Len(got) |-> i] /\ Len(got) <= Len(typed) BY DEF D!InOrder
  <2>3. DOMAIN typed = 1 .. Len(typed) /\ Len(typed) \in Nat BY <2>1
  <2>4. TAKE i \in DOMAIN got
  <2>5. i \in 1 .. Len(got) /\ got[i] = i BY <2>2
  <2>6. i \in DOMAIN typed
    <3> DEFINE n == Len(got)
               t == Len(typed)
    <3>1. i \in 1 .. n /\ n <= t /\ t \in Nat BY <2>2, <2>3, <2>5
    <3>2. n \in Int BY DEF DequeInv, DequeTypeOK
    <3> HIDE DEF n, t
    <3>3. i \in 1 .. t BY <3>1, <3>2
    <3> QED BY <2>3, <3>3 DEF t
  <2> QED BY <2>1, <2>5, <2>6 DEF TypedAsMeant
<1> QED BY <1>1, KeyInvariant, TypedInvariant, ReadInOrder, PTL
==============================================================================
