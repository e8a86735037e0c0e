----------------------------- MODULE LibraryProofs -----------------------------
(***************************************************************************)
(* The containers of the kernel's library, its windows and its shell, as   *)
(* MCLibrary runs them: a vector holds what was put in, an object under    *)
(* shared_ptr or behind a variable lives as long as a handle is on it,     *)
(* windows are drawn where they are, and the screen shows the end of what  *)
(* was written, with the command that Enter runs.                          *)
(***************************************************************************)
EXTENDS MCLibrary, FiniteSetTheorems, SequenceTheorems, TLAPS

-----------------------------------------------------------------------------
(***************************************************************************)
(* shared_ptr.                                                             *)
(***************************************************************************)

Holders(o) == {h \in Handles : held[h] = o}

PtrInv ==
  /\ held \in [Handles -> Objects \cup {NoObject}] /\ count \in [Objects -> Nat]
  /\ DOMAIN blocks = Objects /\ SharedLives

LEMMA ObjectFacts == IsFiniteSet(Handles) /\ NoObject \notin Objects
BY ContainersAssumption DEF Objects, NoObject

\* The count of an object, as a number.
LEMMA CountIs ==
  ASSUME PtrInv, NEW o \in Objects
  PROVE  /\ IsFiniteSet(Holders(o)) /\ count[o] = Cardinality(Holders(o)) /\ count[o] \in Nat
         /\ count[o] = 0 <=> Holders(o) = {}
         /\ blocks[o] = IF count[o] = 0 THEN {}
                        ELSE IF o \in joint THEN {"object"} ELSE {"object", "count"}
<1>1. Holders(o) \in SUBSET Handles BY DEF Holders
<1>2. IsFiniteSet(Holders(o)) BY <1>1, ObjectFacts, FS_Subset
<1>3. count[o] = Cardinality(Holders(o)) /\ count[o] \in Nat BY DEF PtrInv, SharedLives, Holders
<1>4. count[o] = 0 <=> Holders(o) = {} BY <1>2, <1>3, FS_EmptySet
<1> QED BY <1>2, <1>3, <1>4 DEF PtrInv, SharedLives

\* A handle changes what it holds.
LEMMA HoldersMove ==
  ASSUME PtrInv, NEW h \in Handles, NEW p \in Objects \cup {NoObject},
         p # held[h], held' = [held EXCEPT ![h] = p]
  PROVE  /\ held' \in [Handles -> Objects \cup {NoObject}]
         /\ \A o \in Objects :
              Cardinality(Holders(o))' = IF o = p THEN count[o] + 1
                                         ELSE IF o = held[h] THEN count[o] - 1 ELSE count[o]
         /\ held[h] \in Objects => count[held[h]] > 0
<1>1. held \in [Handles -> Objects \cup {NoObject}] BY DEF PtrInv
<1>2. held' \in [Handles -> Objects \cup {NoObject}] BY <1>1
<1>3. ASSUME NEW o \in Objects
      PROVE  Cardinality(Holders(o))' = IF o = p THEN count[o] + 1
                                        ELSE IF o = held[h] THEN count[o] - 1 ELSE count[o]
  <2>1. IsFiniteSet(Holders(o)) /\ count[o] = Cardinality(Holders(o)) BY CountIs
  <2>2. CASE o = p
    <3>1. Holders(o)' = Holders(o) \cup {h} /\ h \notin Holders(o) BY <1>1, <2>2 DEF Holders
    <3>2. Cardinality(Holders(o) \cup {h}) = Cardinality(Holders(o)) + 1 BY <2>1, <3>1, FS_AddElement
    <3> QED BY <2>1, <2>2, <3>1, <3>2
  <2>3. CASE o # p /\ o = held[h]
    <3>1. Holders(o)' = Holders(o) \ {h} /\ h \in Holders(o) BY <1>1, <2>3 DEF Holders
    <3>2. Cardinality(Holders(o) \ {h}) = Cardinality(Holders(o)) - 1 BY <2>1, <3>1, FS_RemoveElement
    <3> QED BY <2>1, <2>3, <3>1, <3>2
  <2>4. CASE o # p /\ o # held[h]
    <3>1. Holders(o)' = Holders(o) BY <1>1, <2>4 DEF Holders
    <3> QED BY <2>1, <2>4, <3>1
  <2> QED BY <2>2, <2>3, <2>4
<1>4. ASSUME held[h] \in Objects PROVE count[held[h]] > 0
  <2>1. h \in Holders(held[h]) BY DEF Holders
  <2> QED BY <1>4, <2>1, CountIs
<1> QED BY <1>2, <1>3, <1>4

\* What the four calls leave, object by object.
LEMMA PtrKept ==
  ASSUME held' \in [Handles -> Objects \cup {NoObject}], count' \in [Objects -> Nat], DOMAIN blocks' = Objects,
         \A o \in Objects :
           /\ count'[o] = Cardinality(Holders(o))'
           /\ blocks'[o] = IF count'[o] = 0 THEN {}
                           ELSE IF o \in joint' THEN {"object"} ELSE {"object", "count"},
         wild' \subseteq joint' \cap Tiny
  PROVE  PtrInv'
BY DEF PtrInv, SharedLives, Holders

LEMMA MakeInv ==
  ASSUME PtrInv, NEW h \in Handles, NEW o \in Objects, NEW t \in BOOLEAN, Make(h, o, t)
  PROVE  PtrInv'
<1>1. /\ held[h] = NoObject /\ blocks[o] = {} /\ count[o] = 0 /\ o \notin joint
      /\ held' = [held EXCEPT ![h] = o] /\ count' = [count EXCEPT ![o] = 1] /\ wild' = wild
      /\ blocks' = [blocks EXCEPT ![o] = IF t THEN {"object"} ELSE {"object", "count"}]
      /\ joint' = IF t THEN joint \cup {o} ELSE joint
  BY DEF Make
<1>2. /\ o # NoObject /\ NoObject \notin Objects BY ObjectFacts
<1>3. /\ held' \in [Handles -> Objects \cup {NoObject}]
      /\ \A p \in Objects : Cardinality(Holders(p))' = IF p = o THEN count[p] + 1 ELSE count[p]
  <2>1. o \in Objects \cup {NoObject} /\ o # held[h] BY <1>1, <1>2
  <2>2. /\ held' \in [Handles -> Objects \cup {NoObject}]
        /\ \A p \in Objects : Cardinality(Holders(p))' = IF p = o THEN count[p] + 1
                                                         ELSE IF p = held[h] THEN count[p] - 1 ELSE count[p]
    BY <1>1, <2>1, HoldersMove
  <2> QED BY <1>1, <1>2, <2>2
<1>4. count \in [Objects -> Nat] /\ DOMAIN blocks = Objects /\ wild \subseteq joint \cap Tiny
  BY DEF PtrInv, SharedLives
<1>5. ASSUME NEW p \in Objects
      PROVE  /\ count'[p] = Cardinality(Holders(p))'
             /\ blocks'[p] = IF count'[p] = 0 THEN {}
                             ELSE IF p \in joint' THEN {"object"} ELSE {"object", "count"}
  <2>1. CASE p = o
    <3>1. count'[p] = 1 /\ blocks'[p] = IF t THEN {"object"} ELSE {"object", "count"} BY <1>1, <1>4, <2>1
    <3>2. o \in joint' <=> t BY <1>1
    <3> QED BY <1>1, <1>3, <2>1, <3>1, <3>2
  <2>2. CASE p # o
    <3>1. count'[p] = count[p] /\ blocks'[p] = blocks[p] BY <1>1, <1>4, <2>2
    <3>2. p \in joint' <=> p \in joint BY <1>1, <2>2
    <3> QED BY <1>3, <2>2, <3>1, <3>2, CountIs
  <2> QED BY <2>1, <2>2
<1>6. count' \in [Objects -> Nat] /\ DOMAIN blocks' = Objects /\ wild' \subseteq joint' \cap Tiny
  BY <1>1, <1>4
<1> QED BY <1>3, <1>5, <1>6, PtrKept

LEMMA CopyHandleInv ==
  ASSUME PtrInv, NEW h \in Handles, NEW g \in Handles, CopyHandle(h, g)
  PROVE  PtrInv'
<1> DEFINE o == held[g]
<1>1. /\ held[h] = NoObject /\ o # NoObject
      /\ held' = [held EXCEPT ![h] = o] /\ count' = [count EXCEPT ![o] = @ + 1]
      /\ joint' = joint /\ blocks' = blocks /\ wild' = wild
  BY DEF CopyHandle
<1>2. NoObject \notin Objects BY ObjectFacts
<1>3. /\ held \in [Handles -> Objects \cup {NoObject}] /\ count \in [Objects -> Nat] /\ DOMAIN blocks = Objects
      /\ wild \subseteq joint \cap Tiny
  BY DEF PtrInv, SharedLives
<1>4. o \in Objects BY <1>1, <1>3
<1>5. count[o] > 0
  <2>1. g \in Holders(o) BY DEF Holders
  <2> QED BY <1>4, <2>1, CountIs
<1> HIDE DEF o
<1>6. /\ held' \in [Handles -> Objects \cup {NoObject}]
      /\ \A p \in Objects : Cardinality(Holders(p))' = IF p = o THEN count[p] + 1 ELSE count[p]
  <2>1. o \in Objects \cup {NoObject} /\ o # held[h] BY <1>1, <1>4
  <2>2. /\ held' \in [Handles -> Objects \cup {NoObject}]
        /\ \A p \in Objects : Cardinality(Holders(p))' = IF p = o THEN count[p] + 1
                                                         ELSE IF p = held[h] THEN count[p] - 1 ELSE count[p]
    BY <1>1, <2>1, HoldersMove
  <2> QED BY <1>1, <1>2, <2>2
<1>7. ASSUME NEW p \in Objects
      PROVE  /\ count'[p] = Cardinality(Holders(p))'
             /\ blocks'[p] = IF count'[p] = 0 THEN {}
                             ELSE IF p \in joint' THEN {"object"} ELSE {"object", "count"}
  <2>1. count'[p] = IF p = o THEN count[p] + 1 ELSE count[p] BY <1>1, <1>3
  <2>2. count'[p] = 0 <=> count[p] = 0 BY <1>3, <1>5, <2>1
  <2> QED BY <1>1, <1>6, <2>1, <2>2, CountIs
<1>8. count' \in [Objects -> Nat] /\ DOMAIN blocks' = Objects /\ wild' \subseteq joint' \cap Tiny
  BY <1>1, <1>3, <1>4
<1> QED BY <1>6, <1>7, <1>8, PtrKept

LEMMA AssignHandleInv ==
  ASSUME PtrInv, NEW h \in Handles, NEW g \in Handles, AssignHandle(h, g)
  PROVE  PtrInv'
<1> DEFINE o == held[h]
           q == held[g]
<1>1. o # NoObject /\ q # NoObject /\ held' = [held EXCEPT ![h] = q] /\ joint' = joint
  BY DEF AssignHandle
<1>2. NoObject \notin Objects BY ObjectFacts
<1>3. /\ held \in [Handles -> Objects \cup {NoObject}] /\ count \in [Objects -> Nat] /\ DOMAIN blocks = Objects
      /\ wild \subseteq joint \cap Tiny
  BY DEF PtrInv, SharedLives
<1>4. o \in Objects /\ q \in Objects BY <1>1, <1>3
<1>5. count[q] > 0 /\ count[o] > 0
  <2>1. g \in Holders(q) /\ h \in Holders(o) BY DEF Holders
  <2> QED BY <1>4, <2>1, CountIs
<1>6. CASE o = q
  <2>1. count' = count /\ blocks' = blocks /\ wild' = wild BY <1>6 DEF AssignHandle
  <2>2. held' = held /\ joint' = joint BY <1>1, <1>3, <1>6
  <2> HIDE DEF o, q
  <2> QED BY <2>1, <2>2 DEF PtrInv, SharedLives
<1>7. CASE o # q
  <2>1. /\ count' = [count EXCEPT ![o] = @ - 1, ![q] = @ + 1]
        /\ blocks' = IF count[o] = 1 THEN Free(blocks, o) ELSE blocks
        /\ wild' = IF count[o] = 1 /\ o \in joint \cap Tiny THEN wild \cup {o} ELSE wild
    BY <1>7 DEF AssignHandle
  <2>2. /\ held' \in [Handles -> Objects \cup {NoObject}]
        /\ \A p \in Objects : Cardinality(Holders(p))' = IF p = q THEN count[p] + 1
                                                         ELSE IF p = o THEN count[p] - 1 ELSE count[p]
    BY <1>1, <1>4, <1>7, HoldersMove
  <2> HIDE DEF o, q
  <2>3. ASSUME NEW p \in Objects
        PROVE  /\ count'[p] = Cardinality(Holders(p))'
               /\ blocks'[p] = IF count'[p] = 0 THEN {}
                               ELSE IF p \in joint' THEN {"object"} ELSE {"object", "count"}
    <3>1. count'[p] = IF p = q THEN count[p] + 1 ELSE IF p = o THEN count[p] - 1 ELSE count[p]
      BY <1>3, <1>4, <1>7, <2>1
    <3>2. blocks'[p] = IF p = o /\ count[o] = 1 THEN {} ELSE blocks[p] BY <1>3, <2>1 DEF Free
    <3>3. count'[p] = 0 <=> IF p = o THEN count[p] = 1 ELSE count[p] = 0
      BY <1>3, <1>5, <1>7, <3>1
    <3>4. p = o => count[p] # 0 BY <1>5
    <3> QED BY <1>1, <2>2, <3>1, <3>2, <3>3, <3>4, CountIs
  <2>4. count' \in [Objects -> Nat]
    <3>1. \A p \in Objects : count'[p] = IF p = q THEN count[p] + 1 ELSE IF p = o THEN count[p] - 1 ELSE count[p]
      BY <1>3, <1>4, <1>7, <2>1
    <3>2. \A p \in Objects : count'[p] \in Nat BY <1>3, <1>5, <3>1
    <3>3. DOMAIN count' = Objects /\ count' = [p \in Objects |-> count'[p]] BY <1>3, <2>1
    <3> QED BY <3>2, <3>3
  <2>5. DOMAIN blocks' = Objects /\ wild' \subseteq joint' \cap Tiny BY <1>1, <1>3, <2>1 DEF Free
  <2> QED BY <2>2, <2>3, <2>4, <2>5, PtrKept
<1> QED BY <1>6, <1>7

LEMMA DropHandleInv ==
  ASSUME PtrInv, NEW h \in Handles, DropHandle(h)
  PROVE  PtrInv'
<1> DEFINE o == held[h]
<1>1. /\ o # NoObject /\ held' = [held EXCEPT ![h] = NoObject] /\ joint' = joint
      /\ count' = [count EXCEPT ![o] = @ - 1]
      /\ blocks' = IF count[o] = 1 THEN Free(blocks, o) ELSE blocks
      /\ wild' = IF count[o] = 1 /\ o \in joint \cap Tiny THEN wild \cup {o} ELSE wild
  BY DEF DropHandle, Released
<1>2. NoObject \notin Objects BY ObjectFacts
<1>3. /\ held \in [Handles -> Objects \cup {NoObject}] /\ count \in [Objects -> Nat] /\ DOMAIN blocks = Objects
      /\ wild \subseteq joint \cap Tiny
  BY DEF PtrInv, SharedLives
<1>4. o \in Objects BY <1>1, <1>3
<1>5. count[o] > 0
  <2>1. h \in Holders(o) BY DEF Holders
  <2> QED BY <1>4, <2>1, CountIs
<1> HIDE DEF o
<1>6. /\ held' \in [Handles -> Objects \cup {NoObject}]
      /\ \A p \in Objects : Cardinality(Holders(p))' = IF p = o THEN count[p] - 1 ELSE count[p]
  <2>1. NoObject \in Objects \cup {NoObject} /\ NoObject # held[h] BY <1>1 DEF o
  <2>2. /\ held' \in [Handles -> Objects \cup {NoObject}]
        /\ \A p \in Objects : Cardinality(Holders(p))' = IF p = NoObject THEN count[p] + 1
                                                         ELSE IF p = held[h] THEN count[p] - 1 ELSE count[p]
    BY <1>1, <2>1, HoldersMove
  <2> QED BY <1>2, <2>2 DEF o
<1>7. ASSUME NEW p \in Objects
      PROVE  /\ count'[p] = Cardinality(Holders(p))'
             /\ blocks'[p] = IF count'[p] = 0 THEN {}
                             ELSE IF p \in joint' THEN {"object"} ELSE {"object", "count"}
  <2>1. count'[p] = IF p = o THEN count[p] - 1 ELSE count[p] BY <1>1, <1>3
  <2>2. blocks'[p] = IF p = o /\ count[o] = 1 THEN {} ELSE blocks[p] BY <1>1, <1>3 DEF Free
  <2>3. count'[p] = 0 <=> IF p = o THEN count[p] = 1 ELSE count[p] = 0 BY <1>3, <1>5, <2>1
  <2>4. p = o => count[p] # 0 BY <1>5
  <2> QED BY <1>1, <1>6, <2>1, <2>2, <2>3, <2>4, CountIs
<1>8. count' \in [Objects -> Nat]
  <2>1. count[o] - 1 \in Nat BY <1>3, <1>4, <1>5
  <2> QED BY <1>1, <1>3, <1>4, <2>1
<1>9. DOMAIN blocks' = Objects /\ wild' \subseteq joint' \cap Tiny BY <1>1, <1>3 DEF Free
<1> QED BY <1>6, <1>7, <1>8, <1>9, PtrKept

-----------------------------------------------------------------------------
(***************************************************************************)
(* Loops.                                                                  *)
(***************************************************************************)

\* What holds at the start and stays, holds at every turn.
LEMMA EveryTurn ==
  ASSUME NEW n \in Nat, NEW S, 0 \in S, \A i \in 1 .. n : i - 1 \in S => i \in S
  PROVE  \A i \in 0 .. n : i \in S
<1> DEFINE B == {i \in Nat : i <= n /\ i \notin S}
<1>1. SUFFICES ASSUME B # {} PROVE FALSE OBVIOUS
<1>2. IsWellFoundedOn(OpToRel(<, Nat), Nat) BY NatLessThanWellFounded
<1>3. PICK i \in B : \A j \in B : ~(<<j, i>> \in OpToRel(<, Nat)) BY <1>1, <1>2, WFMin
<1>4. \A j \in B : ~(j < i) BY <1>3 DEF OpToRel
<1>5. i \in Nat /\ i <= n /\ i \notin S /\ i # 0 BY <1>3
<1>6. i - 1 \in Nat /\ i - 1 < i /\ i - 1 <= n /\ i \in 1 .. n BY <1>5
<1>7. i - 1 \notin B BY <1>4, <1>6
<1>8. i - 1 \in S BY <1>6, <1>7
<1> QED BY <1>5, <1>6, <1>8

\* A loop over things of a kind has its turns.
StaysIn(X, step, n) == \A i \in 1 .. n : \A y \in X : step[i][y] \in X
HasTurns(X, step, n, x) == \E g \in [0 .. n -> X] : g[0] = x /\ \A i \in 1 .. n : g[i] = step[i][g[i - 1]]

LEMMA TurnsExist ==
  ASSUME NEW n \in Nat, NEW X, NEW x \in X, NEW step, StaysIn(X, step, n)
  PROVE  HasTurns(X, step, n, x)
<1> DEFINE Turns(g, k) == g[0] = x /\ \A i \in 1 .. k : g[i] = step[i][g[i - 1]]
           S == {k \in 0 .. n : \E g \in [0 .. k -> X] : Turns(g, k)}
<1>1. 0 \in S
  <2> DEFINE g == [i \in 0 .. 0 |-> x]
  <2>1. g \in [0 .. 0 -> X] /\ Turns(g, 0) OBVIOUS
  <2>2. 0 \in 0 .. n OBVIOUS
  <2> HIDE DEF g, Turns
  <2> QED BY <2>1, <2>2
<1>2. ASSUME NEW k \in 1 .. n, k - 1 \in S PROVE k \in S
  <2>1. PICK g \in [0 .. k - 1 -> X] : Turns(g, k - 1) BY <1>2
  <2> DEFINE h == [i \in 0 .. k |-> IF i <= k - 1 THEN g[i] ELSE step[k][g[k - 1]]]
  <2>2. g[k - 1] \in X BY <2>1
  <2>3. step[k][g[k - 1]] \in X BY <2>2 DEF StaysIn
  <2>4. h \in [0 .. k -> X] BY <2>3
  <2>5. Turns(h, k)
    <3>1. h[0] = x BY <2>1
    <3>2. ASSUME NEW i \in 1 .. k PROVE h[i] = step[i][h[i - 1]]
      <4>1. h[i - 1] = g[i - 1] OBVIOUS
      <4>2. CASE i = k BY <4>1, <4>2
      <4>3. CASE i # k
        <5>1. i \in 1 .. k - 1 BY <4>3
        <5> QED BY <2>1, <4>1, <5>1
      <4> QED BY <4>2, <4>3
    <3> QED BY <3>1, <3>2
  <2> HIDE DEF h, Turns
  <2> QED BY <2>4, <2>5
<1> HIDE DEF S, Turns
<1>3. n \in S BY <1>1, <1>2, EveryTurn
<1> QED BY <1>3 DEF S, Turns, HasTurns

-----------------------------------------------------------------------------
(***************************************************************************)
(* vector.                                                                 *)
(***************************************************************************)

Elem == (MapKeys \X Values) \cup {Fresh}
Place == Elem \cup {Raw}
Vecs == [buf : Seq(Place), size : Int, bad : BOOLEAN]

\* A vector that holds the elements ps, and nothing behind them.
Holds(v, ps) ==
  /\ v \in Vecs /\ ~v.bad /\ ps \in Seq(Elem) /\ v.size = Len(ps) /\ v.size <= Len(v.buf)
  /\ \A i \in 1 .. Len(v.buf) : v.buf[i] = IF i <= v.size THEN ps[i] ELSE Raw

LEMMA ElemFacts == Raw \notin Elem /\ Fresh \in Elem
BY DEF Elem, Raw, Fresh

LEMMA HoldsFacts ==
  ASSUME NEW v, NEW ps, Holds(v, ps)
  PROVE  /\ v.buf \in Seq(Place) /\ Len(v.buf) \in Nat /\ v.size \in Nat /\ v.bad = FALSE /\ Len(ps) \in Nat
         /\ \A i \in 1 .. v.size : v.buf[i] = ps[i] /\ ps[i] \in Elem /\ v.buf[i] # Raw
         /\ \A i \in 1 .. Len(v.buf) : i > v.size => v.buf[i] = Raw
<1>1. v.buf \in Seq(Place) /\ Len(v.buf) \in Nat /\ v.size \in Nat /\ v.bad = FALSE /\ Len(ps) \in Nat
      /\ ps \in Seq(Elem) /\ v.size = Len(ps) /\ v.size <= Len(v.buf)
  BY DEF Holds, Vecs
<1>2. ASSUME NEW i \in 1 .. v.size PROVE v.buf[i] = ps[i] /\ ps[i] \in Elem /\ v.buf[i] # Raw
  <2>1. i \in 1 .. Len(v.buf) /\ i <= v.size /\ i \in 1 .. Len(ps) BY <1>1
  <2>2. v.buf[i] = ps[i] BY <2>1 DEF Holds
  <2>3. ps[i] \in Elem BY <1>1, <2>1
  <2> QED BY <2>2, <2>3, ElemFacts
<1>3. ASSUME NEW i \in 1 .. Len(v.buf), i > v.size PROVE v.buf[i] = Raw
  <2>1. ~(i <= v.size) BY <1>1, <1>3
  <2> QED BY <2>1 DEF Holds
<1> QED BY <1>1, <1>2, <1>3

\* The same, from what a call leaves.
LEMMA HoldsFrom ==
  ASSUME NEW b \in Seq(Place), NEW ps \in Seq(Elem), NEW n, n = Len(ps), n <= Len(b),
         \A i \in 1 .. n : b[i] = ps[i],
         \A i \in 1 .. Len(b) : i > n => b[i] = Raw,
         NEW v, v \in Vecs, v.buf = b, v.size = n, v.bad = FALSE
  PROVE  Holds(v, ps)
<1>1. n \in Nat BY LenProperties
<1>2. ASSUME NEW i \in 1 .. Len(b) PROVE b[i] = IF i <= n THEN ps[i] ELSE Raw
  <2>1. CASE i <= n
    <3>1. i \in 1 .. n BY <1>1, <2>1
    <3> QED BY <2>1, <3>1
  <2>2. CASE ~(i <= n)
    <3>1. i > n BY <1>1, <2>2
    <3> QED BY <2>2, <3>1
  <2> QED BY <2>1, <2>2
<1> QED BY <1>2 DEF Holds

LEMMA ReserveHolds ==
  ASSUME NEW v, NEW ps, Holds(v, ps), NEW n \in Nat, n >= v.size
  PROVE  /\ Holds(VecReserve(v, n), ps) /\ VecReserve(v, n).size = v.size
         /\ Len(VecReserve(v, n).buf) = IF n < Len(v.buf) THEN Len(v.buf) ELSE n
<1>1. CASE n < Len(v.buf) BY <1>1 DEF VecReserve
<1>2. CASE ~(n < Len(v.buf))
  <2> DEFINE b == [i \in 1 .. n |-> IF i <= v.size THEN v.buf[i] ELSE Raw]
             r == VecReserve(v, n)
  <2>1. r = [v EXCEPT !.buf = b] BY <1>2 DEF VecReserve
  <2>2. /\ v.buf \in Seq(Place) /\ Len(v.buf) \in Nat /\ v.size \in Nat /\ v.bad = FALSE /\ Len(ps) \in Nat
        /\ \A i \in 1 .. v.size : v.buf[i] = ps[i] /\ ps[i] \in Elem
    BY HoldsFacts
  <2>3. v \in Vecs /\ ps \in Seq(Elem) /\ v.size = Len(ps) BY DEF Holds
  <2>4. \A i \in 1 .. n : b[i] \in Place
    <3>1. TAKE i \in 1 .. n
    <3>2. i <= v.size => i \in 1 .. v.size BY <2>2
    <3> QED BY <2>2, <3>2 DEF Place
  <2>5. b \in Seq(Place) /\ Len(b) = n
    <3>1. b \in [1 .. n -> Place] BY <2>4
    <3> QED BY <3>1
  <2>6. \A i \in 1 .. v.size : b[i] = ps[i] BY <2>2
  <2>7. \A i \in 1 .. n : i > v.size => b[i] = Raw BY <2>2
  <2> HIDE DEF b
  <2>8. r \in Vecs /\ r.buf = b /\ r.size = v.size /\ r.bad = FALSE BY <2>1, <2>2, <2>3, <2>5 DEF Vecs
  <2> HIDE DEF r
  <2>9. Holds(r, ps) BY <2>3, <2>5, <2>6, <2>7, <2>8, HoldsFrom
  <2> QED BY <1>2, <2>5, <2>8, <2>9 DEF r
<1> QED BY <1>1, <1>2

\* An element constructed in the first place that is raw.
LEMMA ConstructHolds ==
  ASSUME NEW v, NEW ps, Holds(v, ps), v.size < Len(v.buf), NEW e \in Elem, NEW w,
         w = [Construct(v, v.size, e) EXCEPT !.size = v.size + 1]
  PROVE  Holds(w, Append(ps, e)) /\ Len(w.buf) = Len(v.buf)
<1> DEFINE n == v.size
           b == [v.buf EXCEPT ![n + 1] = e]
           qs == Append(ps, e)
<1>1. /\ v.buf \in Seq(Place) /\ Len(v.buf) \in Nat /\ n \in Nat /\ v.bad = FALSE /\ Len(ps) \in Nat
      /\ \A i \in 1 .. n : v.buf[i] = ps[i] /\ ps[i] \in Elem
      /\ \A i \in 1 .. Len(v.buf) : i > n => v.buf[i] = Raw
  BY HoldsFacts
<1>2. v \in Vecs /\ ps \in Seq(Elem) /\ n = Len(ps) BY DEF Holds
<1>3. n + 1 \in 1 .. Len(v.buf) /\ DOMAIN v.buf = 1 .. Len(v.buf) BY <1>1
<1>4. v.buf[n + 1] = Raw BY <1>1, <1>3
<1>5. Construct(v, n, e) = [v EXCEPT !.buf[n + 1] = e] BY <1>3, <1>4 DEF Construct
<1>6. e \in Place BY DEF Place
<1>7. b \in Seq(Place) /\ Len(b) = Len(v.buf) BY <1>1, <1>3, <1>6, ExceptSeq
<1>8. b[n + 1] = e /\ \A i \in 1 .. Len(v.buf) : i # n + 1 => b[i] = v.buf[i] BY <1>3
<1>9. qs \in Seq(Elem) /\ Len(qs) = n + 1 /\ qs[n + 1] = e /\ \A i \in 1 .. n : qs[i] = ps[i]
  BY <1>2, AppendProperties
<1>10. w \in Vecs /\ w.buf = b /\ w.size = n + 1 /\ w.bad = FALSE
  <2>1. w.buf = b /\ w.size = n + 1 /\ w.bad = FALSE BY <1>1, <1>2, <1>5 DEF Vecs
  <2>2. w = [v EXCEPT !.buf = b, !.size = n + 1] BY <1>2, <1>5 DEF Vecs
  <2> HIDE DEF b
  <2> DEFINE m == n + 1
  <2>3. b \in Seq(Place) /\ m \in Int /\ v \in Vecs BY <1>1, <1>2, <1>7
  <2>4. w = [v EXCEPT !.buf = b, !.size = m] BY <2>2
  <2> HIDE DEF m
  <2>5. w \in Vecs BY <2>3, <2>4 DEF Vecs
  <2> QED BY <2>1, <2>5
<1> HIDE DEF b, qs, n
<1>11. \A i \in 1 .. n + 1 : b[i] = qs[i]
  <2>1. TAKE i \in 1 .. n + 1
  <2>2. CASE i = n + 1 BY <1>8, <1>9, <2>2
  <2>3. CASE i # n + 1
    <3>1. i \in 1 .. n /\ i \in 1 .. Len(v.buf) BY <1>1, <1>3, <2>3
    <3> QED BY <1>1, <1>8, <1>9, <2>3, <3>1
  <2> QED BY <2>2, <2>3
<1>12. \A i \in 1 .. Len(b) : i > n + 1 => b[i] = Raw
  <2>1. TAKE i \in 1 .. Len(b)
  <2>2. HAVE i > n + 1
  <2>3. i \in 1 .. Len(v.buf) /\ i # n + 1 /\ i > n BY <1>1, <1>7, <2>2
  <2> QED BY <1>1, <1>8, <2>3
<1>13. n + 1 <= Len(b) BY <1>3, <1>7
<1>14. Holds(w, qs) BY <1>7, <1>9, <1>10, <1>11, <1>12, <1>13, HoldsFrom
<1> QED BY <1>7, <1>10, <1>14 DEF qs

LEMMA ConstructSize ==
  ASSUME NEW v \in Vecs, NEW i \in Int, NEW e
  PROVE  Construct(v, i, e).size = v.size
BY DEF Construct, Vecs

LEMMA PushHolds ==
  ASSUME NEW v, NEW ps, Holds(v, ps), NEW e \in Elem
  PROVE  Holds(VecPush(v, e), Append(ps, e))
<1> DEFINE first == IF Len(v.buf) < FirstCapacity THEN VecReserve(v, FirstCapacity) ELSE v
           room == IF v.size + 1 > Len(first.buf) THEN VecReserve(first, 2 * Len(first.buf)) ELSE first
           w == VecPush(v, e)
<1>1. FirstCapacity \in Nat /\ FirstCapacity > 0 BY ContainersAssumption
<1>2. Len(v.buf) \in Nat /\ v.size \in Nat /\ v.size <= Len(v.buf) BY HoldsFacts DEF Holds
<1>3. Holds(first, ps) /\ first.size = v.size /\ Len(first.buf) \in Nat /\ Len(first.buf) > 0
  <2>1. CASE Len(v.buf) < FirstCapacity
    <3>1. FirstCapacity >= v.size BY <1>1, <1>2, <2>1
    <3>2. /\ Holds(VecReserve(v, FirstCapacity), ps) /\ VecReserve(v, FirstCapacity).size = v.size
          /\ Len(VecReserve(v, FirstCapacity).buf) = FirstCapacity
      BY <1>1, <1>2, <2>1, <3>1, ReserveHolds
    <3> QED BY <1>1, <2>1, <3>2
  <2>2. CASE ~(Len(v.buf) < FirstCapacity) BY <1>1, <1>2, <2>2
  <2> QED BY <2>1, <2>2
<1> HIDE DEF first
<1>4. Holds(room, ps) /\ room.size = v.size /\ room.size < Len(room.buf)
  <2>1. v.size <= Len(first.buf) BY <1>3 DEF Holds
  <2>2. CASE v.size + 1 > Len(first.buf)
    <3> DEFINE twice == 2 * Len(first.buf)
    <3>1. twice \in Nat /\ twice >= first.size /\ ~(twice < Len(first.buf)) /\ v.size < twice
      BY <1>2, <1>3, <2>1, <2>2
    <3> HIDE DEF twice
    <3>2. /\ Holds(VecReserve(first, twice), ps) /\ VecReserve(first, twice).size = first.size
          /\ Len(VecReserve(first, twice).buf) = twice
      BY <1>3, <3>1, ReserveHolds
    <3>3. room = VecReserve(first, twice) BY <2>2 DEF twice
    <3> HIDE DEF room
    <3> QED BY <1>3, <3>1, <3>2, <3>3
  <2>3. CASE ~(v.size + 1 > Len(first.buf)) BY <1>2, <1>3, <2>3
  <2> QED BY <2>2, <2>3
<1>5. w = [Construct(room, v.size, e) EXCEPT !.size = @ + 1] BY DEF VecPush, first
<1> HIDE DEF room, w
<1>6. Construct(room, room.size, e).size = room.size
  <2>1. room \in Vecs /\ room.size \in Int BY <1>4 DEF Holds, Vecs
  <2> QED BY <2>1, ConstructSize
<1>7. w = [Construct(room, room.size, e) EXCEPT !.size = room.size + 1] BY <1>4, <1>5, <1>6
<1>8. Holds(w, Append(ps, e)) BY <1>4, <1>7, ConstructHolds
<1> QED BY <1>8 DEF w

LEMMA PopHolds ==
  ASSUME NEW v, NEW ps, Holds(v, ps), v.size > 0
  PROVE  Holds(VecPop(v), SubSeq(ps, 1, v.size - 1)) /\ VecPop(v).size = v.size - 1
<1> DEFINE n == v.size
           b == [v.buf EXCEPT ![n] = Raw]
           qs == SubSeq(ps, 1, n - 1)
           w == VecPop(v)
<1>1. /\ v.buf \in Seq(Place) /\ Len(v.buf) \in Nat /\ n \in Nat /\ v.bad = FALSE /\ Len(ps) \in Nat
      /\ \A i \in 1 .. n : v.buf[i] = ps[i] /\ ps[i] \in Elem /\ v.buf[i] # Raw
      /\ \A i \in 1 .. Len(v.buf) : i > n => v.buf[i] = Raw
  BY HoldsFacts
<1>2. v \in Vecs /\ ps \in Seq(Elem) /\ n = Len(ps) /\ n <= Len(v.buf) BY DEF Holds
<1>3. n \in 1 .. n /\ n \in 1 .. Len(v.buf) /\ DOMAIN v.buf = 1 .. Len(v.buf) /\ n - 1 + 1 = n
  BY <1>1, <1>2
<1>4. Destroy(v, n - 1) = [v EXCEPT !.buf[n] = Raw] BY <1>1, <1>3 DEF Destroy
<1>5. Raw \in Place BY DEF Place
<1>6. b \in Seq(Place) /\ Len(b) = Len(v.buf) BY <1>1, <1>3, <1>5, ExceptSeq
<1>7. b[n] = Raw /\ \A i \in 1 .. Len(v.buf) : i # n => b[i] = v.buf[i] BY <1>3
<1>8. qs \in Seq(Elem) /\ Len(qs) = n - 1 /\ \A i \in 1 .. n - 1 : qs[i] = ps[i]
  <2>1. 1 \in Int /\ n - 1 \in Int /\ 1 <= n - 1 + 1 /\ n - 1 <= Len(ps) BY <1>1, <1>2
  <2>2. qs = [i \in 1 .. n - 1 |-> ps[i]] /\ n - 1 \in Nat
    BY <1>1, <1>2, <1>3
  <2>3. \A i \in 1 .. n - 1 : ps[i] \in Elem BY <1>1
  <2> HIDE DEF qs
  <2>4. qs \in [1 .. n - 1 -> Elem] BY <2>2, <2>3
  <2> QED BY <2>2, <2>4
<1>9. w \in Vecs /\ w.buf = b /\ w.size = n - 1 /\ w.bad = FALSE
  <2> DEFINE d == [v EXCEPT !.buf = b]
  <2>1. w = [d EXCEPT !.size = @ - 1] BY <1>4 DEF VecPop
  <2> HIDE DEF b, w
  <2>2. d \in Vecs /\ d.buf = b /\ d.size = n /\ d.bad = FALSE BY <1>1, <1>2, <1>6 DEF Vecs
  <2> HIDE DEF d
  <2> DEFINE m == n - 1
  <2>3. w = [d EXCEPT !.size = m] /\ m \in Int BY <1>1, <2>1, <2>2
  <2> HIDE DEF m
  <2>4. w \in Vecs /\ w.buf = b /\ w.size = m /\ w.bad = FALSE BY <2>2, <2>3 DEF Vecs
  <2> QED BY <2>4 DEF m
<1> HIDE DEF b, qs, n, w
<1>10. \A i \in 1 .. n - 1 : b[i] = qs[i]
  <2>1. TAKE i \in 1 .. n - 1
  <2>2. i \in 1 .. n /\ i \in 1 .. Len(v.buf) /\ i # n BY <1>1, <1>3
  <2> QED BY <1>1, <1>7, <1>8, <2>2
<1>11. \A i \in 1 .. Len(b) : i > n - 1 => b[i] = Raw
  <2>1. TAKE i \in 1 .. Len(b)
  <2>2. HAVE i > n - 1
  <2>3. i \in 1 .. Len(v.buf) /\ (i = n \/ i > n) BY <1>1, <1>6, <2>2
  <2>4. i > n => i # n BY <1>1, <2>3
  <2> QED BY <1>1, <1>7, <2>3, <2>4
<1>12. n - 1 <= Len(b) /\ n - 1 = Len(qs) BY <1>1, <1>2, <1>6, <1>8
<1>13. Holds(w, qs)
  <2> DEFINE m == n - 1
  <2>1. \A i \in 1 .. m : b[i] = qs[i] BY <1>10
  <2>2. \A i \in 1 .. Len(b) : i > m => b[i] = Raw BY <1>11
  <2>3. m = Len(qs) /\ m <= Len(b) /\ w.size = m BY <1>9, <1>12
  <2> HIDE DEF m
  <2> QED BY <1>6, <1>8, <1>9, <2>1, <2>2, <2>3, HoldsFrom
<1> QED BY <1>9, <1>13 DEF w, qs, n

\* The calls on vectors of any state.
LEMMA DestroyTyped ==
  ASSUME NEW v \in Vecs, NEW i \in Int
  PROVE  Destroy(v, i) \in Vecs
<1>1. v.buf \in Seq(Place) /\ DOMAIN v.buf = 1 .. Len(v.buf) BY DEF Vecs
<1>2. CASE i + 1 \in DOMAIN v.buf /\ v.buf[i + 1] # Raw
  <2> DEFINE b == [v.buf EXCEPT ![i + 1] = Raw]
  <2>1. Raw \in Place /\ i + 1 \in 1 .. Len(v.buf) BY <1>1, <1>2 DEF Place
  <2>2. b \in Seq(Place) BY <1>1, <2>1, ExceptSeq
  <2>3. Destroy(v, i) = [v EXCEPT !.buf = b] BY <1>2 DEF Destroy
  <2> HIDE DEF b
  <2> QED BY <2>2, <2>3 DEF Vecs
<1>3. CASE ~(i + 1 \in DOMAIN v.buf /\ v.buf[i + 1] # Raw)
  <2>1. Destroy(v, i) = [v EXCEPT !.bad = TRUE] BY <1>3 DEF Destroy
  <2> QED BY <2>1 DEF Vecs
<1> QED BY <1>2, <1>3

LEMMA PopTyped ==
  ASSUME NEW v \in Vecs
  PROVE  VecPop(v) \in Vecs
<1> DEFINE d == Destroy(v, v.size - 1)
<1>1. d \in Vecs
  <2>1. v.size - 1 \in Int BY DEF Vecs
  <2> QED BY <2>1, DestroyTyped
<1>2. VecPop(v) = [d EXCEPT !.size = @ - 1] BY DEF VecPop
<1> HIDE DEF d
<1> DEFINE m == d.size - 1
<1>3. m \in Int BY <1>1 DEF Vecs
<1>4. VecPop(v) = [d EXCEPT !.size = m] BY <1>2
<1> HIDE DEF m
<1> QED BY <1>1, <1>3, <1>4 DEF Vecs

LEMMA ConstructTyped ==
  ASSUME NEW v \in Vecs, NEW i \in Int, NEW e \in Elem
  PROVE  /\ Construct(v, i, e) \in Vecs
         /\ v.bad => Construct(v, i, e).bad
         /\ i + 1 \notin 1 .. Len(v.buf) => Construct(v, i, e).bad
         /\ Len(Construct(v, i, e).buf) = Len(v.buf)
<1>1. v.buf \in Seq(Place) /\ DOMAIN v.buf = 1 .. Len(v.buf) BY DEF Vecs
<1>2. CASE i + 1 \in DOMAIN v.buf /\ v.buf[i + 1] = Raw
  <2> DEFINE b == [v.buf EXCEPT ![i + 1] = e]
  <2>1. e \in Place /\ i + 1 \in 1 .. Len(v.buf) BY <1>1, <1>2 DEF Place
  <2>2. b \in Seq(Place) /\ Len(b) = Len(v.buf) BY <1>1, <2>1, ExceptSeq
  <2>3. Construct(v, i, e) = [v EXCEPT !.buf = b] BY <1>2 DEF Construct
  <2> HIDE DEF b
  <2> QED BY <2>1, <2>2, <2>3 DEF Vecs
<1>3. CASE ~(i + 1 \in DOMAIN v.buf /\ v.buf[i + 1] = Raw)
  <2>1. Construct(v, i, e) = [v EXCEPT !.bad = TRUE] BY <1>3 DEF Construct
  <2> QED BY <2>1 DEF Vecs
<1> QED BY <1>2, <1>3

\* The loop of resize that shortens.
LEMMA CutTurns ==
  ASSUME NEW v \in Vecs, NEW n \in Nat, n < v.size
  PROVE  \E g : /\ g[0] = v /\ \A i \in 1 .. v.size - n : g[i] = VecPop(g[i - 1])
                /\ VecResize(v, n) = g[v.size - n]
<1> DEFINE k == v.size - n
           Cut(g) == [i \in 0 .. k |-> IF i = 0 THEN v ELSE VecPop(g[i - 1])]
<1>1. k \in Nat BY DEF Vecs
<1>2. VecResize(v, n) = (CHOOSE g : g = Cut(g))[k] BY DEF VecResize
<1>3. \E g : g = Cut(g)
  <2> DEFINE step == [i \in 1 .. k |-> [y \in Vecs |-> VecPop(y)]]
  <2>1. \A i \in 1 .. k, y \in Vecs : step[i][y] = VecPop(y) /\ step[i][y] \in Vecs BY PopTyped
  <2>2. StaysIn(Vecs, step, k) BY <2>1 DEF StaysIn
  <2> HIDE DEF step, k, Cut
  <2>3. HasTurns(Vecs, step, k, v)
    BY <1>1, <2>2, TurnsExist
  <2>4. PICK g \in [0 .. k -> Vecs] : g[0] = v /\ \A i \in 1 .. k : g[i] = step[i][g[i - 1]]
    BY <2>3 DEF HasTurns
  <2>5. \A i \in 1 .. k : g[i] = VecPop(g[i - 1])
    <3>1. TAKE i \in 1 .. k
    <3>2. g[i - 1] \in Vecs BY <1>1, <2>4
    <3> QED BY <2>1, <2>4, <3>2
  <2>6. \A i \in 0 .. k : g[i] = IF i = 0 THEN v ELSE VecPop(g[i - 1])
    <3>1. TAKE i \in 0 .. k
    <3>2. i # 0 => i \in 1 .. k BY <1>1
    <3> QED BY <2>4, <2>5, <3>2
  <2>7. g = Cut(g) BY <2>4, <2>6 DEF Cut
  <2> QED BY <2>7
<1>4. PICK g : g = Cut(g) /\ VecResize(v, n) = g[k] BY <1>2, <1>3
<1>5. g[0] = v /\ \A i \in 1 .. k : g[i] = VecPop(g[i - 1])
  <2> HIDE DEF k
  <2>1. 0 \in 0 .. k /\ \A i \in 1 .. k : i \in 0 .. k /\ i # 0 BY <1>1
  <2> QED BY <1>4, <2>1
<1> QED BY <1>4, <1>5

\* A beginning of a sequence.
LEMMA Beginning ==
  ASSUME NEW S, NEW s \in Seq(S), NEW k \in 0 .. Len(s)
  PROVE  /\ SubSeq(s, 1, k) \in Seq(S) /\ Len(SubSeq(s, 1, k)) = k
         /\ \A i \in 1 .. k : SubSeq(s, 1, k)[i] = s[i]
<1>1. Len(s) \in Nat /\ \A i \in 1 .. Len(s) : s[i] \in S OBVIOUS
<1>2. 1 \in Int /\ k \in Int /\ \A i \in 1 .. k : s[i] \in S BY <1>1
<1>3. /\ SubSeq(s, 1, k) \in Seq(S) /\ Len(SubSeq(s, 1, k)) = IF 1 <= k THEN k - 1 + 1 ELSE 0
      /\ \A i \in 1 .. k - 1 + 1 : SubSeq(s, 1, k)[i] = s[1 + i - 1]
  BY <1>2, SubSeqProperties
<1>4. \A i \in 1 .. k : i \in 1 .. k - 1 + 1 /\ 1 + i - 1 = i OBVIOUS
<1>5. (IF 1 <= k THEN k - 1 + 1 ELSE 0) = k BY <1>1
<1> QED BY <1>3, <1>4, <1>5

\* The beginning of a beginning.
LEMMA BeginningOf ==
  ASSUME NEW S, NEW s \in Seq(S), NEW m \in 0 .. Len(s), NEW n \in 0 .. m
  PROVE  /\ SubSeq(s, 1, m) \in Seq(S) /\ Len(SubSeq(s, 1, m)) = m
         /\ SubSeq(SubSeq(s, 1, m), 1, n) = SubSeq(s, 1, n)
<1>1. Len(s) \in Nat /\ \A i \in 1 .. Len(s) : s[i] \in S OBVIOUS
<1> DEFINE t == SubSeq(s, 1, m)
<1>2. t \in Seq(S) /\ Len(t) = m /\ \A i \in 1 .. m : t[i] = s[i] BY Beginning
<1>3. n \in 0 .. Len(s) BY <1>1
<1> HIDE DEF t
<1> DEFINE u == SubSeq(t, 1, n)
           v == SubSeq(s, 1, n)
<1>4. v \in Seq(S) /\ Len(v) = n /\ \A i \in 1 .. n : v[i] = s[i] BY <1>3, Beginning
<1>5. u \in Seq(S) /\ Len(u) = n /\ \A i \in 1 .. n : u[i] = t[i] BY <1>2, Beginning
<1> HIDE DEF u, v
<1>6. \A i \in 1 .. n : u[i] = v[i] BY <1>2, <1>4, <1>5
<1>7. u = v BY <1>4, <1>5, <1>6
<1> QED BY <1>2, <1>7 DEF t, u, v

LEMMA ShrinkHolds ==
  ASSUME NEW v, NEW ps, Holds(v, ps), NEW n \in Nat, n < v.size
  PROVE  Holds(VecResize(v, n), SubSeq(ps, 1, n))
<1> DEFINE k == v.size - n
<1>1. v \in Vecs /\ v.size \in Nat /\ ps \in Seq(Elem) /\ Len(ps) = v.size /\ k \in Nat
  BY HoldsFacts DEF Holds
<1>2. PICK g : /\ g[0] = v /\ \A i \in 1 .. k : g[i] = VecPop(g[i - 1])
               /\ VecResize(v, n) = g[k]
  BY <1>1, CutTurns
<1> DEFINE S == {i \in 0 .. k : Holds(g[i], SubSeq(ps, 1, v.size - i)) /\ g[i].size = v.size - i}
<1>3. 0 \in S
  <2>1. SubSeq(ps, 1, v.size) = ps BY <1>1, SubSeqFull
  <2>2. 0 \in 0 .. k /\ v.size - 0 = v.size BY <1>1
  <2> HIDE DEF k
  <2> QED BY <1>2, <2>1, <2>2
<1>4. ASSUME NEW i \in 1 .. k, i - 1 \in S PROVE i \in S
  <2> DEFINE m == v.size - (i - 1)
             qs == SubSeq(ps, 1, m)
  <2>1. Holds(g[i - 1], qs) /\ g[i - 1].size = m BY <1>4
  <2>2. m > 0 /\ m \in 0 .. Len(ps) /\ m - 1 \in 0 .. m /\ m - 1 = v.size - i /\ i \in 0 .. k BY <1>1
  <2>3. SubSeq(qs, 1, m - 1) = SubSeq(ps, 1, m - 1) BY <1>1, <2>2, BeginningOf
  <2> HIDE DEF m, qs, k
  <2>4. /\ Holds(VecPop(g[i - 1]), SubSeq(qs, 1, m - 1)) /\ VecPop(g[i - 1]).size = m - 1
    BY <2>1, <2>2, PopHolds
  <2>5. g[i] = VecPop(g[i - 1]) BY <1>2
  <2> QED BY <2>2, <2>3, <2>4, <2>5
<1> HIDE DEF S, k
<1>5. k \in S
  <2>1. \A i \in 1 .. k : i - 1 \in S => i \in S BY <1>4
  <2>2. \A i \in 0 .. k : i \in S BY <1>1, <1>3, <2>1, EveryTurn
  <2> QED BY <1>1, <2>2
<1>6. v.size - k = n BY <1>1 DEF k
<1> QED BY <1>2, <1>5, <1>6 DEF S

\* The loop of resize that lengthens: nothing is reserved before it.
LEMMA FillTurns ==
  ASSUME NEW v \in Vecs, NEW n \in Nat, 0 <= v.size, v.size <= n
  PROVE  \E g : /\ g[0] = v
                /\ \A i \in 1 .. n - v.size :
                     g[i - 1] \in Vecs /\ g[i] = Construct(g[i - 1], v.size + i - 1, Fresh)
                /\ g[n - v.size] \in Vecs
                /\ VecResize(v, n) = [g[n - v.size] EXCEPT !.size = n]
<1> DEFINE k == n - v.size
           Fill(g) == [i \in 0 .. k |-> IF i = 0 THEN v ELSE Construct(g[i - 1], v.size + i - 1, Fresh)]
<1>1. k \in Nat /\ v.size \in Int /\ ~(n < v.size) BY DEF Vecs
<1>2. (IF n < Len(v.buf) THEN VecReserve(v, n) ELSE v) = v BY DEF VecReserve
<1>3. VecResize(v, n) = [(CHOOSE g : g = Fill(g))[k] EXCEPT !.size = n] BY <1>1, <1>2 DEF VecResize
<1>4. \E g : g = Fill(g) /\ \A i \in 0 .. k : g[i] \in Vecs
  <2> DEFINE step == [i \in 1 .. k |-> [y \in Vecs |-> Construct(y, v.size + i - 1, Fresh)]]
  <2>1. \A i \in 1 .. k : \A y \in Vecs :
          step[i][y] = Construct(y, v.size + i - 1, Fresh) /\ step[i][y] \in Vecs
    <3>1. TAKE i \in 1 .. k
    <3>2. TAKE y \in Vecs
    <3> DEFINE p == v.size + i - 1
    <3>3. p \in Int /\ y \in Vecs /\ Fresh \in Elem BY <1>1, ElemFacts
    <3> HIDE DEF p
    <3>4. Construct(y, p, Fresh) \in Vecs BY <3>3, ConstructTyped
    <3> QED BY <3>4 DEF p
  <2>2. StaysIn(Vecs, step, k) BY <2>1 DEF StaysIn
  <2> HIDE DEF step, k
  <2>3. HasTurns(Vecs, step, k, v) BY <1>1, <2>2, TurnsExist
  <2>4. PICK g \in [0 .. k -> Vecs] : g[0] = v /\ \A i \in 1 .. k : g[i] = step[i][g[i - 1]]
    BY <2>3 DEF HasTurns
  <2>5. \A i \in 1 .. k : g[i] = Construct(g[i - 1], v.size + i - 1, Fresh)
    <3>1. TAKE i \in 1 .. k
    <3>2. g[i - 1] \in Vecs BY <1>1, <2>4
    <3> QED BY <2>1, <2>4, <3>2
  <2>6. \A i \in 0 .. k : g[i] = IF i = 0 THEN v ELSE Construct(g[i - 1], v.size + i - 1, Fresh)
    <3>1. TAKE i \in 0 .. k
    <3>2. i # 0 => i \in 1 .. k BY <1>1
    <3> QED BY <2>4, <2>5, <3>2
  <2>7. g = Fill(g) BY <2>4, <2>6
  <2> QED BY <2>4, <2>7
<1>5. PICK g : g = Fill(g) /\ VecResize(v, n) = [g[k] EXCEPT !.size = n] BY <1>3, <1>4
<1>6. 0 \in 0 .. k /\ k \in 0 .. k /\ \A i \in 1 .. k : i \in 0 .. k /\ i - 1 \in 0 .. k /\ i # 0 BY <1>1
<1>7. g[0] = v /\ \A i \in 1 .. k : g[i] = Construct(g[i - 1], v.size + i - 1, Fresh)
  <2> HIDE DEF k
  <2> QED BY <1>5, <1>6
<1>8. \A i \in 0 .. k : g[i] \in Vecs
  <2> DEFINE S == {i \in 0 .. k : g[i] \in Vecs}
  <2> HIDE DEF k
  <2>1. 0 \in S BY <1>6, <1>7
  <2>2. ASSUME NEW i \in 1 .. k, i - 1 \in S PROVE i \in S
    <3> DEFINE p == v.size + i - 1
    <3>1. p \in Int /\ g[i - 1] \in Vecs /\ Fresh \in Elem BY <1>1, <2>2, ElemFacts
    <3> HIDE DEF p
    <3>2. Construct(g[i - 1], p, Fresh) \in Vecs BY <3>1, ConstructTyped
    <3> QED BY <1>6, <1>7, <3>2 DEF p
  <2>3. \A i \in 1 .. k : i - 1 \in S => i \in S BY <2>2
  <2> HIDE DEF S
  <2>4. \A i \in 0 .. k : i \in S BY <1>1, <2>1, <2>3, EveryTurn
  <2> QED BY <2>4 DEF S
<1> HIDE DEF Fill
<1> QED BY <1>5, <1>6, <1>7, <1>8

\* What an element in the next raw place makes of a vector.
LEMMA ConstructNext ==
  ASSUME NEW v \in Vecs, NEW i \in Int, i + 1 \in 1 .. Len(v.buf), v.buf[i + 1] = Raw, NEW e \in Elem
  PROVE  /\ Construct(v, i, e).bad = v.bad /\ Len(Construct(v, i, e).buf) = Len(v.buf)
         /\ \A j \in 1 .. Len(v.buf) : Construct(v, i, e).buf[j] = IF j = i + 1 THEN e ELSE v.buf[j]
<1> DEFINE b == [v.buf EXCEPT ![i + 1] = e]
<1>1. v.buf \in Seq(Place) /\ DOMAIN v.buf = 1 .. Len(v.buf) /\ e \in Place BY DEF Vecs, Place
<1>2. Len(b) = Len(v.buf) /\ \A j \in 1 .. Len(v.buf) : b[j] = IF j = i + 1 THEN e ELSE v.buf[j]
  BY <1>1, ExceptSeq
<1>3. Construct(v, i, e) = [v EXCEPT !.buf = b] BY <1>1 DEF Construct
<1> HIDE DEF b
<1> QED BY <1>2, <1>3 DEF Vecs

LEMMA GrowHolds ==
  ASSUME NEW v, NEW ps, Holds(v, ps), NEW n \in Nat, v.size <= n
  PROVE  IF n <= Len(v.buf) THEN Holds(VecResize(v, n), ps \o [i \in 1 .. n - v.size |-> Fresh])
         ELSE VecResize(v, n).bad
<1> DEFINE k == n - v.size
           s == v.size
           l == Len(v.buf)
<1>1. v \in Vecs /\ s \in Nat /\ l \in Nat /\ s <= l /\ ps \in Seq(Elem) /\ Len(ps) = s /\ k \in Nat /\ v.bad = FALSE
  BY HoldsFacts DEF Holds
<1>2. PICK g : /\ g[0] = v
               /\ \A i \in 1 .. k : g[i - 1] \in Vecs /\ g[i] = Construct(g[i - 1], s + i - 1, Fresh)
               /\ g[k] \in Vecs
               /\ VecResize(v, n) = [g[k] EXCEPT !.size = n]
  BY <1>1, FillTurns
<1>3. s + k = n BY <1>1
<1>4. /\ \A i \in 1 .. s : v.buf[i] = ps[i] /\ ps[i] \in Elem
      /\ \A i \in 1 .. l : i > s => v.buf[i] = Raw
  BY HoldsFacts
<1> DEFINE r == VecResize(v, n)
<1>5. r \in Vecs /\ r.buf = g[k].buf /\ r.bad = g[k].bad /\ r.size = n BY <1>2 DEF Vecs
<1> HIDE DEF k, s, l, r
<1>6. CASE n <= l
  <2> DEFINE Stands(b, i) == \A j \in 1 .. l : b[j] = IF j <= s THEN ps[j] ELSE IF j <= s + i THEN Fresh ELSE Raw
             S == {i \in 0 .. k : g[i].bad = FALSE /\ Len(g[i].buf) = l /\ Stands(g[i].buf, i)}
  <2>1. 0 \in S
    <3>1. Stands(v.buf, 0)
      <4>1. TAKE j \in 1 .. l
      <4>2. CASE j <= s
        <5>1. j \in 1 .. s BY <1>1, <4>2
        <5> QED BY <1>4, <4>2, <5>1
      <4>3. CASE ~(j <= s)
        <5>1. j > s /\ ~(j <= s + 0) BY <1>1, <4>3
        <5> QED BY <1>4, <4>3, <5>1
      <4> QED BY <4>2, <4>3
    <3>2. 0 \in 0 .. k /\ Len(v.buf) = l BY <1>1 DEF l
    <3> HIDE DEF Stands
    <3> QED BY <1>1, <1>2, <3>1, <3>2
  <2>2. ASSUME NEW i \in 1 .. k, i - 1 \in S PROVE i \in S
    <3> DEFINE x == g[i - 1]
               y == g[i]
    <3>1. x \in Vecs /\ x.bad = FALSE /\ Len(x.buf) = l /\ Stands(x.buf, i - 1) BY <1>2, <2>2
    <3>2. y = Construct(x, s + i - 1, Fresh) BY <1>2
    <3>3. s + i - 1 \in Int /\ s + i - 1 + 1 = s + i /\ s + i \in 1 .. l /\ i \in 0 .. k
      BY <1>1, <1>3, <1>6
    <3>4. x.buf[s + i] = Raw
      <4>1. ~(s + i <= s) /\ ~(s + i <= s + (i - 1)) BY <1>1
      <4> QED BY <3>1, <3>3, <4>1
    <3> HIDE DEF x, y, Stands
    <3>5. /\ y.bad = FALSE /\ Len(y.buf) = l
          /\ \A j \in 1 .. l : y.buf[j] = IF j = s + i THEN Fresh ELSE x.buf[j]
      <4> DEFINE p == s + i - 1
      <4>1. p \in Int /\ p + 1 = s + i /\ p + 1 \in 1 .. Len(x.buf) /\ x.buf[p + 1] = Raw BY <3>1, <3>3, <3>4
      <4>2. y = Construct(x, p, Fresh) BY <3>2
      <4> HIDE DEF p
      <4> QED BY <3>1, <4>1, <4>2, ConstructNext, ElemFacts
    <3>6. Stands(y.buf, i)
      <4> SUFFICES ASSUME NEW j \in 1 .. l
                   PROVE  y.buf[j] = IF j <= s THEN ps[j] ELSE IF j <= s + i THEN Fresh ELSE Raw
        BY DEF Stands
      <4>1. x.buf[j] = IF j <= s THEN ps[j] ELSE IF j <= s + (i - 1) THEN Fresh ELSE Raw BY <3>1 DEF Stands
      <4>2. CASE j = s + i
        <5>1. ~(j <= s) /\ j <= s + i BY <1>1, <4>2
        <5> QED BY <3>5, <4>2, <5>1
      <4>3. CASE j # s + i
        <5>1. j <= s + i <=> j <= s + (i - 1) BY <1>1, <4>3
        <5> QED BY <3>5, <4>1, <4>3, <5>1
      <4> QED BY <4>2, <4>3
    <3> QED BY <3>3, <3>5, <3>6 DEF y
  <2>3. \A i \in 1 .. k : i - 1 \in S => i \in S BY <2>2
  <2>4. \A i \in 0 .. k : i \in S
    <3> HIDE DEF S
    <3> QED BY <1>1, <2>1, <2>3, EveryTurn
  <2>5. k \in 0 .. k BY <1>1
  <2>6. g[k].bad = FALSE /\ Len(g[k].buf) = l /\ Stands(g[k].buf, k) BY <2>4, <2>5
  <2> HIDE DEF S
  <2> DEFINE fs == [i \in 1 .. k |-> Fresh]
             qs == ps \o fs
             b == r.buf
  <2>7. fs \in Seq(Elem) /\ Len(fs) = k /\ \A i \in 1 .. k : fs[i] = Fresh BY <1>1, ElemFacts
  <2>8. b \in Seq(Place) /\ Len(b) = l /\ Stands(b, k) /\ r.bad = FALSE BY <1>5, <2>6 DEF Vecs
  <2> HIDE DEF fs, b
  <2>9. /\ qs \in Seq(Elem) /\ Len(qs) = n
        /\ \A j \in 1 .. n : qs[j] = IF j <= s THEN ps[j] ELSE Fresh
    <3>1. /\ qs \in Seq(Elem) /\ Len(qs) = s + k
          /\ \A j \in 1 .. s + k : qs[j] = IF j <= s THEN ps[j] ELSE fs[j - s]
      BY <1>1, <2>7, ConcatProperties
    <3>2. \A j \in 1 .. n : ~(j <= s) => j - s \in 1 .. k BY <1>1, <1>3
    <3> HIDE DEF qs
    <3> QED BY <1>3, <2>7, <3>1, <3>2
  <2> HIDE DEF qs
  <2>10. \A j \in 1 .. n : b[j] = qs[j]
    <3>1. TAKE j \in 1 .. n
    <3>2. j \in 1 .. l /\ j <= s + k BY <1>1, <1>3, <1>6
    <3> QED BY <2>8, <2>9, <3>2
  <2>11. \A j \in 1 .. Len(b) : j > n => b[j] = Raw
    <3>1. TAKE j \in 1 .. Len(b)
    <3>2. HAVE j > n
    <3>3. j \in 1 .. l /\ ~(j <= s) /\ ~(j <= s + k) BY <1>1, <1>3, <2>8, <3>2
    <3> QED BY <2>8, <3>3
  <2>12. n = Len(qs) /\ n <= Len(b) /\ r \in Vecs /\ r.buf = b /\ r.size = n /\ r.bad = FALSE
    BY <1>5, <1>6, <2>8, <2>9 DEF b
  <2> HIDE DEF Stands
  <2>13. Holds(r, qs) BY <2>8, <2>9, <2>10, <2>11, <2>12, HoldsFrom
  <2> QED BY <1>6, <2>13 DEF r, qs, fs, k, s, l
<1>7. CASE ~(n <= l)
  <2> DEFINE S == {i \in 0 .. k : Len(g[i].buf) = l /\ (s + i > l => g[i].bad)}
  <2>1. 0 \in S
    <3>1. 0 \in 0 .. k /\ Len(v.buf) = l /\ ~(s + 0 > l) BY <1>1 DEF l
    <3> QED BY <1>2, <3>1
  <2>2. ASSUME NEW i \in 1 .. k, i - 1 \in S PROVE i \in S
    <3> DEFINE x == g[i - 1]
               p == s + i - 1
    <3>1. x \in Vecs /\ Len(x.buf) = l /\ g[i] = Construct(x, p, Fresh) BY <1>2, <2>2
    <3>2. p \in Int /\ (s + i > l => p + 1 \notin 1 .. l) /\ i \in 0 .. k BY <1>1
    <3> HIDE DEF x, p
    <3>3. Len(Construct(x, p, Fresh).buf) = l /\ (p + 1 \notin 1 .. l => Construct(x, p, Fresh).bad)
      BY <3>1, <3>2, ConstructTyped, ElemFacts
    <3> QED BY <3>1, <3>2, <3>3
  <2>3. \A i \in 1 .. k : i - 1 \in S => i \in S BY <2>2
  <2>4. \A i \in 0 .. k : i \in S
    <3> HIDE DEF S
    <3> QED BY <1>1, <2>1, <2>3, EveryTurn
  <2>5. k \in 0 .. k /\ s + k > l BY <1>1, <1>3, <1>7
  <2>6. g[k].bad BY <2>4, <2>5
  <2> QED BY <1>5, <1>7, <2>6 DEF r, l
<1> QED BY <1>6, <1>7

\* A beginning, and the next.
LEMMA BeginningGrows ==
  ASSUME NEW S, NEW s \in Seq(S), NEW n \in 1 .. Len(s)
  PROVE  SubSeq(s, 1, n) = Append(SubSeq(s, 1, n - 1), s[n])
<1>1. Len(s) \in Nat /\ \A i \in 1 .. Len(s) : s[i] \in S OBVIOUS
<1> DEFINE t == SubSeq(s, 1, n)
           u == SubSeq(s, 1, n - 1)
           w == Append(u, s[n])
<1>2. t \in Seq(S) /\ Len(t) = n /\ \A i \in 1 .. n : t[i] = s[i] BY <1>1, Beginning
<1>3. u \in Seq(S) /\ Len(u) = n - 1 /\ \A i \in 1 .. n - 1 : u[i] = s[i]
  <2>1. n - 1 \in 0 .. Len(s) BY <1>1
  <2> QED BY <2>1, Beginning
<1> HIDE DEF t, u
<1>4. w \in Seq(S) /\ Len(w) = n /\ w[n] = s[n] /\ \A i \in 1 .. n - 1 : w[i] = s[i]
  <2>1. s[n] \in S /\ n - 1 + 1 = n BY <1>1
  <2>2. /\ w \in Seq(S) /\ Len(w) = Len(u) + 1 /\ \A i \in 1 .. Len(u) : w[i] = u[i]
        /\ w[Len(u) + 1] = s[n]
    BY <1>3, <2>1, AppendProperties
  <2> QED BY <1>3, <2>1, <2>2
<1> HIDE DEF w
<1>5. \A i \in 1 .. n : t[i] = w[i]
  <2>1. TAKE i \in 1 .. n
  <2>2. i = n \/ i \in 1 .. n - 1 BY <1>1
  <2> QED BY <1>2, <1>4, <2>2
<1>6. t = w BY <1>2, <1>4, <1>5
<1> QED BY <1>6 DEF t, u, w

\* The loop of the copy constructor.
LEMMA CopyTurns ==
  ASSUME NEW v, NEW ps, Holds(v, ps)
  PROVE  \E g : /\ Holds(g[0], <<>>)
                /\ \A i \in 1 .. v.size : g[i] = VecPush(g[i - 1], v.buf[i])
                /\ VecCopy(v) = g[v.size]
<1> DEFINE k == v.size
           X == {y \in Vecs : \E qs \in Seq(Elem) : Holds(y, qs)}
           none == [buf |-> <<>>, size |-> 0, bad |-> v.bad]
           x == VecReserve(none, v.size)
           Copying(g) == [i \in 0 .. k |-> IF i = 0 THEN x ELSE VecPush(g[i - 1], v.buf[i])]
<1>1. k \in Nat /\ v.bad = FALSE /\ \A i \in 1 .. k : v.buf[i] \in Elem
  BY HoldsFacts
<1>2. VecCopy(v) = (CHOOSE g : g = Copying(g))[k] BY DEF VecCopy
<1>3. Holds(x, <<>>) /\ x \in X
  <2> DEFINE b == <<>>
             s == 0
             f == v.bad
  <2>1. b \in Seq(Place) /\ b \in Seq(Elem) /\ Len(b) = s /\ s \in Nat /\ f = FALSE /\ f \in BOOLEAN
    <3>1. b \in Seq(Place) /\ b \in Seq(Elem) /\ Len(b) = s /\ s \in Nat OBVIOUS
    <3> QED BY <1>1, <3>1
  <2>2. (\A i \in 1 .. s : b[i] = b[i]) /\ \A i \in 1 .. Len(b) : i > s => b[i] = Raw BY <2>1
  <2>3. none = [buf |-> b, size |-> s, bad |-> f] /\ s <= k BY <1>1
  <2> HIDE DEF b, s, f, none
  <2>4. none \in Vecs /\ none.buf = b /\ none.size = s /\ none.bad = FALSE BY <2>1, <2>3 DEF Vecs
  <2>5. s <= Len(b) BY <2>1
  <2>6. Holds(none, b) BY <2>1, <2>2, <2>4, <2>5, HoldsFrom
  <2>7. Holds(VecReserve(none, k), b) BY <1>1, <2>3, <2>4, <2>6, ReserveHolds
  <2> HIDE DEF k
  <2>8. Holds(x, b) /\ x \in Vecs /\ b \in Seq(Elem) BY <2>1, <2>7 DEF Holds, k
  <2> HIDE DEF x
  <2>9. x \in X BY <2>8
  <2> QED BY <2>8, <2>9 DEF b
<1> HIDE DEF x, none
<1>4. \A i \in 1 .. k : \A y \in X : VecPush(y, v.buf[i]) \in X
  <2>1. TAKE i \in 1 .. k
  <2>2. TAKE y \in X
  <2>3. PICK qs \in Seq(Elem) : Holds(y, qs) OBVIOUS
  <2> DEFINE e == v.buf[i]
             rs == Append(qs, e)
             w == VecPush(y, e)
  <2>4. e \in Elem BY <1>1
  <2> HIDE DEF e
  <2>5. Holds(w, rs) BY <2>3, <2>4, PushHolds
  <2> HIDE DEF w, rs
  <2>6. w \in Vecs /\ rs \in Seq(Elem) BY <2>5 DEF Holds
  <2>7. w \in X BY <2>5, <2>6
  <2> QED BY <2>7 DEF w, e
<1> HIDE DEF X
<1>5. \E g : g = Copying(g)
  <2> DEFINE step == [i \in 1 .. k |-> [y \in X |-> VecPush(y, v.buf[i])]]
  <2>1. \A i \in 1 .. k : \A y \in X : step[i][y] = VecPush(y, v.buf[i]) /\ step[i][y] \in X BY <1>4
  <2>2. StaysIn(X, step, k) BY <2>1 DEF StaysIn
  <2> HIDE DEF step, k
  <2>3. HasTurns(X, step, k, x) BY <1>1, <1>3, <2>2, TurnsExist
  <2>4. PICK g \in [0 .. k -> X] : g[0] = x /\ \A i \in 1 .. k : g[i] = step[i][g[i - 1]]
    BY <2>3 DEF HasTurns
  <2>5. \A i \in 1 .. k : g[i] = VecPush(g[i - 1], v.buf[i])
    <3>1. TAKE i \in 1 .. k
    <3>2. g[i - 1] \in X BY <1>1, <2>4
    <3> QED BY <2>1, <2>4, <3>2
  <2>6. \A i \in 0 .. k : g[i] = IF i = 0 THEN x ELSE VecPush(g[i - 1], v.buf[i])
    <3>1. TAKE i \in 0 .. k
    <3>2. i # 0 => i \in 1 .. k BY <1>1
    <3> QED BY <2>4, <2>5, <3>2
  <2>7. g = Copying(g) BY <2>4, <2>6
  <2> QED BY <2>7
<1>6. PICK g : g = Copying(g) /\ VecCopy(v) = g[k] BY <1>2, <1>5
<1>7. g[0] = x /\ \A i \in 1 .. k : g[i] = VecPush(g[i - 1], v.buf[i])
  <2> HIDE DEF k
  <2>1. 0 \in 0 .. k /\ \A i \in 1 .. k : i \in 0 .. k /\ i # 0 BY <1>1
  <2> QED BY <1>6, <2>1
<1> QED BY <1>3, <1>6, <1>7

LEMMA CopyHolds ==
  ASSUME NEW v, NEW ps, Holds(v, ps)
  PROVE  Holds(VecCopy(v), ps)
<1> DEFINE k == v.size
<1>1. /\ k \in Nat /\ ps \in Seq(Elem) /\ Len(ps) = k
      /\ \A i \in 1 .. k : v.buf[i] = ps[i] /\ ps[i] \in Elem
  BY HoldsFacts DEF Holds
<1>2. PICK g : /\ Holds(g[0], <<>>) /\ VecCopy(v) = g[k]
               /\ \A i \in 1 .. k : g[i] = VecPush(g[i - 1], v.buf[i])
  BY CopyTurns
<1> DEFINE S == {i \in 0 .. k : Holds(g[i], SubSeq(ps, 1, i))}
<1>3. 0 \in S
  <2>1. SubSeq(ps, 1, 0) = <<>> BY <1>1
  <2>2. 0 \in 0 .. k BY <1>1
  <2> HIDE DEF k
  <2> QED BY <1>2, <2>1, <2>2
<1>4. ASSUME NEW i \in 1 .. k, i - 1 \in S PROVE i \in S
  <2>1. SubSeq(ps, 1, i) = Append(SubSeq(ps, 1, i - 1), ps[i]) BY <1>1, BeginningGrows
  <2> DEFINE qs == SubSeq(ps, 1, i - 1)
             e == ps[i]
  <2>2. Holds(g[i - 1], qs) /\ e \in Elem /\ g[i] = VecPush(g[i - 1], e) BY <1>1, <1>2, <1>4
  <2>3. i \in 0 .. k BY <1>1
  <2> HIDE DEF qs, e, k
  <2>4. Holds(VecPush(g[i - 1], e), Append(qs, e)) BY <2>2, PushHolds
  <2> QED BY <2>1, <2>2, <2>3, <2>4 DEF qs, e
<1>5. \A i \in 1 .. k : i - 1 \in S => i \in S BY <1>4
<1>6. k \in S
  <2> HIDE DEF S, k
  <2>1. \A i \in 0 .. k : i \in S BY <1>1, <1>3, <1>5, EveryTurn
  <2> QED BY <1>1, <2>1
<1>7. SubSeq(ps, 1, k) = ps BY <1>1, SubSeqFull
<1> QED BY <1>2, <1>6, <1>7

\* The first of the pairs of a key.
LEMMA LeastIn ==
  ASSUME NEW I \in SUBSET Nat, I # {}
  PROVE  Min(I) \in I
<1>1. IsWellFoundedOn(OpToRel(<, Nat), Nat) BY NatLessThanWellFounded
<1>2. PICK i \in I : \A j \in I : ~(<<j, i>> \in OpToRel(<, Nat)) BY <1>1, WFMin
<1>3. \A j \in I : ~(j < i) BY <1>2 DEF OpToRel
<1>4. \A j \in I : i <= j BY <1>3
<1> QED BY <1>4 DEF Min

LEMMA AssignHolds ==
  ASSUME NEW v, NEW ps, Holds(v, ps), NEW k \in MapKeys, NEW x \in Values
  PROVE  Holds(MapAssign(v, k, x), Put(ps, k, x))
<1> DEFINE I == {i \in 1 .. Len(ps) : ps[i][1] = k}
           e == <<k, x>>
           j == Min(I)
<1>1. /\ v.buf \in Seq(Place) /\ Len(v.buf) \in Nat /\ v.size \in Nat /\ v.bad = FALSE /\ Len(ps) \in Nat
      /\ \A i \in 1 .. v.size : v.buf[i] = ps[i] /\ ps[i] \in Elem
      /\ \A i \in 1 .. Len(v.buf) : i > v.size => v.buf[i] = Raw
      /\ v \in Vecs /\ ps \in Seq(Elem) /\ v.size = Len(ps) /\ v.size <= Len(v.buf)
  BY HoldsFacts DEF Holds
<1>2. e \in Elem /\ e \in Place BY DEF Elem, Place
<1>3. FoundAt(v, k) = I BY <1>1 DEF FoundAt
<1>4. SelectInSeq(ps, LAMBDA p : p[1] = k) = IF I # {} THEN j ELSE 0 BY DEF SelectInSeq
<1>5. Put(ps, k, x) = IF (IF I # {} THEN j ELSE 0) = 0 THEN Append(ps, e) ELSE [ps EXCEPT ![IF I # {} THEN j ELSE 0] = e]
  BY <1>4 DEF Put
<1>6. MapAssign(v, k, x) = IF I # {} THEN [v EXCEPT !.buf[j] = e] ELSE VecPush(v, e)
  BY <1>3 DEF MapAssign
<1>7. CASE I = {}
  <2>1. Put(ps, k, x) = Append(ps, e) /\ MapAssign(v, k, x) = VecPush(v, e) BY <1>5, <1>6, <1>7
  <2> HIDE DEF e
  <2>2. Holds(VecPush(v, e), Append(ps, e)) BY <1>2, PushHolds
  <2> QED BY <2>1, <2>2
<1>8. CASE I # {}
  <2>1. j \in 1 .. Len(ps)
    <3>1. I \in SUBSET Nat BY <1>1
    <3> HIDE DEF I
    <3>2. j \in I BY <1>8, <3>1, LeastIn
    <3> QED BY <3>2 DEF I
  <2> DEFINE qs == [ps EXCEPT ![j] = e]
             b == [v.buf EXCEPT ![j] = e]
             w == MapAssign(v, k, x)
  <2> HIDE DEF I, e, j
  <2>2. j # 0 /\ j \in 1 .. Len(v.buf) /\ j \in 1 .. v.size BY <1>1, <2>1
  <2>3. Put(ps, k, x) = qs /\ w = [v EXCEPT !.buf = b] BY <1>5, <1>6, <1>8, <2>2
  <2>4. qs \in Seq(Elem) /\ Len(qs) = Len(ps) /\ \A i \in 1 .. Len(ps) : qs[i] = IF i = j THEN e ELSE ps[i]
    BY <1>1, <1>2, <2>1, ExceptSeq
  <2>5. b \in Seq(Place) /\ Len(b) = Len(v.buf) /\ \A i \in 1 .. Len(v.buf) : b[i] = IF i = j THEN e ELSE v.buf[i]
    BY <1>1, <1>2, <2>2, ExceptSeq
  <2> HIDE DEF qs, b, w
  <2>6. w \in Vecs /\ w.buf = b /\ w.size = v.size /\ w.bad = FALSE BY <1>1, <2>3, <2>5 DEF Vecs
  <2>7. \A i \in 1 .. v.size : b[i] = qs[i]
    <3>1. TAKE i \in 1 .. v.size
    <3>2. i \in 1 .. Len(ps) /\ i \in 1 .. Len(v.buf) BY <1>1
    <3> QED BY <1>1, <2>4, <2>5, <3>2
  <2>8. \A i \in 1 .. Len(b) : i > v.size => b[i] = Raw
    <3>1. TAKE i \in 1 .. Len(b)
    <3>2. HAVE i > v.size
    <3>3. i \in 1 .. Len(v.buf) /\ i # j BY <1>1, <2>2, <2>5, <3>2
    <3> QED BY <1>1, <2>5, <3>2, <3>3
  <2>9. v.size = Len(qs) /\ v.size <= Len(b) BY <1>1, <2>4, <2>5
  <2>10. Holds(w, qs) BY <2>4, <2>5, <2>6, <2>7, <2>8, <2>9, HoldsFrom
  <2> QED BY <2>3, <2>10 DEF w
<1> QED BY <1>7, <1>8

-----------------------------------------------------------------------------
(***************************************************************************)
(* The steps of a vector.                                                  *)
(***************************************************************************)

VecInv == (misused => grown) /\ (~misused => Holds(Vec, pairs))

LEMMA BecomesHolds ==
  ASSUME NEW v, NEW ps, Becomes(v, ps), Holds(v, ps)
  PROVE  VecInv'
<1>1. buf' = v.buf /\ size' = v.size /\ misused' = v.bad /\ pairs' = ps BY DEF Becomes
<1>2. v.bad = FALSE /\ v \in Vecs BY HoldsFacts DEF Holds
<1>3. Vec' = v BY <1>1, <1>2 DEF Vec, Vecs
<1> QED BY <1>1, <1>2, <1>3 DEF VecInv

LEMMA MapInsertInv ==
  ASSUME VecInv, NEW k \in MapKeys, NEW x \in Values, MapInsert(k, x)
  PROVE  VecInv'
<1> DEFINE w == MapAssign(Vec, k, x)
           qs == Put(pairs, k, x)
<1>1. Becomes(w, qs) /\ ~misused BY DEF MapInsert, Becomes
<1>2. Holds(Vec, pairs) BY <1>1 DEF VecInv
<1>3. Holds(w, qs) BY <1>2, AssignHolds
<1> HIDE DEF w, qs
<1> QED BY <1>1, <1>3, BecomesHolds

LEMMA TakeLastInv ==
  ASSUME VecInv, TakeLast
  PROVE  VecInv'
<1> DEFINE w == VecPop(Vec)
           qs == Front(pairs)
<1>1. Becomes(w, qs) /\ ~misused /\ size > 0 BY DEF TakeLast, Becomes
<1>2. Holds(Vec, pairs) BY <1>1 DEF VecInv
<1>3. Vec.size = size /\ Vec.size = Len(pairs) BY <1>2 DEF Vec, Holds
<1>4. Holds(VecPop(Vec), SubSeq(pairs, 1, Vec.size - 1)) BY <1>1, <1>2, <1>3, PopHolds
<1>5. qs = SubSeq(pairs, 1, Vec.size - 1) BY <1>3 DEF Front
<1>6. Holds(w, qs) BY <1>4, <1>5
<1> HIDE DEF w, qs
<1> QED BY <1>1, <1>6, BecomesHolds

LEMMA CopyAllInv ==
  ASSUME VecInv, CopyAll
  PROVE  VecInv'
<1> DEFINE w == VecCopy(Vec)
<1>1. Becomes(w, pairs) /\ ~misused BY DEF CopyAll, Becomes
<1>2. Holds(Vec, pairs) BY <1>1 DEF VecInv
<1>3. Holds(w, pairs) BY <1>2, CopyHolds
<1> HIDE DEF w
<1> QED BY <1>1, <1>3, BecomesHolds

LEMMA NewSizeInv ==
  ASSUME VecInv, NEW n \in 0 .. MaxSize, NewSize(n)
  PROVE  VecInv'
<1> DEFINE w == VecResize(Vec, n)
           more == [i \in 1 .. n - size |-> Fresh]
           qs == IF n <= size THEN SubSeq(pairs, 1, n) ELSE pairs \o more
<1>1. Becomes(w, qs) /\ ~misused /\ grown' = (grown \/ n > Len(buf)) BY DEF NewSize, Becomes
<1>2. Holds(Vec, pairs) BY <1>1 DEF VecInv
<1>3. /\ Vec.size = size /\ Vec.buf = buf /\ size = Len(pairs) /\ size \in Nat /\ pairs \in Seq(Elem)
      /\ Len(buf) \in Nat /\ size <= Len(buf)
  <2>1. Vec.size = size /\ Vec.buf = buf BY DEF Vec
  <2> QED BY <1>2, <2>1, HoldsFacts DEF Holds
<1>4. n \in Nat /\ n >= 0 BY ContainersAssumption
<1>5. CASE n < size
  <2>1. Holds(w, SubSeq(pairs, 1, n)) BY <1>2, <1>3, <1>4, <1>5, ShrinkHolds
  <2>2. qs = SubSeq(pairs, 1, n) BY <1>3, <1>4, <1>5
  <2> HIDE DEF w, qs
  <2> QED BY <1>1, <2>1, <2>2, BecomesHolds
<1>6. CASE ~(n < size)
  <2>1. IF n <= Len(buf) THEN Holds(w, pairs \o more) ELSE w.bad
    <3>1. Vec.size <= n BY <1>3, <1>4, <1>6
    <3> QED BY <1>2, <1>3, <1>4, <3>1, GrowHolds
  <2>2. CASE n <= Len(buf)
    <3>1. qs = pairs \o more
      <4>1. CASE n <= size
        <5>1. n = size BY <1>3, <1>4, <1>6, <4>1
        <5>2. more = <<>> BY <1>3, <5>1
        <5>3. qs = pairs BY <1>3, <5>1, SubSeqFull
        <5>4. pairs \o <<>> = pairs BY <1>3, ConcatEmptySeq
        <5> QED BY <5>2, <5>3, <5>4
      <4>2. CASE ~(n <= size) BY <4>2
      <4> QED BY <4>1, <4>2
    <3> HIDE DEF w, qs, more
    <3>2. Holds(w, qs) BY <2>1, <2>2, <3>1
    <3> QED BY <1>1, <3>2, BecomesHolds
  <2>3. CASE ~(n <= Len(buf))
    <3>1. n > Len(buf) /\ w.bad BY <1>3, <1>4, <2>1, <2>3
    <3> HIDE DEF w, qs
    <3>2. grown' /\ misused' = w.bad BY <1>1, <3>1 DEF Becomes
    <3> QED BY <3>1, <3>2 DEF VecInv
  <2> QED BY <2>2, <2>3
<1> QED BY <1>5, <1>6

\* What it says of the vector is in the invariant.
LEMMA VecInvImplies == VecInv => VectorHolds
<1> SUFFICES ASSUME VecInv, ~misused
             PROVE  SubSeq(buf, 1, size) = pairs /\ \A i \in size + 1 .. Len(buf) : buf[i] = Raw
  BY DEF VecInv, VectorHolds
<1>1. Holds(Vec, pairs) /\ Vec.buf = buf /\ Vec.size = size BY DEF VecInv, Vec
<1>2. /\ buf \in Seq(Place) /\ Len(buf) \in Nat /\ size \in Nat /\ pairs \in Seq(Elem) /\ size = Len(pairs)
      /\ size <= Len(buf)
      /\ \A i \in 1 .. size : buf[i] = pairs[i]
      /\ \A i \in 1 .. Len(buf) : i > size => buf[i] = Raw
  BY <1>1, HoldsFacts DEF Holds
<1>3. SubSeq(buf, 1, size) = [i \in 1 .. size |-> buf[i]]
  BY <1>2
<1>4. pairs = [i \in 1 .. size |-> pairs[i]] BY <1>2
<1>5. SubSeq(buf, 1, size) = pairs BY <1>2, <1>3, <1>4
<1>6. ASSUME NEW i \in size + 1 .. Len(buf) PROVE buf[i] = Raw
  <2>1. i \in 1 .. Len(buf) /\ i > size BY <1>2
  <2> QED BY <1>2, <2>1
<1> QED BY <1>5, <1>6

\* One part leaves the other alone.
LEMMA VecNextInv ==
  ASSUME VecInv, PtrInv, VecNext
  PROVE  VecInv' /\ PtrInv'
<1>1. VecInv'
  <2>1. CASE \E k \in MapKeys, x \in Values : MapInsert(k, x) BY <2>1, MapInsertInv
  <2>2. CASE \E n \in 0 .. MaxSize : NewSize(n) BY <2>2, NewSizeInv
  <2>3. CASE TakeLast BY <2>3, TakeLastInv
  <2>4. CASE CopyAll BY <2>4, CopyAllInv
  <2> QED BY <2>1, <2>2, <2>3, <2>4 DEF VecNext
<1>2. UNCHANGED ptrVars
  <2>1. \E v, ps : Becomes(v, ps)
    <3>1. CASE \E k \in MapKeys, x \in Values : MapInsert(k, x) BY <3>1 DEF MapInsert
    <3>2. CASE \E n \in 0 .. MaxSize : NewSize(n) BY <3>2 DEF NewSize
    <3>3. CASE TakeLast BY <3>3 DEF TakeLast
    <3>4. CASE CopyAll BY <3>4 DEF CopyAll
    <3> QED BY <3>1, <3>2, <3>3, <3>4 DEF VecNext
  <2> QED BY <2>1 DEF Becomes
<1>3. PtrInv' BY <1>2 DEF PtrInv, ptrVars, SharedLives
<1> QED BY <1>1, <1>3

LEMMA PtrNextInv ==
  ASSUME VecInv, PtrInv, PtrNext
  PROVE  VecInv' /\ PtrInv'
<1>1. PtrInv'
  <2>1. CASE \E h \in Handles : DropHandle(h) BY <2>1, DropHandleInv
  <2>2. CASE \E h \in Handles, o \in Objects, t \in BOOLEAN : Make(h, o, t) BY <2>2, MakeInv
  <2>3. CASE \E h, g \in Handles : CopyHandle(h, g) BY <2>3, CopyHandleInv
  <2>4. CASE \E h, g \in Handles : AssignHandle(h, g) BY <2>4, AssignHandleInv
  <2> QED BY <2>1, <2>2, <2>3, <2>4 DEF PtrNext
<1>2. UNCHANGED vecVars BY DEF PtrNext, DropHandle, Make, CopyHandle, AssignHandle, Op
<1>3. VecInv' BY <1>2 DEF VecInv, vecVars, Vec
<1> QED BY <1>1, <1>3

LEMMA ContainersInit == Init => VecInv /\ PtrInv
<1> SUFFICES ASSUME Init PROVE VecInv /\ PtrInv OBVIOUS
<1>1. ContInit BY DEF Init
<1>2. VecInv
  <2> DEFINE b == <<>>
             n == 0
             f == FALSE
  <2>1. b \in Seq(Place) /\ b \in Seq(Elem) /\ Len(b) = n /\ n \in Nat /\ n <= Len(b) OBVIOUS
  <2>2. (\A i \in 1 .. n : b[i] = b[i]) /\ \A i \in 1 .. Len(b) : i > n => b[i] = Raw BY <2>1
  <2>3. Vec = [buf |-> b, size |-> n, bad |-> f] /\ f = FALSE /\ pairs = b /\ ~misused BY <1>1 DEF ContInit, Vec
  <2> HIDE DEF b, n, f
  <2> DEFINE v == Vec
  <2>4. v = [buf |-> b, size |-> n, bad |-> f] /\ f \in BOOLEAN BY <2>3
  <2> HIDE DEF v
  <2>5. v \in Vecs /\ v.buf = b /\ v.size = n /\ v.bad = FALSE BY <2>1, <2>3, <2>4 DEF Vecs
  <2>6. Holds(v, b) BY <2>1, <2>2, <2>5, HoldsFrom
  <2> QED BY <2>3, <2>6 DEF VecInv, v
<1>3. PtrInv
  <2>1. \A h \in Handles : held[h] = NoObject BY <1>1 DEF ContInit
  <2>2. ASSUME NEW o \in Objects PROVE Cardinality({h \in Handles : held[h] = o}) = 0
    <3>1. {h \in Handles : held[h] = o} = {} BY <2>1, ObjectFacts
    <3> QED BY <3>1, FS_EmptySet
  <2>3. /\ held \in [Handles -> Objects \cup {NoObject}] /\ count \in [Objects -> Nat] /\ DOMAIN blocks = Objects
        /\ \A o \in Objects : count[o] = 0 /\ blocks[o] = {}
        /\ wild = {}
    BY <1>1 DEF ContInit
  <2> QED BY <2>2, <2>3 DEF PtrInv, SharedLives
<1> QED BY <1>2, <1>3

-----------------------------------------------------------------------------
(***************************************************************************)
(* The theorems about the containers.                                      *)
(***************************************************************************)

\* A vector holds the elements that were put in, in their order, and behind them every
\* place is raw, through every move to a larger buffer; an object under shared_ptr has the
\* handles that hold it for a count (vector:26-100, vectormap:15-25, memory:13-74).
THEOREM ContainersInvariant == Spec => [](VecInv /\ PtrInv)
<1>1. Init => VecInv /\ PtrInv BY ContainersInit
<1>2. VecInv /\ PtrInv /\ [Next]_libraryVars => (VecInv /\ PtrInv)'
  <2> SUFFICES ASSUME VecInv, PtrInv, [Next]_libraryVars PROVE VecInv' /\ PtrInv'
    OBVIOUS
  <2>1. CASE UNCHANGED contVars
    <3>1. UNCHANGED vecVars /\ UNCHANGED ptrVars BY <2>1 DEF contVars
    <3>2. VecInv' BY <3>1 DEF VecInv, vecVars, Vec
    <3>3. PtrInv' BY <3>1 DEF PtrInv, ptrVars, SharedLives
    <3> QED BY <3>2, <3>3
  <2>2. CASE OnVector BY <2>2, VecNextInv DEF OnVector
  <2>3. CASE OnPointers BY <2>3, PtrNextInv DEF OnPointers
  <2>4. CASE OnFont BY <2>1, <2>4 DEF OnFont
  <2>5. CASE OnString BY <2>1, <2>5 DEF OnString
  <2>6. CASE OnShell BY <2>1, <2>6 DEF OnShell
  <2>7. CASE OnPrinting BY <2>1, <2>7 DEF OnPrinting
  <2>8. CASE OnC BY <2>1, <2>8 DEF OnC
  <2>9. CASE OnWindows BY <2>1, <2>9 DEF OnWindows
  <2>10. CASE OnOutput BY <2>1, <2>10 DEF OnOutput
  <2>11. CASE UNCHANGED libraryVars BY <2>1, <2>11 DEF libraryVars
  <2> QED BY <2>2, <2>3, <2>4, <2>5, <2>6, <2>7, <2>8, <2>9, <2>10, <2>11 DEF Next
<1> QED BY <1>1, <1>2, PTL DEF Spec

\* What the Library run checks of the containers, of every set of keys, values, handles
\* and objects, and of calls without end.
THEOREM ContainersKeep == Spec => []ContainersRight
<1>1. VecInv /\ PtrInv => ContainersRight BY VecInvImplies DEF PtrInv, ContainersRight
<1> QED BY <1>1, ContainersInvariant, PTL

-----------------------------------------------------------------------------
(***************************************************************************)
(* Variables of windows.                                                   *)
(***************************************************************************)

VarValue == {s.x : s \in Shapes} \cup Places \cup {0}
VarObj == [value : VarValue, count : 0 .. Counts - 1, began : 0 .. Counts - 1, freed : BOOLEAN]

\* An object with n handles on it.
Right(r, n) ==
  /\ r.began = 0 => (r.freed <=> n = 0)
  /\ r.freed => r.began = 0 \/ r.began + MaxWindows + 1 >= Counts
  /\ r.count = (r.began + n) % Counts
Rights(vs, f) ==
  vs \in Seq(VarObj) /\ f \in [1 .. Len(vs) -> Nat] /\ \A o \in 1 .. Len(vs) : Right(vs[o], f[o])

LEMMA WindowsFacts ==
  /\ Counts \in Nat /\ MaxWindows \in Nat /\ MaxWindows + 1 < Counts /\ Leftovers \subseteq 0 .. Counts - 1
  /\ FrameWidth \in Nat /\ FrameHeight \in Nat /\ FrameWidth > 0 /\ FrameHeight > 0
BY WindowsAssumption

\* Remainders of a count.
LEMMA Remainder ==
  ASSUME NEW c \in Nat, c > 0, NEW x \in -1 .. c + c - 1
  PROVE  x % c = IF x < 0 THEN c - 1 ELSE IF x < c THEN x ELSE x - c
OBVIOUS

LEMMA AddRight ==
  ASSUME NEW r \in VarObj, NEW n \in 1 .. MaxWindows, Right(r, n),
         NEW s, s = [r EXCEPT !.count = (@ + 1) % Counts]
  PROVE  s \in VarObj /\ Right(s, n + 1)
<1>1. Counts \in Nat /\ MaxWindows \in Nat /\ MaxWindows + 1 < Counts /\ Counts > 0 BY WindowsFacts
<1> DEFINE c == r.count
           b == r.began
           m == (c + 1) % Counts
<1>2. c \in 0 .. Counts - 1 /\ b \in 0 .. Counts - 1 /\ c = (b + n) % Counts BY DEF VarObj, Right
<1>3. s = [r EXCEPT !.count = m] OBVIOUS
<1>4. m \in 0 .. Counts - 1 /\ m = (b + (n + 1)) % Counts
  <2> HIDE DEF b, c, m
  <2>1. b + n \in -1 .. Counts + Counts - 1 /\ b + (n + 1) \in -1 .. Counts + Counts - 1
        /\ c + 1 \in -1 .. Counts + Counts - 1
    BY <1>1, <1>2
  <2>2. c = IF b + n < Counts THEN b + n ELSE b + n - Counts BY <1>1, <1>2, <2>1, Remainder
  <2>3. (b + (n + 1)) % Counts = IF b + (n + 1) < Counts THEN b + (n + 1) ELSE b + (n + 1) - Counts
    BY <1>1, <1>2, <2>1, Remainder
  <2>4. m = IF c + 1 < Counts THEN c + 1 ELSE c + 1 - Counts BY <1>1, <1>2, <2>1, Remainder DEF m
  <2> QED BY <1>1, <1>2, <2>2, <2>3, <2>4
<1> HIDE DEF m, b, c
<1>5. s \in VarObj /\ s.count = m /\ s.began = r.began /\ s.freed = r.freed BY <1>3, <1>4 DEF VarObj
<1>6. n + 1 # 0 /\ n # 0 /\ s.count = (s.began + (n + 1)) % Counts BY <1>1, <1>4, <1>5 DEF b
<1> QED BY <1>5, <1>6 DEF Right

LEMMA DecRight ==
  ASSUME NEW r \in VarObj, NEW n \in 1 .. MaxWindows + 1, Right(r, n),
         NEW s, s = [r EXCEPT !.count = (@ - 1) % Counts, !.freed = @ \/ r.count = 1]
  PROVE  s \in VarObj /\ Right(s, n - 1)
<1>1. Counts \in Nat /\ MaxWindows \in Nat /\ MaxWindows + 1 < Counts /\ Counts > 0 BY WindowsFacts
<1> DEFINE c == r.count
           b == r.began
           m == (c - 1) % Counts
           f == r.freed \/ r.count = 1
<1>2. c \in 0 .. Counts - 1 /\ b \in 0 .. Counts - 1 /\ c = (b + n) % Counts BY DEF VarObj, Right
<1>3. s = [r EXCEPT !.count = m, !.freed = f] /\ f \in BOOLEAN OBVIOUS
<1>4. /\ m \in 0 .. Counts - 1 /\ m = (b + (n - 1)) % Counts
      /\ c = IF b + n < Counts THEN b + n ELSE b + n - Counts
  <2> HIDE DEF b, c, m
  <2>1. b + n \in -1 .. Counts + Counts - 1 /\ b + (n - 1) \in -1 .. Counts + Counts - 1
        /\ c - 1 \in -1 .. Counts + Counts - 1
    BY <1>1, <1>2
  <2>2. c = IF b + n < Counts THEN b + n ELSE b + n - Counts BY <1>1, <1>2, <2>1, Remainder
  <2>3. (b + (n - 1)) % Counts = IF b + (n - 1) < Counts THEN b + (n - 1) ELSE b + (n - 1) - Counts
    BY <1>1, <1>2, <2>1, Remainder
  <2>4. m = IF c - 1 < 0 THEN Counts - 1 ELSE IF c - 1 < Counts THEN c - 1 ELSE c - 1 - Counts
    BY <1>1, <1>2, <2>1, Remainder DEF m
  <2> QED BY <1>1, <1>2, <2>2, <2>3, <2>4
<1>5. f <=> r.freed \/ c = 1 OBVIOUS
<1> HIDE DEF m, f
<1>6. s \in VarObj /\ s.count = m /\ s.began = b /\ s.freed = f BY <1>3, <1>4 DEF VarObj
<1>7. (b = 0 => (r.freed <=> n = 0)) /\ (r.freed => b = 0 \/ b + MaxWindows + 1 >= Counts) BY DEF Right
<1> HIDE DEF b, c
<1>8. b = 0 => (f <=> n - 1 = 0)
  <2>1. ASSUME b = 0 PROVE c = n /\ ~r.freed BY <1>1, <1>4, <1>7, <2>1
  <2>2. ASSUME b = 0 PROVE c = 1 <=> n - 1 = 0 BY <2>1, <2>2
  <2> QED BY <1>5, <2>1, <2>2
<1>9. c = 1 /\ b # 0 => b + MaxWindows + 1 >= Counts BY <1>1, <1>2, <1>4
<1>10. f => b = 0 \/ b + MaxWindows + 1 >= Counts BY <1>5, <1>7, <1>9
<1> QED BY <1>4, <1>6, <1>8, <1>10 DEF Right

\* One object of many is counted up, or down.
LEMMA AddRefRights ==
  ASSUME NEW vs, NEW f, Rights(vs, f), NEW o \in 1 .. Len(vs), f[o] \in 1 .. MaxWindows
  PROVE  /\ Rights(AddRef(vs, o), [f EXCEPT ![o] = f[o] + 1])
         /\ Len(AddRef(vs, o)) = Len(vs)
<1> DEFINE r == [vs[o] EXCEPT !.count = (@ + 1) % Counts]
           ws == AddRef(vs, o)
           g == [f EXCEPT ![o] = f[o] + 1]
<1>1. vs \in Seq(VarObj) /\ f \in [1 .. Len(vs) -> Nat] /\ \A p \in 1 .. Len(vs) : Right(vs[p], f[p]) BY DEF Rights
<1>2. vs[o] \in VarObj /\ Right(vs[o], f[o]) BY <1>1
<1>3. r \in VarObj /\ Right(r, f[o] + 1) BY <1>2, AddRight
<1>4. ws = [vs EXCEPT ![o] = r] BY DEF AddRef
<1> HIDE DEF r, ws
<1>5. ws \in Seq(VarObj) /\ Len(ws) = Len(vs) /\ \A p \in 1 .. Len(vs) : ws[p] = IF p = o THEN r ELSE vs[p]
  BY <1>1, <1>3, <1>4, ExceptSeq
<1>6. g \in [1 .. Len(vs) -> Nat] /\ \A p \in 1 .. Len(vs) : g[p] = IF p = o THEN f[o] + 1 ELSE f[p] BY <1>1
<1> HIDE DEF g
<1>7. \A p \in 1 .. Len(ws) : Right(ws[p], g[p]) BY <1>1, <1>3, <1>5, <1>6
<1> QED BY <1>5, <1>6, <1>7 DEF Rights, ws, g

LEMMA DecRefRights ==
  ASSUME NEW vs, NEW f, Rights(vs, f), NEW o \in 1 .. Len(vs), f[o] \in 1 .. MaxWindows + 1
  PROVE  /\ Rights(DecRef(vs, o), [f EXCEPT ![o] = f[o] - 1])
         /\ Len(DecRef(vs, o)) = Len(vs)
<1> DEFINE r == [vs[o] EXCEPT !.count = (@ - 1) % Counts, !.freed = @ \/ vs[o].count = 1]
           ws == DecRef(vs, o)
           g == [f EXCEPT ![o] = f[o] - 1]
<1>1. vs \in Seq(VarObj) /\ f \in [1 .. Len(vs) -> Nat] /\ \A p \in 1 .. Len(vs) : Right(vs[p], f[p]) BY DEF Rights
<1>2. vs[o] \in VarObj /\ Right(vs[o], f[o]) BY <1>1
<1>3. r \in VarObj /\ Right(r, f[o] - 1) BY <1>2, DecRight
<1>4. ws = [vs EXCEPT ![o] = r] BY <1>1 DEF DecRef
<1> HIDE DEF r, ws
<1>5. ws \in Seq(VarObj) /\ Len(ws) = Len(vs) /\ \A p \in 1 .. Len(vs) : ws[p] = IF p = o THEN r ELSE vs[p]
  BY <1>1, <1>3, <1>4, ExceptSeq
<1>6. g \in [1 .. Len(vs) -> Nat] /\ \A p \in 1 .. Len(vs) : g[p] = IF p = o THEN f[o] - 1 ELSE f[p] BY <1>1
<1> HIDE DEF g
<1>7. \A p \in 1 .. Len(ws) : Right(ws[p], g[p]) BY <1>1, <1>3, <1>5, <1>6
<1> QED BY <1>5, <1>6, <1>7 DEF Rights, ws, g

\* A new variable.
LEMMA NewVarRights ==
  ASSUME NEW vs, NEW f, Rights(vs, f), NEW value \in VarValue, NEW left \in Leftovers
  PROVE  /\ Rights(NewVar(vs, value, left), [p \in 1 .. Len(vs) + 1 |-> IF p <= Len(vs) THEN f[p] ELSE 1])
         /\ Len(NewVar(vs, value, left)) = Len(vs) + 1
<1> DEFINE n == Len(vs) + 1
           old == [value |-> value, count |-> left, began |-> left, freed |-> FALSE]
           m == (left + 1) % Counts
           r == [value |-> value, count |-> m, began |-> left, freed |-> FALSE]
           us == Append(vs, old)
           ws == NewVar(vs, value, left)
           g == [p \in 1 .. n |-> IF p <= Len(vs) THEN f[p] ELSE 1]
<1>1. vs \in Seq(VarObj) /\ f \in [1 .. Len(vs) -> Nat] /\ \A p \in 1 .. Len(vs) : Right(vs[p], f[p]) BY DEF Rights
<1>2. Len(vs) \in Nat BY <1>1
<1>3. left \in 0 .. Counts - 1 /\ m \in 0 .. Counts - 1 BY WindowsFacts
<1>4. old \in VarObj /\ r \in VarObj
  <2> HIDE DEF m
  <2> QED BY <1>3 DEF VarObj
<1>5. Right(r, 1) BY DEF Right
<1>6. r = [old EXCEPT !.count = (@ + 1) % Counts]
  <2> DEFINE q == [old EXCEPT !.count = m]
  <2>1. /\ old.value = value /\ old.count = left /\ old.began = left /\ old.freed = FALSE
        /\ r.value = value /\ r.count = m /\ r.began = left /\ r.freed = FALSE
    OBVIOUS
  <2>2. (old.count + 1) % Counts = m BY <2>1
  <2> HIDE DEF old, r, m
  <2>3. q \in VarObj /\ q.value = old.value /\ q.count = m /\ q.began = old.began /\ q.freed = old.freed
    BY <1>3, <1>4 DEF VarObj
  <2> HIDE DEF q
  <2>4. q = r BY <1>4, <2>1, <2>3 DEF VarObj
  <2> QED BY <2>2, <2>4 DEF q
<1> HIDE DEF old, r, m
<1>7. us \in Seq(VarObj) /\ Len(us) = n /\ us[n] = old /\ \A p \in 1 .. Len(vs) : us[p] = vs[p]
  BY <1>1, <1>4, AppendProperties
<1>8. ws = [us EXCEPT ![n] = r] BY <1>6, <1>7 DEF NewVar, AddRef, old
<1> HIDE DEF us, ws
<1>9. ws \in Seq(VarObj) /\ Len(ws) = n /\ \A p \in 1 .. n : ws[p] = IF p = n THEN r ELSE us[p]
  <2>1. n \in 1 .. Len(us) BY <1>2, <1>7
  <2> QED BY <1>4, <1>7, <1>8, <2>1, ExceptSeq
<1>10. g \in [1 .. n -> Nat] BY <1>1, <1>2
<1>11. \A p \in 1 .. n : Right(ws[p], g[p])
  <2>1. TAKE p \in 1 .. n
  <2>2. CASE p = n
    <3>1. g[p] = 1 BY <1>2, <2>2
    <3> QED BY <1>5, <1>9, <2>2, <3>1
  <2>3. CASE p # n
    <3>1. p \in 1 .. Len(vs) /\ g[p] = f[p] BY <1>2, <2>3
    <3> QED BY <1>1, <1>7, <1>9, <2>3, <3>1
  <2> QED BY <2>2, <2>3
<1> HIDE DEF g
<1> QED BY <1>9, <1>10, <1>11 DEF Rights, ws, g

\* A handle goes from one object to another.
LEMMA AssignRights ==
  ASSUME NEW vs, NEW f, Rights(vs, f), NEW old \in 1 .. Len(vs), NEW new \in 1 .. Len(vs),
         f[old] \in 1 .. MaxWindows, f[new] \in 1 .. MaxWindows
  PROVE  /\ Rights(Assign(vs, old, new), IF old = new THEN f ELSE [f EXCEPT ![old] = f[old] - 1, ![new] = f[new] + 1])
         /\ Len(Assign(vs, old, new)) = Len(vs)
<1> DEFINE us == AddRef(vs, new)
           g == [f EXCEPT ![new] = f[new] + 1]
           ws == DecRef(us, old)
           h == [g EXCEPT ![old] = g[old] - 1]
           k == IF old = new THEN f ELSE [f EXCEPT ![old] = f[old] - 1, ![new] = f[new] + 1]
<1>1. MaxWindows \in Nat /\ f \in [1 .. Len(vs) -> Nat] BY WindowsFacts DEF Rights
<1>2. Rights(us, g) /\ Len(us) = Len(vs) BY AddRefRights
<1>3. g[old] \in 1 .. MaxWindows + 1 BY <1>1
<1>4. h = k
  <2>1. CASE old = new
    <3>1. \A p \in 1 .. Len(vs) : h[p] = f[p] BY <1>1, <2>1
    <3>2. h \in [1 .. Len(vs) -> Int] /\ f \in [1 .. Len(vs) -> Int] BY <1>1
    <3> HIDE DEF h
    <3>3. h = f BY <3>1, <3>2
    <3> QED BY <2>1, <3>3
  <2>2. CASE old # new
    <3>1. g[old] = f[old] BY <1>1, <2>2
    <3>2. \A p \in 1 .. Len(vs) : h[p] = k[p] BY <1>1, <2>2
    <3>3. h \in [1 .. Len(vs) -> Int] /\ k \in [1 .. Len(vs) -> Int] BY <1>1, <2>2
    <3> HIDE DEF h, k
    <3> QED BY <3>2, <3>3
  <2> QED BY <2>1, <2>2
<1> HIDE DEF us, g
<1>5. Rights(ws, h) /\ Len(ws) = Len(us) BY <1>2, <1>3, DecRefRights
<1>6. Assign(vs, old, new) = ws BY DEF Assign, us
<1> HIDE DEF ws, h, k
<1> QED BY <1>2, <1>4, <1>5, <1>6 DEF k

-----------------------------------------------------------------------------
(***************************************************************************)
(* The handles of the windows.                                             *)
(***************************************************************************)

Win == [x : Nat, y : Int, w : Nat, h : Nat, color : [1 .. 3 -> 0 .. 4], live : BOOLEAN]

Held(ws, o) == {i \in 1 .. Len(ws) : ws[i].live /\ ws[i].x = o}
Num(ws, o) == Cardinality(Held(ws, o))

Moved(us, ws, i, new) == us = [ws EXCEPT ![i].x = new]
Added(us, ws, r) == us = Append(ws, r)
Dropped(us, ws, i) == us = [ws EXCEPT ![i].live = FALSE]

LEMMA HeldFacts ==
  ASSUME NEW ws \in Seq(Win), NEW o
  PROVE  /\ IsFiniteSet(Held(ws, o)) /\ Num(ws, o) \in 0 .. Len(ws)
         /\ Num(ws, o) = 0 <=> Held(ws, o) = {}
<1>1. Len(ws) \in Nat OBVIOUS
<1>2. IsFiniteSet(1 .. Len(ws)) /\ Cardinality(1 .. Len(ws)) = Len(ws)
  BY <1>1, FS_Interval, SMTT(30)
<1>3. Held(ws, o) \subseteq 1 .. Len(ws) BY DEF Held
<1>4. IsFiniteSet(Held(ws, o)) /\ Cardinality(Held(ws, o)) <= Len(ws) BY <1>2, <1>3, FS_Subset
<1>5. Cardinality(Held(ws, o)) \in Nat BY <1>4, FS_CardinalityType
<1>6. Cardinality(Held(ws, o)) = 0 <=> Held(ws, o) = {} BY <1>4, FS_EmptySet
<1> QED BY <1>1, <1>4, <1>5, <1>6 DEF Num

\* The handle of a window is put on another object.
LEMMA HeldMoved ==
  ASSUME NEW ws \in Seq(Win), NEW i \in 1 .. Len(ws), ws[i].live, NEW new \in Nat,
         NEW us, Moved(us, ws, i, new)
  PROVE  /\ us \in Seq(Win) /\ Len(us) = Len(ws)
         /\ \A p \in 1 .. Len(ws) : us[p].x = IF p = i THEN new ELSE ws[p].x
         /\ \A p \in 1 .. Len(ws) : us[p].live = ws[p].live /\ us[p].color = ws[p].color
         /\ \A o : Num(us, o) = IF o = new /\ ws[i].x # new THEN Num(ws, o) + 1
                                ELSE IF o = ws[i].x /\ o # new THEN Num(ws, o) - 1 ELSE Num(ws, o)
<1> DEFINE r == [ws[i] EXCEPT !.x = new]
<1>1. ws[i] \in Win /\ us = [ws EXCEPT ![i] = r] BY DEF Moved
<1>2. r \in Win /\ r.x = new /\ r.live = ws[i].live /\ r.color = ws[i].color BY <1>1 DEF Win
<1> HIDE DEF r
<1>3. us \in Seq(Win) /\ Len(us) = Len(ws) /\ \A p \in 1 .. Len(ws) : us[p] = IF p = i THEN r ELSE ws[p]
  <2> DEFINE vs == [ws EXCEPT ![i] = r]
  <2>1. /\ vs \in Seq(Win) /\ Len(vs) = Len(ws)
        /\ \A p \in 1 .. Len(ws) : vs[p] = IF p = i THEN r ELSE ws[p]
    BY <1>2, ExceptSeq
  <2>2. us = vs BY <1>1
  <2> HIDE DEF vs
  <2> QED BY <2>1, <2>2
<1>4. /\ \A p \in 1 .. Len(ws) : us[p].x = IF p = i THEN new ELSE ws[p].x
      /\ \A p \in 1 .. Len(ws) : us[p].live = ws[p].live /\ us[p].color = ws[p].color
  BY <1>2, <1>3
<1>5. ASSUME NEW o
      PROVE  Num(us, o) = IF o = new /\ ws[i].x # new THEN Num(ws, o) + 1
                          ELSE IF o = ws[i].x /\ o # new THEN Num(ws, o) - 1 ELSE Num(ws, o)
  <2>1. IsFiniteSet(Held(ws, o)) BY HeldFacts
  <2>2. CASE o = new /\ ws[i].x # new
    <3>1. Held(us, o) = Held(ws, o) \cup {i} /\ i \notin Held(ws, o) BY <1>3, <1>4, <2>2 DEF Held
    <3>2. Cardinality(Held(ws, o) \cup {i}) = Cardinality(Held(ws, o)) + 1 BY <2>1, <3>1, FS_AddElement
    <3> QED BY <2>2, <3>1, <3>2 DEF Num
  <2>3. CASE o = ws[i].x /\ o # new
    <3>1. Held(us, o) = Held(ws, o) \ {i} /\ i \in Held(ws, o) BY <1>3, <1>4, <2>3 DEF Held
    <3>2. Cardinality(Held(ws, o) \ {i}) = Cardinality(Held(ws, o)) - 1 BY <2>1, <3>1, FS_RemoveElement
    <3> QED BY <2>3, <3>1, <3>2 DEF Num
  <2>4. CASE ~(o = new /\ ws[i].x # new) /\ ~(o = ws[i].x /\ o # new)
    <3>1. Held(us, o) = Held(ws, o) BY <1>3, <1>4, <2>4 DEF Held
    <3> QED BY <2>4, <3>1 DEF Num
  <2> QED BY <2>2, <2>3, <2>4
<1> QED BY <1>3, <1>4, <1>5

\* A window goes with its handle.
LEMMA HeldDropped ==
  ASSUME NEW ws \in Seq(Win), NEW i \in 1 .. Len(ws), ws[i].live,
         NEW us, Dropped(us, ws, i)
  PROVE  /\ us \in Seq(Win) /\ Len(us) = Len(ws) /\ ~us[i].live
         /\ \A p \in 1 .. Len(ws) : us[p].x = ws[p].x /\ us[p].color = ws[p].color
         /\ \A o : Num(us, o) = IF o = ws[i].x THEN Num(ws, o) - 1 ELSE Num(ws, o)
<1> DEFINE r == [ws[i] EXCEPT !.live = FALSE]
<1>1. ws[i] \in Win /\ us = [ws EXCEPT ![i] = r] BY DEF Dropped
<1>2. r \in Win /\ r.x = ws[i].x /\ r.live = FALSE /\ r.color = ws[i].color BY <1>1 DEF Win
<1> HIDE DEF r
<1>3. us \in Seq(Win) /\ Len(us) = Len(ws) /\ \A p \in 1 .. Len(ws) : us[p] = IF p = i THEN r ELSE ws[p]
  <2> DEFINE vs == [ws EXCEPT ![i] = r]
  <2>1. /\ vs \in Seq(Win) /\ Len(vs) = Len(ws)
        /\ \A p \in 1 .. Len(ws) : vs[p] = IF p = i THEN r ELSE ws[p]
    BY <1>2, ExceptSeq
  <2>2. us = vs BY <1>1
  <2> HIDE DEF vs
  <2> QED BY <2>1, <2>2
<1>4. /\ \A p \in 1 .. Len(ws) : us[p].x = ws[p].x /\ us[p].color = ws[p].color
      /\ \A p \in 1 .. Len(ws) : p # i => us[p].live = ws[p].live
      /\ ~us[i].live
  BY <1>2, <1>3
<1>5. ASSUME NEW o
      PROVE  Num(us, o) = IF o = ws[i].x THEN Num(ws, o) - 1 ELSE Num(ws, o)
  <2>1. IsFiniteSet(Held(ws, o)) BY HeldFacts
  <2>2. CASE o = ws[i].x
    <3>1. Held(us, o) = Held(ws, o) \ {i} /\ i \in Held(ws, o) BY <1>3, <1>4, <2>2 DEF Held
    <3>2. Cardinality(Held(ws, o) \ {i}) = Cardinality(Held(ws, o)) - 1 BY <2>1, <3>1, FS_RemoveElement
    <3> QED BY <2>2, <3>1, <3>2 DEF Num
  <2>3. CASE o # ws[i].x
    <3>1. Held(us, o) = Held(ws, o) BY <1>3, <1>4, <2>3 DEF Held
    <3> QED BY <2>3, <3>1 DEF Num
  <2> QED BY <2>2, <2>3
<1> QED BY <1>3, <1>4, <1>5

\* A window comes with its handle.
LEMMA HeldAdded ==
  ASSUME NEW ws \in Seq(Win), NEW r \in Win, r.live, NEW us, Added(us, ws, r)
  PROVE  /\ us \in Seq(Win) /\ Len(us) = Len(ws) + 1 /\ us[Len(ws) + 1] = r
         /\ \A p \in 1 .. Len(ws) : us[p] = ws[p]
         /\ \A o : Num(us, o) = IF o = r.x THEN Num(ws, o) + 1 ELSE Num(ws, o)
<1> DEFINE n == Len(ws) + 1
<1>1. us \in Seq(Win) /\ Len(us) = n /\ us[n] = r /\ \A p \in 1 .. Len(ws) : us[p] = ws[p]
  BY AppendProperties DEF Added
<1>2. Len(ws) \in Nat /\ n \notin 1 .. Len(ws) /\ 1 .. n = 1 .. Len(ws) \cup {n} OBVIOUS
<1> HIDE DEF n
<1>3. ASSUME NEW o PROVE Num(us, o) = IF o = r.x THEN Num(ws, o) + 1 ELSE Num(ws, o)
  <2>1. IsFiniteSet(Held(ws, o)) BY HeldFacts
  <2>2. CASE o = r.x
    <3>1. Held(us, o) = Held(ws, o) \cup {n} /\ n \notin Held(ws, o) BY <1>1, <1>2, <2>2 DEF Held
    <3>2. Cardinality(Held(ws, o) \cup {n}) = Cardinality(Held(ws, o)) + 1 BY <2>1, <3>1, FS_AddElement
    <3> QED BY <2>2, <3>1, <3>2 DEF Num
  <2>3. CASE o # r.x
    <3>1. Held(us, o) = Held(ws, o) BY <1>1, <1>2, <2>3 DEF Held
    <3> QED BY <2>3, <3>1 DEF Num
  <2> QED BY <2>2, <2>3
<1> QED BY <1>1, <1>3 DEF n

\* A value is assigned to a variable: its handle is on a new object.
LEMMA AssignValueRights ==
  ASSUME NEW vs, NEW f, Rights(vs, f), NEW old \in 1 .. Len(vs), f[old] \in 1 .. MaxWindows,
         NEW value \in VarValue, NEW left \in Leftovers
  PROVE  /\ Rights(AssignValue(vs, old, value, left),
                   [p \in 1 .. Len(vs) + 1 |-> IF p = Len(vs) + 1 THEN 1 ELSE IF p = old THEN f[p] - 1 ELSE f[p]])
         /\ Len(AssignValue(vs, old, value, left)) = Len(vs) + 1
<1> DEFINE n == Len(vs)
           new == n + 1
           us == NewVar(vs, value, left)
           g == [p \in 1 .. n + 1 |-> IF p <= n THEN f[p] ELSE 1]
           ws == Assign(us, old, new)
           h == [g EXCEPT ![old] = g[old] - 1, ![new] = g[new] + 1]
           xs == DecRef(ws, new)
           k == [h EXCEPT ![new] = h[new] - 1]
           m == [p \in 1 .. n + 1 |-> IF p = n + 1 THEN 1 ELSE IF p = old THEN f[p] - 1 ELSE f[p]]
<1>1. n \in Nat /\ f \in [1 .. n -> Nat] /\ MaxWindows \in Nat BY WindowsFacts DEF Rights
<1>2. Rights(us, g) /\ Len(us) = n + 1 BY NewVarRights
<1> HIDE DEF us, n
<1>3. old \in 1 .. n /\ old \in 1 .. n + 1 /\ new \in 1 .. n + 1 /\ old # new BY <1>1 DEF n
<1>4. g[old] = f[old] /\ g[new] = 1 /\ g \in [1 .. n + 1 -> Nat] BY <1>1, <1>3
<1> HIDE DEF g
<1>5. Rights(ws, h) /\ Len(ws) = Len(us)
  <2>1. /\ Rights(us, g) /\ old \in 1 .. Len(us) /\ new \in 1 .. Len(us) /\ ~(old = new)
        /\ g[old] \in 1 .. MaxWindows /\ g[new] \in 1 .. MaxWindows
    BY <1>1, <1>2, <1>3, <1>4
  <2> HIDE DEF new
  <2> QED BY <2>1, AssignRights
<1>6. h[new] = 2 /\ MaxWindows >= 1 BY <1>1, <1>3, <1>4
<1> HIDE DEF ws, h
<1>7. Rights(xs, k) /\ Len(xs) = Len(ws)
  <2>1. new \in 1 .. Len(ws) /\ h[new] \in 1 .. MaxWindows + 1 BY <1>1, <1>2, <1>3, <1>5, <1>6
  <2> QED BY <1>5, <2>1, DecRefRights
<1>8. AssignValue(vs, old, value, left) = xs BY DEF AssignValue, xs, ws, us, n
<1>9. k = m
  <2>1. \A p \in 1 .. n + 1 : k[p] = m[p]
    <3>1. TAKE p \in 1 .. n + 1
    <3>2. CASE p = new BY <1>1, <1>3, <1>4, <3>2 DEF h
    <3>3. CASE p = old BY <1>1, <1>3, <1>4, <3>3 DEF h, g
    <3>4. CASE p # new /\ p # old
      <4>1. p <= n /\ g[p] = f[p] BY <1>1, <1>3, <3>4 DEF g
      <4>2. h[p] = g[p] BY <1>4, <3>4 DEF h
      <4>3. k[p] = h[p] BY <1>4, <3>4 DEF h
      <4> QED BY <1>1, <3>4, <4>1, <4>2, <4>3
    <3> QED BY <3>2, <3>3, <3>4
  <2>2. DOMAIN k = 1 .. n + 1 /\ DOMAIN m = 1 .. n + 1 BY <1>4 DEF h
  <2>3. k = [p \in 1 .. n + 1 |-> k[p]] BY <1>4, <2>2 DEF h
  <2> HIDE DEF k
  <2> QED BY <2>1, <2>3
<1> HIDE DEF xs, k, m
<1> QED BY <1>2, <1>5, <1>7, <1>8, <1>9 DEF m, n

-----------------------------------------------------------------------------
(***************************************************************************)
(* The calls of a client of windows.                                       *)
(***************************************************************************)

NumsOf(ws, n) == [o \in 1 .. n |-> Num(ws, o)]

VarsInv ==
  /\ windows \in Seq(Win) /\ Len(windows) <= MaxWindows
  /\ \A i \in 1 .. Len(windows) : windows[i].x \in 1 .. Len(varObj)
  /\ Rights(varObj, NumsOf(windows, Len(varObj)))

LEMMA VarsFacts ==
  ASSUME VarsInv
  PROVE  /\ windows \in Seq(Win) /\ Len(windows) \in Nat /\ Len(windows) <= MaxWindows /\ MaxWindows \in Nat
         /\ varObj \in Seq(VarObj) /\ Len(varObj) \in Nat /\ DOMAIN windows = 1 .. Len(windows)
         /\ \A i \in 1 .. Len(windows) :
              /\ windows[i].x \in 1 .. Len(varObj) /\ windows[i] \in Win
              /\ windows[i].live => Num(windows, windows[i].x) \in 1 .. MaxWindows
<1>1. /\ windows \in Seq(Win) /\ Len(windows) \in Nat /\ Len(windows) <= MaxWindows /\ MaxWindows \in Nat
      /\ varObj \in Seq(VarObj) /\ Len(varObj) \in Nat /\ DOMAIN windows = 1 .. Len(windows)
      /\ \A i \in 1 .. Len(windows) : windows[i].x \in 1 .. Len(varObj) /\ windows[i] \in Win
  BY WindowsFacts DEF VarsInv, Rights
<1>2. ASSUME NEW i \in 1 .. Len(windows), windows[i].live PROVE Num(windows, windows[i].x) \in 1 .. MaxWindows
  <2>1. i \in Held(windows, windows[i].x) BY <1>2 DEF Held
  <2>2. Num(windows, windows[i].x) \in 0 .. Len(windows) /\ Num(windows, windows[i].x) # 0 BY <1>1, <2>1, HeldFacts
  <2> QED BY <1>1, <2>2
<1> QED BY <1>1, <1>2

\* What the steps leave, from the objects and the handles on them.
LEMMA VarsFrom ==
  ASSUME NEW f, Rights(varObj', f), NEW n, n = Len(varObj'), windows' \in Seq(Win), Len(windows') <= MaxWindows,
         \A i \in 1 .. Len(windows') : windows'[i].x \in 1 .. n,
         \A o \in 1 .. n : f[o] = Num(windows', o)
  PROVE  VarsInv'
<1>1. f = NumsOf(windows', n)
  <2>1. f \in [1 .. n -> Nat] BY DEF Rights
  <2> QED BY <2>1 DEF NumsOf
<1> QED BY <1>1 DEF VarsInv, NumsOf, Num, Held

LEMMA ShareXVars ==
  ASSUME VarsInv, NEW i \in DOMAIN windows, NEW j \in DOMAIN windows, ShareX(i, j)
  PROVE  VarsInv'
<1> DEFINE n == Len(varObj)
           old == windows[i].x
           new == windows[j].x
           f == NumsOf(windows, n)
           g == IF old = new THEN f ELSE [f EXCEPT ![old] = f[old] - 1, ![new] = f[new] + 1]
<1>1. /\ windows \in Seq(Win) /\ i \in 1 .. Len(windows) /\ j \in 1 .. Len(windows) /\ n \in Nat
      /\ windows[i].live /\ windows[j].live
      /\ Num(windows, old) \in 1 .. MaxWindows /\ Num(windows, new) \in 1 .. MaxWindows
      /\ old \in 1 .. n /\ new \in 1 .. n /\ Len(windows) <= MaxWindows
  BY VarsFacts DEF ShareX, Live
<1>2. varObj' = Assign(varObj, old, new) /\ windows' = [windows EXCEPT ![i].x = new]
  BY DEF ShareX
<1>3. Rights(varObj, f) BY DEF VarsInv
<1>4. f[old] = Num(windows, old) /\ f[new] = Num(windows, new) /\ f \in [1 .. n -> Nat] BY <1>1, <1>3 DEF NumsOf, Rights
<1> HIDE DEF f, old, new, g
<1>5. Rights(varObj', g) /\ Len(varObj') = n
  <2>1. f[old] \in 1 .. MaxWindows /\ f[new] \in 1 .. MaxWindows BY <1>1, <1>4
  <2>2. old \in 1 .. Len(varObj) /\ new \in 1 .. Len(varObj) BY <1>1
  <2>3. Rights(Assign(varObj, old, new), g) /\ Len(Assign(varObj, old, new)) = Len(varObj)
    BY <1>3, <2>1, <2>2, AssignRights DEF g
  <2> QED BY <1>2, <2>3
<1>6. new \in Nat BY <1>1
<1>7. /\ windows' \in Seq(Win) /\ Len(windows') = Len(windows)
      /\ \A p \in 1 .. Len(windows) : windows'[p].x = IF p = i THEN new ELSE windows[p].x
      /\ \A o : Num(windows', o) = IF o = new /\ old # new THEN Num(windows, o) + 1
                                   ELSE IF o = old /\ o # new THEN Num(windows, o) - 1 ELSE Num(windows, o)
  <2>1. Moved(windows', windows, i, new) BY <1>2 DEF Moved
  <2> QED BY <1>1, <1>6, <2>1, HeldMoved DEF old
<1>8. \A o \in 1 .. n : g[o] = Num(windows', o)
  <2>1. TAKE o \in 1 .. n
  <2>2. f[o] = Num(windows, o) BY DEF f, NumsOf
  <2>3. CASE old = new BY <1>7, <2>2, <2>3 DEF g
  <2>4. CASE old # new BY <1>1, <1>4, <1>7, <2>2, <2>4 DEF g
  <2> QED BY <2>3, <2>4
<1>9. \A p \in 1 .. Len(windows') : windows'[p].x \in 1 .. n
  <2>1. \A p \in 1 .. Len(windows) : windows[p].x \in 1 .. n BY VarsFacts
  <2> QED BY <1>1, <1>7, <2>1
<1>10. Len(windows') <= MaxWindows BY <1>1, <1>7
<1> HIDE DEF n
<1> QED BY <1>5, <1>7, <1>8, <1>9, <1>10, VarsFrom

LEMMA DeleteWindowVars ==
  ASSUME VarsInv, NEW i \in DOMAIN windows, DeleteWindow(i)
  PROVE  VarsInv'
<1> DEFINE n == Len(varObj)
           old == windows[i].x
           f == NumsOf(windows, n)
           g == [f EXCEPT ![old] = f[old] - 1]
<1>1. /\ windows \in Seq(Win) /\ i \in 1 .. Len(windows) /\ n \in Nat /\ windows[i].live /\ MaxWindows \in Nat
      /\ Num(windows, old) \in 1 .. MaxWindows /\ old \in 1 .. n /\ Len(windows) <= MaxWindows
  BY VarsFacts DEF DeleteWindow, Live
<1>2. varObj' = DecRef(varObj, old) /\ windows' = [windows EXCEPT ![i].live = FALSE]
  BY DEF DeleteWindow
<1>3. Rights(varObj, f) BY DEF VarsInv
<1>4. f[old] = Num(windows, old) /\ f \in [1 .. n -> Nat] BY <1>1, <1>3 DEF NumsOf, Rights
<1> HIDE DEF f, old, g
<1>5. Rights(varObj', g) /\ Len(varObj') = n
  <2>1. f[old] \in 1 .. MaxWindows + 1 BY <1>1, <1>4
  <2>2. old \in 1 .. Len(varObj) BY <1>1
  <2>3. Rights(DecRef(varObj, old), g) /\ Len(DecRef(varObj, old)) = Len(varObj)
    BY <1>3, <2>1, <2>2, DecRefRights DEF g
  <2> QED BY <1>2, <2>3
<1>6. /\ windows' \in Seq(Win) /\ Len(windows') = Len(windows)
      /\ \A p \in 1 .. Len(windows) : windows'[p].x = windows[p].x
      /\ \A o : Num(windows', o) = IF o = old THEN Num(windows, o) - 1 ELSE Num(windows, o)
  <2>1. Dropped(windows', windows, i) BY <1>2 DEF Dropped
  <2> QED BY <1>1, <2>1, HeldDropped DEF old
<1>7. \A o \in 1 .. n : g[o] = Num(windows', o)
  <2>1. TAKE o \in 1 .. n
  <2>2. f[o] = Num(windows, o) BY DEF f, NumsOf
  <2> QED BY <1>1, <1>4, <1>6, <2>2 DEF g
<1>8. \A p \in 1 .. Len(windows') : windows'[p].x \in 1 .. n
  <2>1. \A p \in 1 .. Len(windows) : windows[p].x \in 1 .. n BY VarsFacts
  <2> QED BY <1>1, <1>6, <2>1
<1>9. Len(windows') <= MaxWindows BY <1>1, <1>6
<1> HIDE DEF n
<1> QED BY <1>5, <1>6, <1>7, <1>8, <1>9, VarsFrom

\* No window has a handle on an object to come.
LEMMA NoneYet ==
  ASSUME VarsInv, NEW o \in Nat, o > Len(varObj)
  PROVE  Num(windows, o) = 0
<1>1. windows \in Seq(Win) /\ Len(varObj) \in Nat /\ \A i \in 1 .. Len(windows) : windows[i].x \in 1 .. Len(varObj)
  BY VarsFacts
<1>2. Held(windows, o) = {} BY <1>1 DEF Held
<1> QED BY <1>1, <1>2, HeldFacts

LEMMA MoveToVars ==
  ASSUME VarsInv, NEW i \in DOMAIN windows, NEW x \in Places, NEW left \in Leftovers, MoveTo(i, x, left)
  PROVE  VarsInv'
<1> DEFINE n == Len(varObj)
           old == windows[i].x
           new == n + 1
           f == NumsOf(windows, n)
           g == [p \in 1 .. n + 1 |-> IF p = n + 1 THEN 1 ELSE IF p = old THEN f[p] - 1 ELSE f[p]]
<1>1. /\ windows \in Seq(Win) /\ i \in 1 .. Len(windows) /\ n \in Nat /\ windows[i].live
      /\ Num(windows, old) \in 1 .. MaxWindows /\ old \in 1 .. n /\ Len(windows) <= MaxWindows
  BY VarsFacts DEF MoveTo, Live
<1>2. varObj' = AssignValue(varObj, old, x, left) /\ windows' = [windows EXCEPT ![i].x = Len(varObj')]
  BY DEF MoveTo
<1>3. Rights(varObj, f) BY DEF VarsInv
<1>4. f[old] = Num(windows, old) /\ f \in [1 .. n -> Nat] BY <1>1, <1>3 DEF NumsOf, Rights
<1> HIDE DEF f, old
<1>5. Rights(varObj', g) /\ Len(varObj') = n + 1
  <2>1. f[old] \in 1 .. MaxWindows /\ x \in VarValue BY <1>1, <1>4 DEF VarValue
  <2>2. old \in 1 .. Len(varObj) BY <1>1
  <2>3. Rights(AssignValue(varObj, old, x, left), g) /\ Len(AssignValue(varObj, old, x, left)) = n + 1
    BY <1>3, <2>1, <2>2, AssignValueRights
  <2> QED BY <1>2, <2>3
<1>6. Moved(windows', windows, i, new) /\ new \in Nat /\ old # new BY <1>1, <1>2, <1>5 DEF Moved
<1> HIDE DEF new
<1>7. /\ windows' \in Seq(Win) /\ Len(windows') = Len(windows)
      /\ \A p \in 1 .. Len(windows) : windows'[p].x = IF p = i THEN new ELSE windows[p].x
      /\ \A o : Num(windows', o) = IF o = new /\ old # new THEN Num(windows, o) + 1
                                   ELSE IF o = old /\ o # new THEN Num(windows, o) - 1 ELSE Num(windows, o)
  BY <1>1, <1>6, HeldMoved DEF old
<1>8. \A o \in 1 .. n + 1 : g[o] = Num(windows', o)
  <2>1. TAKE o \in 1 .. n + 1
  <2>2. CASE o = new
    <3>1. Num(windows, o) = 0 BY <1>1, <2>2, NoneYet DEF new
    <3> QED BY <1>1, <1>6, <1>7, <2>2, <3>1 DEF new
  <2>3. CASE o # new
    <3>1. o \in 1 .. n BY <1>1, <2>3 DEF new
    <3>2. f[o] = Num(windows, o) BY <3>1 DEF f, NumsOf
    <3> QED BY <1>1, <1>4, <1>7, <2>3, <3>2 DEF new
  <2> QED BY <2>2, <2>3
<1>9. \A p \in 1 .. Len(windows') : windows'[p].x \in 1 .. n + 1
  <2>1. \A p \in 1 .. Len(windows) : windows[p].x \in 1 .. n BY VarsFacts
  <2> QED BY <1>1, <1>7, <2>1 DEF new
<1>10. Len(windows') <= MaxWindows BY <1>1, <1>7
<1> DEFINE m == n + 1
<1>11. /\ Rights(varObj', g) /\ m = Len(varObj')
       /\ \A p \in 1 .. Len(windows') : windows'[p].x \in 1 .. m
       /\ \A o \in 1 .. m : g[o] = Num(windows', o)
  BY <1>5, <1>8, <1>9
<1> HIDE DEF n, g, m
<1> QED BY <1>7, <1>10, <1>11, VarsFrom

LEMMA NewWindowVars ==
  ASSUME VarsInv, NEW s \in Shapes, NEW left \in Leftovers, NewWindow(s, left)
  PROVE  VarsInv'
<1> DEFINE n == Len(varObj)
           f == NumsOf(windows, n)
           us == NewVar(varObj, 0, left)
           g == [p \in 1 .. n + 1 |-> IF p <= n THEN f[p] ELSE 1]
           old == n + 1
           h == [p \in 1 .. old + 1 |-> IF p = old + 1 THEN 1 ELSE IF p = old THEN g[p] - 1 ELSE g[p]]
           m == n + 2
           r == [x |-> m, y |-> s.y, w |-> s.w, h |-> s.h, color |-> s.color, live |-> TRUE]
<1>1. /\ windows \in Seq(Win) /\ n \in Nat /\ Len(windows) < MaxWindows /\ Len(windows) \in Nat
      /\ MaxWindows \in Nat
  BY VarsFacts DEF NewWindow
<1>2. varObj' = AssignValue(us, old, s.x, left) /\ windows' = Append(windows, r)
  BY DEF NewWindow
<1>3. Rights(varObj, f) BY DEF VarsInv
<1>4. f \in [1 .. n -> Nat] BY <1>3 DEF Rights
<1> HIDE DEF f
<1>5. Rights(us, g) /\ Len(us) = n + 1
  <2>1. 0 \in VarValue BY DEF VarValue
  <2> QED BY <1>3, <2>1, NewVarRights
<1> HIDE DEF us
<1>6. old \in 1 .. Len(us) /\ g[old] = 1 /\ g[old] \in 1 .. MaxWindows BY <1>1, <1>5
<1>7. s.x \in VarValue BY DEF VarValue
<1> HIDE DEF g
<1>8. Rights(varObj', h) /\ Len(varObj') = m
  <2>1. Len(us) = old /\ old + 1 = m BY <1>1, <1>5
  <2> HIDE DEF old
  <2>2. /\ Rights(AssignValue(us, old, s.x, left),
                  [p \in 1 .. Len(us) + 1 |-> IF p = Len(us) + 1 THEN 1 ELSE IF p = old THEN g[p] - 1 ELSE g[p]])
        /\ Len(AssignValue(us, old, s.x, left)) = Len(us) + 1
    BY <1>5, <1>6, <1>7, AssignValueRights
  <2> QED BY <1>2, <2>1, <2>2
<1>9. r \in Win /\ r.live /\ r.x = m
  <2>1. s.w \in Nat /\ s.h \in Nat /\ s.y \in Int /\ s.color \in [1 .. 3 -> 0 .. 4] BY WindowsAssumption
  <2>2. m \in Nat BY <1>1
  <2> HIDE DEF m
  <2> QED BY <2>1, <2>2 DEF Win
<1> HIDE DEF r
<1>10. /\ windows' \in Seq(Win) /\ Len(windows') = Len(windows) + 1 /\ windows'[Len(windows) + 1] = r
       /\ \A p \in 1 .. Len(windows) : windows'[p] = windows[p]
       /\ \A o : Num(windows', o) = IF o = r.x THEN Num(windows, o) + 1 ELSE Num(windows, o)
  <2>1. Added(windows', windows, r) BY <1>2 DEF Added
  <2> QED BY <1>1, <1>9, <2>1, HeldAdded
<1>11. \A o \in 1 .. m : h[o] = Num(windows', o)
  <2>1. TAKE o \in 1 .. m
  <2>2. CASE o = m
    <3>1. Num(windows, o) = 0 BY <1>1, <2>2, NoneYet
    <3> QED BY <1>1, <1>9, <1>10, <2>2, <3>1
  <2>3. CASE o = old
    <3>1. Num(windows, o) = 0 BY <1>1, <2>3, NoneYet
    <3> QED BY <1>1, <1>6, <1>9, <1>10, <2>3, <3>1
  <2>4. CASE o # m /\ o # old
    <3>1. o \in 1 .. n BY <1>1, <2>4
    <3>2. f[o] = Num(windows, o) BY <3>1 DEF f, NumsOf
    <3>3. g[o] = f[o] BY <1>1, <3>1 DEF g
    <3>4. h[o] = g[o] BY <1>1, <2>4
    <3> QED BY <1>9, <1>10, <2>4, <3>2, <3>3, <3>4
  <2> QED BY <2>2, <2>3, <2>4
<1>12. \A p \in 1 .. Len(windows') : windows'[p].x \in 1 .. m
  <2>1. TAKE p \in 1 .. Len(windows')
  <2>2. CASE p = Len(windows) + 1 BY <1>1, <1>9, <1>10, <2>2
  <2>3. CASE p # Len(windows) + 1
    <3>1. p \in 1 .. Len(windows) BY <1>1, <1>10, <2>3
    <3>2. windows[p].x \in 1 .. n BY <3>1, VarsFacts
    <3> QED BY <1>1, <1>10, <3>1, <3>2
  <2> QED BY <2>2, <2>3
<1>13. Len(windows') <= MaxWindows BY <1>1, <1>10
<1>14. m = Len(varObj') BY <1>8
<1> HIDE DEF h, m
<1> QED BY <1>8, <1>10, <1>11, <1>12, <1>13, <1>14, VarsFrom

\* A window that draws what is gone is deleted, or its object went early.
LEMMA VarsImply ==
  ASSUME VarsInv
  PROVE  /\ VarsLive
         /\ \A i \in DOMAIN windows : Readable(i) \/ ~windows[i].live
                                      \/ \E o \in DOMAIN varObj : varObj[o].began + MaxWindows + 1 >= Counts
<1>1. DOMAIN varObj = 1 .. Len(varObj) /\ Rights(varObj, NumsOf(windows, Len(varObj))) /\ windows \in Seq(Win)
      /\ DOMAIN windows = 1 .. Len(windows)
  BY VarsFacts DEF VarsInv
<1>2. ASSUME NEW o \in DOMAIN varObj
      PROVE  Right(varObj[o], Num(windows, o)) /\ HandlesOf(o) = Held(windows, o)
             /\ (Num(windows, o) = 0 <=> Held(windows, o) = {})
  <2>1. NumsOf(windows, Len(varObj))[o] = Num(windows, o) BY <1>1 DEF NumsOf
  <2> QED BY <1>1, <2>1, HeldFacts DEF Rights, HandlesOf, Held
<1>3. VarsLive BY <1>2 DEF VarsLive, Right, Num
<1>4. ASSUME NEW i \in DOMAIN windows, ~Readable(i), windows[i].live
      PROVE  \E o \in DOMAIN varObj : varObj[o].began + MaxWindows + 1 >= Counts
  <2> DEFINE o == windows[i].x
  <2>1. o \in DOMAIN varObj /\ varObj[o].freed BY <1>1, <1>4, VarsFacts DEF Readable
  <2>2. i \in HandlesOf(o) BY <1>4 DEF HandlesOf
  <2>3. varObj[o].began # 0 BY <1>3, <2>1, <2>2 DEF VarsLive
  <2>4. varObj[o].began + MaxWindows + 1 >= Counts BY <1>3, <2>1, <2>3 DEF VarsLive
  <2> HIDE DEF o
  <2> QED BY <2>1, <2>4
<1> QED BY <1>3, <1>4

-----------------------------------------------------------------------------
(***************************************************************************)
(* What is painted.                                                        *)
(***************************************************************************)

\* A channel of a colour, from quarters.
LEMMA ChannelIs ==
  ASSUME belowZero \in {0, 255}, NEW q \in 0 .. 4
  PROVE  /\ Channel(q) \in 0 .. 255
         /\ q = 0 => Channel(q) = belowZero
         /\ q # 0 => 4 * Channel(q) - q * 255 \in -2 .. 2
<1>1. round(0, 4) = -1
  <2>1. ASSUME NEW n \in Int, n + 4 = 0 PROVE ceil(n, 8) = -1 BY <2>1 DEF ceil, Floor
  <2>2. round(0, 4) = ceil(-4, 8) BY DEF round
  <2> QED BY <2>1, <2>2
<1>2. ASSUME NEW n \in Nat, n > 2 PROVE round(n, 4) \in Int /\ 8 * round(n, 4) - (2 * n - 4) \in 0 .. 7
  <2>1. round(n, 4) = ceil(2 * n - 4, 8) /\ ~(2 * n - 4 < 0) BY <1>2 DEF round
  <2>2. round(n, 4) = -((-(2 * n - 4)) \div 8) BY <2>1 DEF ceil, Ceiling
  <2> QED BY <2>2
<1>3. round(255, 4) = 64 /\ round(510, 4) = 127 /\ round(765, 4) = 191 /\ round(1020, 4) = 255
  <2>1. round(255, 4) = 64
    <3> DEFINE n == 255
    <3>1. n \in Nat /\ n > 2 /\ 2 * n - 4 = 506 OBVIOUS
    <3> HIDE DEF n
    <3>2. round(n, 4) \in Int /\ 8 * round(n, 4) - 506 \in 0 .. 7 BY <1>2, <3>1
    <3>3. round(n, 4) = 64 BY <3>2
    <3> QED BY <3>3 DEF n
  <2>2. round(510, 4) = 127
    <3> DEFINE n == 510
    <3>1. n \in Nat /\ n > 2 /\ 2 * n - 4 = 1016 OBVIOUS
    <3> HIDE DEF n
    <3>2. round(n, 4) \in Int /\ 8 * round(n, 4) - 1016 \in 0 .. 7 BY <1>2, <3>1
    <3>3. round(n, 4) = 127 BY <3>2
    <3> QED BY <3>3 DEF n
  <2>3. round(765, 4) = 191
    <3> DEFINE n == 765
    <3>1. n \in Nat /\ n > 2 /\ 2 * n - 4 = 1526 OBVIOUS
    <3> HIDE DEF n
    <3>2. round(n, 4) \in Int /\ 8 * round(n, 4) - 1526 \in 0 .. 7 BY <1>2, <3>1
    <3>3. round(n, 4) = 191 BY <3>2
    <3> QED BY <3>3 DEF n
  <2>4. round(1020, 4) = 255
    <3> DEFINE n == 1020
    <3>1. n \in Nat /\ n > 2 /\ 2 * n - 4 = 2036 OBVIOUS
    <3> HIDE DEF n
    <3>2. round(n, 4) \in Int /\ 8 * round(n, 4) - 2036 \in 0 .. 7 BY <1>2, <3>1
    <3>3. round(n, 4) = 255 BY <3>2
    <3> QED BY <3>3 DEF n
  <2> QED BY <2>1, <2>2, <2>3, <2>4
<1>4. CASE q = 0 BY <1>1, <1>4 DEF Channel
<1>5. CASE q = 1 BY <1>3, <1>5 DEF Channel
<1>6. CASE q = 2 BY <1>3, <1>6 DEF Channel
<1>7. CASE q = 3 BY <1>3, <1>7 DEF Channel
<1>8. CASE q = 4 BY <1>3, <1>8 DEF Channel
<1> QED BY <1>4, <1>5, <1>6, <1>7, <1>8

\* The channels of a colour that was painted.
LEMMA ColorIs ==
  ASSUME belowZero \in {0, 255}, NEW c \in [1 .. 3 -> 0 .. 4], NEW k \in 1 .. 3
  PROVE  LET channel == (toInt(c) \div <<65536, 256, 1>>[k]) % 256 IN
           IF c[k] = 0 THEN channel = belowZero ELSE 4 * channel - c[k] * 255 \in -2 .. 2
<1> DEFINE r == Channel(c[1])
           g == Channel(c[2])
           b == Channel(c[3])
           t == toInt(c)
<1>1. r \in 0 .. 255 /\ g \in 0 .. 255 /\ b \in 0 .. 255 BY ChannelIs
<1>2. t = r * 65536 + g * 256 + b BY DEF toInt
<1> HIDE DEF r, g, b, t
<1>3. (t \div 65536) % 256 = r /\ (t \div 256) % 256 = g /\ (t \div 1) % 256 = b
  <2>1. t \div 65536 = r BY <1>1, <1>2
  <2>2. t \div 256 = r * 256 + g BY <1>1, <1>2
  <2>3. t \div 1 = t BY <1>1, <1>2
  <2> QED BY <1>1, <1>2, <2>1, <2>2, <2>3
<1>4. (t \div <<65536, 256, 1>>[k]) % 256 = Channel(c[k])
  <2>1. CASE k = 1 BY <1>3, <2>1 DEF r
  <2>2. CASE k = 2 BY <1>3, <2>2 DEF g
  <2>3. CASE k = 3 BY <1>3, <2>3 DEF b
  <2> QED BY <2>1, <2>2, <2>3
<1>5. c[k] \in 0 .. 4 OBVIOUS
<1>6. c[k] = 0 => Channel(c[k]) = belowZero BY <1>5, ChannelIs
<1>7. c[k] # 0 => 4 * Channel(c[k]) - c[k] * 255 \in -2 .. 2 BY <1>5, ChannelIs
<1> QED BY <1>4, <1>6, <1>7 DEF t

\* Places and corners are whole numbers; a corner in the frame is the half of its double.
LEMMA RoundHalf ==
  ASSUME NEW n \in Int
  PROVE  round(n, 2) \in Int /\ (n > 0 => round(n, 2) = n \div 2)
<1>1. round(n, 2) \in Int BY DEF round, ceil, Floor, Ceiling
<1>2. ASSUME n > 0 PROVE round(n, 2) = n \div 2
  <2>1. round(n, 2) = -((-(2 * n - 2)) \div 4) BY <1>2 DEF round, ceil, Ceiling
  <2> QED BY <1>2, <2>1
<1> QED BY <1>1, <1>2

LEMMA SquareCells ==
  ASSUME NEW win \in Win, NEW vs \in Seq(VarObj), win.x \in 1 .. Len(vs)
  PROVE  /\ Square(CornerX(win, vs), CornerY(win), win.w, win.h) \subseteq Int
         /\ WellInside(win, vs) => Square(CornerX(win, vs), CornerY(win), win.w, win.h) \subseteq Area(win, vs)
<1> DEFINE n == 2 * vs[win.x].value - win.w
           m == 2 * win.y - win.h
           w == win.w
           h == win.h
           x == CornerX(win, vs)
           y == CornerY(win)
<1>1. n \in Int /\ m \in Int /\ w \in Nat /\ h \in Nat
  <2>1. vs[win.x] \in VarObj OBVIOUS
  <2>2. VarValue \subseteq Int
    <3>1. \A s \in Shapes : s.x \in Int BY WindowsAssumption
    <3>2. Places \subseteq Int BY WindowsAssumption
    <3>3. {s.x : s \in Shapes} \subseteq Int /\ {0} \subseteq Int BY <3>1
    <3> QED BY <3>2, <3>3 DEF VarValue
  <2>3. vs[win.x].value \in Int BY <2>1, <2>2 DEF VarObj
  <2> QED BY <2>3 DEF Win
<1>2. x = round(n, 2) /\ y = round(m, 2) BY DEF CornerX, CornerY
<1>3. /\ WellInside(win, vs) <=> n \in 1 .. 2 * FrameWidth /\ m \in 1 .. 2 * FrameHeight
      /\ Area(win, vs) = {b * FrameWidth + a : a \in {c \in n \div 2 .. n \div 2 + w - 1 : c \in 0 .. FrameWidth - 1},
                                               b \in {c \in m \div 2 .. m \div 2 + h - 1 : c \in 0 .. FrameHeight - 1}}
  BY DEF WellInside, Area
<1> HIDE DEF n, m, w, h, x, y
<1>4. x \in Int /\ y \in Int BY <1>1, <1>2, RoundHalf
<1>5. FrameWidth \in Nat /\ FrameHeight \in Nat /\ FrameWidth > 0 /\ FrameHeight > 0 BY WindowsFacts
<1>6. Square(x, y, w, h) \subseteq Int
  <2>1. y * FrameWidth + x \in Int BY <1>4, <1>5
  <2>2. Clipped(FrameWidth, x, w) - 1 \in Int BY <1>1, <1>4, <1>5 DEF Clipped
  <2> QED BY <1>4, <1>5, <2>1, <2>2 DEF Square
<1>7. ASSUME WellInside(win, vs), NEW e \in Square(x, y, w, h) PROVE e \in Area(win, vs)
  <2>1. x = n \div 2 /\ y = m \div 2 /\ n \in 1 .. 2 * FrameWidth /\ m \in 1 .. 2 * FrameHeight
    BY <1>1, <1>2, <1>3, <1>7, RoundHalf
  <2>2. x \in 0 .. FrameWidth /\ y \in 0 .. FrameHeight BY <1>5, <2>1
  <2>3. Clipped(FrameHeight, y, h) # 0
        /\ \E i \in 0 .. Clipped(FrameWidth, x, w) - 1 : e = y * FrameWidth + x + i
    BY <1>7 DEF Square
  <2>4. PICK i \in 0 .. Clipped(FrameWidth, x, w) - 1 : e = y * FrameWidth + x + i BY <2>3
  <2>5. i \in Int /\ i >= 0 /\ x + i <= FrameWidth - 1 /\ x + i <= x + w - 1
    BY <1>1, <1>5, <2>2, <2>4 DEF Clipped
  <2>6. y \in 0 .. FrameHeight - 1 /\ h > 0 BY <1>1, <1>5, <2>2, <2>3 DEF Clipped
  <2> DEFINE a == x + i
  <2>7. a \in {c \in n \div 2 .. n \div 2 + w - 1 : c \in 0 .. FrameWidth - 1} BY <1>1, <1>5, <2>1, <2>2, <2>5
  <2>8. y \in {c \in m \div 2 .. m \div 2 + h - 1 : c \in 0 .. FrameHeight - 1} BY <1>1, <1>5, <2>1, <2>6
  <2>9. e = y * FrameWidth + a
    <3>1. y * FrameWidth \in Int BY <1>4, <1>5
    <3> QED BY <1>4, <2>4, <2>5, <3>1
  <2> HIDE DEF a
  <2> QED BY <1>3, <2>7, <2>8, <2>9
<1> QED BY <1>6, <1>7 DEF x, y, w, h

\* Functions from cells to colours.
Paints(C) == UNION {[S -> C] : S \in SUBSET Int}
IsCells(cells) == cells \in SUBSET Int
Colors == {toInt(windows[i].color) : i \in DOMAIN windows}

PaintInv ==
  /\ belowZero \in {0, 255} /\ painted \in Paints(Colors)
  /\ ~offCorner => DOMAIN painted \subseteq inside

LEMMA PaintedCells ==
  ASSUME NEW C, NEW p \in Paints(C), NEW cells, IsCells(cells), NEW c \in C
  PROVE  Paint(p, cells, c) \in Paints(C) /\ DOMAIN Paint(p, cells, c) = DOMAIN p \cup cells
<1>1. PICK S \in SUBSET Int : p \in [S -> C] BY DEF Paints
<1>2. Paint(p, cells, c) \in [S \cup cells -> C] BY <1>1 DEF Paint, IsCells
<1>3. S \cup cells \in SUBSET Int BY <1>1 DEF IsCells
<1> QED BY <1>1, <1>2, <1>3 DEF Paints

LEMMA MorePaints ==
  ASSUME NEW C, NEW D, C \subseteq D, NEW p \in Paints(C)
  PROVE  p \in Paints(D)
<1>1. PICK S \in SUBSET Int : p \in [S -> C] BY DEF Paints
<1>2. p \in [S -> D] BY <1>1
<1> QED BY <1>2 DEF Paints

\* A call that draws nothing, and takes no window's colour.
LEMMA NotDrawnInv ==
  ASSUME PaintInv, ~dangling, UiCall, NotDrawn,
         \A i \in DOMAIN windows : i \in DOMAIN windows' /\ windows'[i].color = windows[i].color
  PROVE  PaintInv' /\ DrawsWhatIs'
<1>1. /\ belowZero' = belowZero /\ painted' = painted /\ dangling' = dangling /\ inside' = inside
      /\ offCorner' = offCorner
  BY DEF UiCall, NotDrawn
<1>2. Colors \subseteq Colors'
  <2>1. ASSUME NEW c \in Colors PROVE c \in Colors'
    <3>1. PICK i \in DOMAIN windows : c = toInt(windows[i].color) BY DEF Colors
    <3>2. c = toInt(windows[i].color)' BY <1>1, <3>1 DEF toInt, Channel
    <3> QED BY <3>1, <3>2 DEF Colors
  <2> QED BY <2>1
<1>3. painted' \in Paints(Colors') BY <1>1, <1>2, MorePaints DEF PaintInv
<1>4. Paints(Colors)' = Paints(Colors') BY DEF Paints
<1>5. PaintInv' BY <1>1, <1>3, <1>4 DEF PaintInv
<1>6. DrawsWhatIs' BY <1>1 DEF DrawsWhatIs
<1> QED BY <1>5, <1>6

\* The visitor goes from window to window.
LEMMA DrawTurns ==
  ASSUME VarsInv, PaintInv
  PROVE  LET k == Len(windows)
             cells(i) == Square(CornerX(windows[i], varObj), CornerY(windows[i]), windows[i].w, windows[i].h)
             after[i \in 0 .. k] == IF i = 0 THEN painted
                                    ELSE Paint(after[i - 1], cells(i), toInt(windows[i].color))
         IN  /\ after[k] \in Paints(Colors)
             /\ \A a \in DOMAIN after[k] : a \in DOMAIN painted \/ \E j \in 1 .. k : a \in cells(j)
<1> DEFINE k == Len(windows)
           cells(i) == Square(CornerX(windows[i], varObj), CornerY(windows[i]), windows[i].w, windows[i].h)
           color(i) == toInt(windows[i].color)
           X == Paints(Colors)
           Drawing(g) == [i \in 0 .. k |-> IF i = 0 THEN painted ELSE Paint(g[i - 1], cells(i), color(i))]
<1>1. k \in Nat /\ DOMAIN windows = 1 .. k /\ painted \in X BY VarsFacts DEF PaintInv
<1>2. \A i \in 1 .. k : cells(i) \in SUBSET Int /\ color(i) \in Colors
  <2>1. TAKE i \in 1 .. k
  <2>2. windows[i] \in Win /\ varObj \in Seq(VarObj) /\ windows[i].x \in 1 .. Len(varObj) BY VarsFacts
  <2>3. cells(i) \in SUBSET Int BY <2>2, SquareCells
  <2>4. color(i) \in Colors BY <1>1 DEF Colors
  <2> QED BY <2>3, <2>4
<1> HIDE DEF k, cells, color, X
<1>3. \A i \in 1 .. k : \A p \in X :
        Paint(p, cells(i), color(i)) \in X /\ DOMAIN Paint(p, cells(i), color(i)) = DOMAIN p \cup cells(i)
  <2>1. TAKE i \in 1 .. k
  <2>2. TAKE p \in X
  <2> DEFINE cs == cells(i)
             c == color(i)
  <2>3. p \in Paints(Colors) /\ IsCells(cs) /\ c \in Colors BY <1>2 DEF X, IsCells
  <2> HIDE DEF cs, c
  <2>4. Paint(p, cs, c) \in Paints(Colors) /\ DOMAIN Paint(p, cs, c) = DOMAIN p \cup cs BY <2>3, PaintedCells
  <2> QED BY <2>4 DEF X, cs, c
<1>4. \E g : g = Drawing(g)
  <2> DEFINE step == [i \in 1 .. k |-> [p \in X |-> Paint(p, cells(i), color(i))]]
  <2>1. \A i \in 1 .. k : \A p \in X : step[i][p] = Paint(p, cells(i), color(i)) /\ step[i][p] \in X BY <1>3
  <2>2. StaysIn(X, step, k) BY <2>1 DEF StaysIn
  <2> HIDE DEF step
  <2>3. HasTurns(X, step, k, painted) BY <1>1, <2>2, TurnsExist
  <2>4. PICK g \in [0 .. k -> X] : g[0] = painted /\ \A i \in 1 .. k : g[i] = step[i][g[i - 1]]
    BY <2>3 DEF HasTurns
  <2>5. \A i \in 1 .. k : g[i] = Paint(g[i - 1], cells(i), color(i))
    <3>1. TAKE i \in 1 .. k
    <3>2. g[i - 1] \in X BY <1>1, <2>4
    <3> QED BY <2>1, <2>4, <3>2
  <2>6. \A i \in 0 .. k : g[i] = IF i = 0 THEN painted ELSE Paint(g[i - 1], cells(i), color(i))
    <3>1. TAKE i \in 0 .. k
    <3>2. i # 0 => i \in 1 .. k BY <1>1
    <3> QED BY <2>4, <2>5, <3>2
  <2>7. g = Drawing(g) BY <2>4, <2>6
  <2> QED BY <2>7
<1> DEFINE after == CHOOSE g : g = Drawing(g)
<1>5. after = Drawing(after) BY <1>4
<1> HIDE DEF after
<1>6. after[0] = painted /\ \A i \in 1 .. k : after[i] = Paint(after[i - 1], cells(i), color(i))
  <2>1. 0 \in 0 .. k /\ \A i \in 1 .. k : i \in 0 .. k /\ i # 0 BY <1>1
  <2> QED BY <1>5, <2>1
<1> HIDE DEF Drawing
<1> DEFINE S == {i \in 0 .. k : /\ after[i] \in X
                               /\ \A a \in DOMAIN after[i] : a \in DOMAIN painted \/ \E j \in 1 .. i : a \in cells(j)}
<1>7. 0 \in S
  <2>1. 0 \in 0 .. k BY <1>1
  <2> QED BY <1>1, <1>6, <2>1
<1>8. ASSUME NEW i \in 1 .. k, i - 1 \in S PROVE i \in S
  <2>1. /\ after[i - 1] \in X
        /\ \A a \in DOMAIN after[i - 1] : a \in DOMAIN painted \/ \E j \in 1 .. i - 1 : a \in cells(j)
    BY <1>8
  <2>2. after[i] \in X /\ DOMAIN after[i] = DOMAIN after[i - 1] \cup cells(i) BY <1>3, <1>6, <2>1
  <2>3. i \in 1 .. i /\ i \in 0 .. k /\ \A j \in 1 .. i - 1 : j \in 1 .. i BY <1>1
  <2>4. ASSUME NEW a \in DOMAIN after[i], a \notin DOMAIN painted PROVE \E j \in 1 .. i : a \in cells(j)
    BY <2>1, <2>2, <2>3, <2>4
  <2> QED BY <2>2, <2>3, <2>4
<1>9. \A i \in 1 .. k : i - 1 \in S => i \in S BY <1>8
<1>10. k \in S
  <2> HIDE DEF S
  <2>1. \A i \in 0 .. k : i \in S BY <1>1, <1>7, <1>9, EveryTurn
  <2> QED BY <1>1, <2>1
<1>11. after[k] \in X /\ \A a \in DOMAIN after[k] : a \in DOMAIN painted \/ \E j \in 1 .. k : a \in cells(j)
  BY <1>10
<1> HIDE DEF S
<1> QED BY <1>11 DEF after, Drawing, X, k, cells, color

\* What a draw makes of the screen.
LEMMA DrawInv ==
  ASSUME VarsInv, PaintInv, ~dangling, Draw
  PROVE  PaintInv' /\ DrawsWhatIs'
<1> DEFINE k == Len(windows)
           cells(i) == Square(CornerX(windows[i], varObj), CornerY(windows[i]), windows[i].w, windows[i].h)
<1>1. /\ DOMAIN windows = 1 .. k /\ varObj' = varObj /\ windows' = windows /\ belowZero' = belowZero
      /\ belowZero \in {0, 255}
  BY VarsFacts DEF Draw, UiCall, PaintInv
<1>2. Paints(Colors)' = Paints(Colors) BY <1>1 DEF Paints, Colors, toInt, Channel
<1>3. CASE ~(\A i \in DOMAIN windows : Readable(i))
  <2>1. dangling' = TRUE /\ painted' = painted /\ inside' = inside /\ offCorner' = offCorner
    BY <1>3 DEF Draw
  <2>2. PaintInv' BY <1>1, <1>2, <2>1 DEF PaintInv
  <2>3. \/ \E i \in DOMAIN windows : ~windows[i].live
        \/ \E o \in DOMAIN varObj : varObj[o].began + MaxWindows + 1 >= Counts
    BY <1>3, VarsImply
  <2>4. DrawsWhatIs' BY <1>1, <2>3 DEF DrawsWhatIs
  <2> QED BY <2>2, <2>4
<1>4. CASE \A i \in DOMAIN windows : Readable(i)
  <2>1. /\ inside' = inside \cup UNION {Area(windows[i], varObj) : i \in DOMAIN windows}
        /\ offCorner' = (offCorner \/ \E i \in DOMAIN windows : ~WellInside(windows[i], varObj))
        /\ dangling' = dangling
    BY <1>4 DEF Draw
  <2>2. painted' \in Paints(Colors) /\ \A a \in DOMAIN painted' : a \in DOMAIN painted \/ \E j \in 1 .. k : a \in cells(j)
    BY <1>4, DrawTurns DEF Draw
  <2>3. ASSUME ~offCorner', NEW a \in DOMAIN painted' PROVE a \in inside'
    <3>1. ~offCorner /\ \A i \in DOMAIN windows : WellInside(windows[i], varObj) BY <2>1, <2>3
    <3>2. CASE a \in DOMAIN painted BY <2>1, <3>1, <3>2 DEF PaintInv
    <3>3. CASE \E j \in 1 .. k : a \in cells(j)
      <4>1. PICK j \in 1 .. k : a \in cells(j) BY <3>3
      <4>2. windows[j] \in Win /\ varObj \in Seq(VarObj) /\ windows[j].x \in 1 .. Len(varObj) BY VarsFacts
      <4>3. WellInside(windows[j], varObj) /\ j \in DOMAIN windows BY <1>1, <3>1
      <4>4. cells(j) \subseteq Area(windows[j], varObj) BY <4>2, <4>3, SquareCells
      <4>5. a \in Area(windows[j], varObj) BY <4>1, <4>4
      <4> QED BY <2>1, <4>3, <4>5
    <3> QED BY <2>2, <3>2, <3>3
  <2>4. PaintInv' BY <1>1, <1>2, <2>2, <2>3 DEF PaintInv
  <2>5. DrawsWhatIs' BY <2>1 DEF DrawsWhatIs
  <2> QED BY <2>4, <2>5
<1> QED BY <1>3, <1>4

UiInv == VarsInv /\ PaintInv /\ DrawsWhatIs

LEMMA UiNextInv ==
  ASSUME UiInv, UiNext
  PROVE  UiInv'
<1>1. VarsInv /\ PaintInv /\ ~dangling BY DEF UiInv, UiNext
<1>2. windows \in Seq(Win) /\ DOMAIN windows = 1 .. Len(windows) /\ Len(windows) \in Nat BY <1>1, VarsFacts
<1>3. ASSUME NEW s \in Shapes, NEW l \in Leftovers, NewWindow(s, l) PROVE UiInv'
  <2>1. VarsInv' BY <1>1, <1>3, NewWindowVars
  <2>2. UiCall /\ NotDrawn BY <1>3 DEF NewWindow
  <2> DEFINE r == [x |-> Len(varObj) + 2, y |-> s.y, w |-> s.w, h |-> s.h, color |-> s.color, live |-> TRUE]
  <2>3. windows' = Append(windows, r) BY <1>3 DEF NewWindow
  <2> HIDE DEF r
  <2>4. \A i \in DOMAIN windows : i \in DOMAIN windows' /\ windows'[i].color = windows[i].color
    BY <1>2, <2>3
  <2> QED BY <1>1, <2>1, <2>2, <2>4, NotDrawnInv DEF UiInv
<1>4. ASSUME NEW i \in DOMAIN windows, NEW x \in Places, NEW l \in Leftovers, MoveTo(i, x, l) PROVE UiInv'
  <2>1. VarsInv' BY <1>1, <1>4, MoveToVars
  <2>2. UiCall /\ NotDrawn BY <1>4 DEF MoveTo
  <2>3. windows' = [windows EXCEPT ![i].x = Len(varObj')] BY <1>4 DEF MoveTo
  <2>4. \A p \in DOMAIN windows : p \in DOMAIN windows' /\ windows'[p].color = windows[p].color BY <2>3
  <2> QED BY <1>1, <2>1, <2>2, <2>4, NotDrawnInv DEF UiInv
<1>5. ASSUME NEW i \in DOMAIN windows, NEW j \in DOMAIN windows, ShareX(i, j) PROVE UiInv'
  <2>1. VarsInv' BY <1>1, <1>5, ShareXVars
  <2>2. UiCall /\ NotDrawn BY <1>5 DEF ShareX
  <2>3. windows' = [windows EXCEPT ![i].x = windows[j].x] BY <1>5 DEF ShareX
  <2>4. \A p \in DOMAIN windows : p \in DOMAIN windows' /\ windows'[p].color = windows[p].color BY <2>3
  <2> QED BY <1>1, <2>1, <2>2, <2>4, NotDrawnInv DEF UiInv
<1>6. ASSUME NEW i \in DOMAIN windows, DeleteWindow(i) PROVE UiInv'
  <2>1. VarsInv' BY <1>1, <1>6, DeleteWindowVars
  <2>2. UiCall /\ NotDrawn BY <1>6 DEF DeleteWindow
  <2>3. windows' = [windows EXCEPT ![i].live = FALSE] BY <1>6 DEF DeleteWindow
  <2>4. \A p \in DOMAIN windows : p \in DOMAIN windows' /\ windows'[p].color = windows[p].color BY <2>3
  <2> QED BY <1>1, <2>1, <2>2, <2>4, NotDrawnInv DEF UiInv
<1>7. ASSUME Draw PROVE UiInv'
  <2>1. varObj' = varObj /\ windows' = windows BY <1>7 DEF Draw
  <2>2. VarsInv' BY <1>1, <2>1 DEF VarsInv, NumsOf, Num, Held
  <2> QED BY <1>1, <1>7, <2>2, DrawInv DEF UiInv
<1> QED BY <1>3, <1>4, <1>5, <1>6, <1>7 DEF UiNext

LEMMA UiInitInv == Init => UiInv
<1> SUFFICES ASSUME Init PROVE UiInv OBVIOUS
<1>1. UiInit BY DEF Init
<1> DEFINE ws == <<>>
           vs == <<>>
           n == 0
           f == NumsOf(ws, n)
<1>2. ws \in Seq(Win) /\ vs \in Seq(VarObj) /\ Len(ws) = n /\ Len(vs) = n /\ n \in Nat OBVIOUS
<1>3. f \in [1 .. n -> Nat] /\ \A i \in 1 .. n : FALSE BY DEF NumsOf
<1>4. windows = ws /\ varObj = vs BY <1>1 DEF UiInit
<1> HIDE DEF ws, vs, n, f
<1>5. Rights(varObj, f) BY <1>2, <1>3, <1>4 DEF Rights
<1>6. f = NumsOf(windows, Len(varObj)) BY <1>2, <1>4 DEF f
<1>7. VarsInv
  <2>1. Len(windows) <= MaxWindows BY <1>2, <1>4, WindowsFacts DEF n
  <2>2. \A i \in 1 .. Len(windows) : windows[i].x \in 1 .. Len(varObj) BY <1>2, <1>3, <1>4
  <2> QED BY <1>2, <1>4, <1>5, <1>6, <2>1, <2>2 DEF VarsInv
<1>8. PaintInv
  <2> DEFINE p == [a \in {} |-> 0]
  <2>1. belowZero \in {0, 255} /\ painted = p BY <1>1 DEF UiInit
  <2>2. p \in [{} -> Colors] /\ {} \in SUBSET Int /\ DOMAIN p = {} OBVIOUS
  <2> HIDE DEF p
  <2>3. p \in Paints(Colors) BY <2>2 DEF Paints
  <2> QED BY <2>1, <2>2, <2>3 DEF PaintInv
<1>9. DrawsWhatIs BY <1>1 DEF UiInit, DrawsWhatIs
<1> QED BY <1>7, <1>8, <1>9 DEF UiInv

LEMMA UiInvImplies == UiInv => WindowsRight
<1> SUFFICES ASSUME UiInv PROVE WindowsRight OBVIOUS
<1>1. VarsInv /\ PaintInv /\ DrawsWhatIs BY DEF UiInv
<1>2. VarsLive BY <1>1, VarsImply
<1>3. PaintsInside
  <2>1. ~offCorner => DOMAIN painted \subseteq inside BY <1>1 DEF PaintInv
  <2>2. ASSUME NEW a \in DOMAIN painted
        PROVE  \E i \in DOMAIN windows : \A k \in 1 .. 3 :
                 LET channel == (painted[a] \div <<65536, 256, 1>>[k]) % 256 IN
                   IF windows[i].color[k] = 0 THEN channel = belowZero
                   ELSE 4 * channel - windows[i].color[k] * 255 \in -2 .. 2
    <3>1. PICK S \in SUBSET Int : painted \in [S -> Colors] BY <1>1 DEF PaintInv, Paints
    <3>2. painted[a] \in Colors BY <3>1
    <3>3. PICK i \in DOMAIN windows : painted[a] = toInt(windows[i].color) BY <3>2 DEF Colors
    <3> DEFINE c == windows[i].color
    <3>4. c \in [1 .. 3 -> 0 .. 4]
      <4>1. windows[i] \in Win BY <1>1, VarsFacts
      <4> QED BY <4>1 DEF Win
    <3>5. belowZero \in {0, 255} BY <1>1 DEF PaintInv
    <3>6. painted[a] = toInt(c) BY <3>3
    <3> HIDE DEF c
    <3>7. \A k \in 1 .. 3 : LET channel == (painted[a] \div <<65536, 256, 1>>[k]) % 256 IN
                              IF c[k] = 0 THEN channel = belowZero ELSE 4 * channel - c[k] * 255 \in -2 .. 2
      BY <3>4, <3>5, <3>6, ColorIs
    <3> QED BY <3>7 DEF c
  <2> QED BY <2>1, <2>2 DEF PaintsInside
<1> QED BY <1>1, <1>2, <1>3 DEF WindowsRight

\* Handles on variables are counted, and what is drawn is there and stays in its window,
\* of every frame, every set of shapes and places and every number of windows a count can
\* hold (Var.h:6-24, 39-61, ui.h:45-47, ui.cpp:25-28, Framebuffer.cpp:30-38).
THEOREM WindowsKeep == Spec => []WindowsRight
<1>1. Init => UiInv BY UiInitInv
<1>2. UiInv /\ [Next]_libraryVars => UiInv'
  <2> SUFFICES ASSUME UiInv, [Next]_libraryVars PROVE UiInv'
    OBVIOUS
  <2>1. CASE UNCHANGED uiVars
    <3>1. UiInv' = UiInv
      BY <2>1 DEF UiInv, VarsInv, PaintInv, DrawsWhatIs, NumsOf, Num, Held, uiVars, Paints, Colors, toInt, Channel
    <3> QED BY <3>1
  <2>2. CASE OnWindows BY <2>2, UiNextInv DEF OnWindows
  <2>3. CASE OnFont BY <2>1, <2>3 DEF OnFont
  <2>4. CASE OnString BY <2>1, <2>4 DEF OnString
  <2>5. CASE OnShell BY <2>1, <2>5 DEF OnShell
  <2>6. CASE OnPrinting BY <2>1, <2>6 DEF OnPrinting
  <2>7. CASE OnC BY <2>1, <2>7 DEF OnC
  <2>8. CASE OnVector BY <2>1, <2>8 DEF OnVector
  <2>9. CASE OnPointers BY <2>1, <2>9 DEF OnPointers
  <2>10. CASE OnOutput BY <2>1, <2>10 DEF OnOutput
  <2>11. CASE UNCHANGED libraryVars BY <2>1, <2>11 DEF libraryVars
  <2> QED BY <2>2, <2>3, <2>4, <2>5, <2>6, <2>7, <2>8, <2>9, <2>10, <2>11 DEF Next
<1>3. Spec => []UiInv BY <1>1, <1>2, PTL DEF Spec
<1> QED BY <1>3, UiInvImplies, PTL

-----------------------------------------------------------------------------
(***************************************************************************)
(* The console and its screen.  What the console has drawn is the end of the*)
(* unending paper it was written on: the cells of the screen are spots of the*)
(* paper, and scrolling moves the whole screen one row down on it.         *)
(***************************************************************************)

\* What \div and % give.
LEMMA Divided ==
  ASSUME NEW n \in Nat, NEW d \in Nat \ {0}
  PROVE  n \div d \in Nat /\ n % d \in 0 .. d - 1 /\ n = (d * (n \div d)) + (n % d)
<1>1. d \in Nat /\ d > 0 OBVIOUS
<1>2. n \div d \in Nat OBVIOUS
<1>3. n % d \in 0 .. d - 1 OBVIOUS
<1>4. n = (d * (n \div d)) + (n % d) BY <1>1, Z3
<1> QED BY <1>2, <1>3, <1>4

\* Multiples are as far apart as what they are multiples of.
LEMMA MultiplesApart ==
  ASSUME NEW d \in Nat \ {0}, NEW p \in Int, NEW q \in Int, p < q
  PROVE  d * p \in Int /\ d * q \in Int /\ d * p + d <= d * q
<1>1. PICK k \in Nat : q = p + 1 + k
  <2>1. q - p - 1 \in Nat /\ q = p + 1 + (q - p - 1) OBVIOUS
  <2> QED BY <2>1
<1>2. d * q = d * p + d + d * k BY <1>1
<1>3. d * k \in Nat BY <1>1
<1> QED BY <1>2, <1>3

\* They are the only ones that do.
LEMMA QuotientIs ==
  ASSUME NEW d \in Nat \ {0}, NEW q \in Nat, NEW r \in 0 .. d - 1
  PROVE  ((d * q) + r) \in Nat /\ ((d * q) + r) \div d = q /\ ((d * q) + r) % d = r
<1>0. PICK n : n = (d * q) + r OBVIOUS
<1>1. d * q \in Nat OBVIOUS
<1>2. n \in Nat BY <1>0, <1>1
<1>3. PICK b \in Nat : b = n \div d BY <1>2, Divided
<1>4. PICK m \in 0 .. d - 1 : m = n % d BY <1>2, Divided
<1>5. n = d * b + m BY <1>2, <1>3, <1>4, Divided
<1>6. ~(b < q)
  <2>1. SUFFICES ASSUME b < q PROVE FALSE OBVIOUS
  <2>2. d * b + d <= d * q /\ d * b \in Int BY <2>1, MultiplesApart
  <2> QED BY <1>0, <1>1, <1>5, <2>2
<1>7. ~(q < b)
  <2>1. SUFFICES ASSUME q < b PROVE FALSE OBVIOUS
  <2>2. d * q + d <= d * b /\ d * b \in Int BY <2>1, MultiplesApart
  <2> QED BY <1>0, <1>1, <1>5, <2>2
<1>8. b = q BY <1>6, <1>7
<1>9. m = r BY <1>0, <1>1, <1>5, <1>8
<1> QED BY <1>0, <1>2, <1>3, <1>4, <1>8, <1>9

\* What lies in a cell of size d.
LEMMA CellIs ==
  ASSUME NEW n \in Nat, NEW d \in Nat \ {0}, NEW x \in Nat
  PROVE  /\ x * d \in Nat
         /\ n - (x * d) \in 0 .. d - 1 <=> n \div d = x
         /\ n \div d = x => n % d = n - (x * d)
<1>1. x * d \in Nat /\ x * d = d * x OBVIOUS
<1>2. ASSUME n - (x * d) \in 0 .. d - 1 PROVE n \div d = x
  <2>1. PICK r \in 0 .. d - 1 : r = n - (x * d) BY <1>2
  <2>2. n = (d * x) + r BY <1>1, <2>1
  <2> QED BY <2>2, QuotientIs
<1>3. ASSUME n \div d = x PROVE n - (x * d) \in 0 .. d - 1 /\ n % d = n - (x * d)
  <2>1. PICK r \in 0 .. d - 1 : r = n % d BY Divided
  <2>2. n = (d * x) + r BY <1>3, <2>1, Divided
  <2> QED BY <1>1, <2>1, <2>2
<1> QED BY <1>1, <1>2, <1>3

\* As many cells further on.
LEMMA NextCell ==
  ASSUME NEW n \in Nat, NEW d \in Nat \ {0}, NEW q \in Nat
  PROVE  d * q \in Nat /\ (n + (d * q)) \div d = (n \div d) + q /\ (n + (d * q)) % d = n % d
<1>1. PICK b \in Nat : b = n \div d BY Divided
<1>2. PICK m \in 0 .. d - 1 : m = n % d BY Divided
<1>3. n = (d * b) + m BY <1>1, <1>2, Divided
<1>4. d * q \in Nat /\ d * b \in Nat /\ d * (b + q) = (d * b) + (d * q) /\ b + q \in Nat OBVIOUS
<1>5. n + (d * q) = (d * (b + q)) + m BY <1>3, <1>4
<1>6. PICK e : e = n + (d * q) OBVIOUS
<1>7. PICK c \in Nat : c = b + q OBVIOUS
<1>8. e \div d = c /\ e % d = m
  <2>1. ((d * c) + m) \div d = c /\ ((d * c) + m) % d = m BY QuotientIs
  <2> QED BY <1>5, <1>6, <1>7, <2>1
<1> QED BY <1>1, <1>2, <1>4, <1>6, <1>7, <1>8

\* The lesser of two numbers.
LEMMA LeastOfTwo ==
  ASSUME NEW a \in Int, NEW b \in Int
  PROVE  Min({a, b}) = IF a <= b THEN a ELSE b
<1> DEFINE m == IF a <= b THEN a ELSE b
<1>1. m \in {a, b} /\ \A y \in {a, b} : m <= y OBVIOUS
<1>2. \A x \in {a, b} : (\A y \in {a, b} : x <= y) => x = m OBVIOUS
<1> HIDE DEF m
<1> QED BY <1>1, <1>2 DEF Min, m

-----------------------------------------------------------------------------
\* The cells of all columns and rows lie on the screen, and there is one.
LEMMA ScreenFacts ==
  /\ {GlyphWidth, GlyphHeight, Width, Height, Pitch, Columns, Rows} \subseteq Nat \ {0}
  /\ Columns * GlyphWidth <= Width /\ Rows * GlyphHeight <= Height
  /\ Width <= Pitch /\ GlyphHeight <= Height
<1>1. {GlyphWidth, GlyphHeight, Width, Height, Pitch} \subseteq Nat \ {0} /\ Width <= Pitch
      /\ GlyphWidth <= Width /\ GlyphHeight <= Height
  BY ScreenAssumption
<1>2. ASSUME NEW n \in Nat \ {0}, NEW d \in Nat \ {0}, d <= n
      PROVE  n \div d \in Nat \ {0} /\ (n \div d) * d <= n
  <2>1. PICK b \in Nat : b = n \div d BY Divided
  <2>2. PICK m \in 0 .. d - 1 : m = n % d BY Divided
  <2>3. n = (d * b) + m BY <2>1, <2>2, Divided
  <2>4. b # 0
    <3>1. b = 0 => d * b = 0 OBVIOUS
    <3> QED BY <2>3, <3>1, <1>2
  <2>5. d * b = b * d /\ d * b \in Nat OBVIOUS
  <2> QED BY <2>1, <2>3, <2>4, <2>5
<1>3. Columns \in Nat \ {0} /\ Columns * GlyphWidth <= Width BY <1>1, <1>2 DEF Columns
<1>4. Rows \in Nat \ {0} /\ Rows * GlyphHeight <= Height BY <1>1, <1>2 DEF Rows
<1> QED BY <1>1, <1>3, <1>4

\* The place of a pixel.
LEMMA FrameFacts ==
  ASSUME NEW a \in Frame
  PROVE  a \in Nat /\ a % Pitch \in 0 .. Pitch - 1 /\ a \div Pitch \in 0 .. Height - 1
<1>1. Pitch \in Nat \ {0} /\ Height \in Nat \ {0} /\ Pitch * Height \in Nat BY ScreenFacts
<1>2. a \in Nat /\ a < Pitch * Height BY <1>1 DEF Frame
<1>3. PICK j \in Nat : j = a \div Pitch BY <1>1, <1>2, Divided
<1>4. PICK i \in 0 .. Pitch - 1 : i = a % Pitch BY <1>1, <1>2, Divided
<1>5. a = (Pitch * j) + i BY <1>1, <1>2, <1>3, <1>4, Divided
<1>6. j < Height
  <2>1. SUFFICES ASSUME ~(j < Height) PROVE FALSE OBVIOUS
  <2>2. Pitch * Height <= Pitch * j /\ Pitch * j \in Int
    <3>1. CASE j = Height BY <1>1, <3>1
    <3>2. CASE Height < j BY <1>1, <3>2, MultiplesApart
    <3> QED BY <1>1, <2>1, <3>1, <3>2
  <2> QED BY <1>1, <1>2, <1>4, <1>5, <2>2
<1> QED BY <1>1, <1>2, <1>3, <1>4, <1>6

\* The pixel at x in line y.
LEMMA PlaceIs ==
  ASSUME NEW x \in 0 .. Pitch - 1, NEW y \in 0 .. Height - 1
  PROVE  At(x, y) \in Frame /\ At(x, y) % Pitch = x /\ At(x, y) \div Pitch = y
<1>1. Pitch \in Nat \ {0} /\ Height \in Nat \ {0} BY ScreenFacts
<1>2. At(x, y) = (Pitch * y) + x BY DEF At, BufferLine
<1>3. At(x, y) \in Nat /\ At(x, y) % Pitch = x /\ At(x, y) \div Pitch = y
  <2>1. PICK d \in Nat \ {0} : d = Pitch BY <1>1
  <2>2. PICK q \in Nat : q = y OBVIOUS
  <2>3. PICK r \in 0 .. d - 1 : r = x BY <2>1
  <2>4. At(x, y) = (d * q) + r BY <1>2, <2>1, <2>2, <2>3
  <2>5. ((d * q) + r) \in Nat /\ ((d * q) + r) \div d = q /\ ((d * q) + r) % d = r BY QuotientIs
  <2> QED BY <2>1, <2>2, <2>3, <2>4, <2>5
<1>4. Pitch * y \in Int /\ Pitch * Height \in Int /\ (Pitch * y) + Pitch <= Pitch * Height BY <1>1, MultiplesApart
<1>5. At(x, y) < Pitch * Height BY <1>1, <1>2, <1>4
<1> QED BY <1>1, <1>3, <1>4, <1>5 DEF Frame

-----------------------------------------------------------------------------
Spots == (0 .. Columns - 1) \X Nat
Marks == UNION {[D -> Nat \ {0}] : D \in SUBSET Spots}
Pixels == {Blank} \cup {Pixel(c, i, j) : c \in Nat, i \in Nat, j \in Nat}
Papers == [marks : Marks, x : 0 .. Columns - 1, y : Nat]
Screens == [frame : [Frame -> Pixels], x : 0 .. Columns - 1, y : 0 .. Rows - 1]

\* The spot of the paper that a pixel shows, when `top` rows have scrolled away.
Spot(top, a) == <<(a % Pitch) \div GlyphWidth, top + ((a \div Pitch) \div GlyphHeight)>>
Seen(m, top, a) ==
  IF Spot(top, a) \in DOMAIN m
  THEN Pixel(m[Spot(top, a)], (a % Pitch) % GlyphWidth, (a \div Pitch) % GlyphHeight)
  ELSE Blank
LastRow(n) == IF n <= Rows - 1 THEN n ELSE Rows - 1
FrameShows(f, m, n) ==
  /\ f \in [Frame -> Pixels] /\ m \in Marks /\ n \in Nat
  /\ \A q \in DOMAIN m : q[2] <= n
  /\ \A a \in Frame : f[a] = Seen(m, n - LastRow(n), a)

\* Marks on the paper are characters, in columns.
LEMMA MarksFacts ==
  ASSUME NEW m \in Marks
  PROVE  DOMAIN m \subseteq Spots /\ m \in [DOMAIN m -> Nat \ {0}]
<1>1. PICK D \in SUBSET Spots : m \in [D -> Nat \ {0}] BY DEF Marks
<1> QED BY <1>1

\* One mark more, or another one in its place.
LEMMA MoreMarks ==
  ASSUME NEW m \in Marks, NEW q \in Spots, NEW c \in Nat \ {0}
  PROVE  [r \in DOMAIN m \cup {q} |-> IF r = q THEN c ELSE m[r]] \in Marks
<1>1. DOMAIN m \subseteq Spots /\ m \in [DOMAIN m -> Nat \ {0}] BY MarksFacts
<1>2. DOMAIN m \cup {q} \in SUBSET Spots BY <1>1
<1>3. [r \in DOMAIN m \cup {q} |-> IF r = q THEN c ELSE m[r]] \in [DOMAIN m \cup {q} -> Nat \ {0}] BY <1>1
<1> QED BY <1>2, <1>3 DEF Marks

\* The row of the cursor, and that of the next line.
LEMMA LastRowFacts ==
  ASSUME NEW n \in Nat
  PROVE  /\ LastRow(n) \in 0 .. Rows - 1 /\ n - LastRow(n) \in Nat
         /\ LastRow(n) + 1 = Rows => LastRow(n + 1) = LastRow(n)
         /\ LastRow(n) + 1 # Rows => LastRow(n + 1) = LastRow(n) + 1 /\ LastRow(n) = n
<1>1. Rows \in Nat \ {0} BY ScreenFacts
<1> QED BY <1>1 DEF LastRow

\* The cells of a pixel.
LEMMA PixelFacts ==
  ASSUME NEW a \in Frame
  PROVE  /\ a % Pitch \in Nat /\ a \div Pitch \in Nat
         /\ (a % Pitch) \div GlyphWidth \in Nat /\ (a % Pitch) % GlyphWidth \in Nat
         /\ (a \div Pitch) \div GlyphHeight \in Nat /\ (a \div Pitch) % GlyphHeight \in Nat
<1>1. a % Pitch \in Nat /\ a \div Pitch \in Nat
  <2>1. Pitch \in Nat \ {0} /\ Height \in Nat \ {0} BY ScreenFacts
  <2> QED BY <2>1, FrameFacts
<1>2. GlyphWidth \in Nat \ {0} /\ GlyphHeight \in Nat \ {0} BY ScreenFacts
<1>3. ASSUME NEW n \in Nat, NEW d \in Nat \ {0} PROVE n \div d \in Nat /\ n % d \in Nat BY Divided
<1>4. (a % Pitch) \div GlyphWidth \in Nat /\ (a % Pitch) % GlyphWidth \in Nat BY <1>1, <1>2, <1>3, Zenon
<1>5. (a \div Pitch) \div GlyphHeight \in Nat /\ (a \div Pitch) % GlyphHeight \in Nat BY <1>1, <1>2, <1>3, Zenon
<1> QED BY <1>1, <1>4, <1>5

\* What is seen of the paper is a pixel.
LEMMA SeenFacts ==
  ASSUME NEW m \in Marks, NEW top \in Nat, NEW a \in Frame
  PROVE  Seen(m, top, a) \in Pixels
<1>1. m \in [DOMAIN m -> Nat \ {0}] BY MarksFacts
<1> QED BY <1>1, PixelFacts DEF Seen, Pixels

\* A cell does not reach beyond what all of them take.
LEMMA GlyphFits ==
  ASSUME NEW d \in Nat \ {0}, NEW n \in Nat \ {0}, NEW k \in Nat \ {0}, n * d <= k, NEW z \in 0 .. n - 1
  PROVE  d <= k - (z * d)
<1>1. z * d \in Nat /\ z * d = d * z /\ n * d = d * n /\ n * d \in Nat OBVIOUS
<1>2. d * z + d <= d * n BY MultiplesApart
<1> QED BY <1>1, <1>2

\* A glyph fills its cell, and nothing else.
GlyphAt(f, c, x, y) == DrawText(f, c, x * GlyphWidth, y * GlyphHeight)

GlyphPixel(f, c, x, y, a) ==
  IF (a % Pitch) \div GlyphWidth = x /\ (a \div Pitch) \div GlyphHeight = y
  THEN Pixel(c, (a % Pitch) % GlyphWidth, (a \div Pitch) % GlyphHeight)
  ELSE f[a]

\* What draw_text does to each pixel.
LEMMA DrawnIs ==
  ASSUME NEW f, NEW c \in Nat \ {0}, NEW x \in 0 .. Columns - 1, NEW y \in 0 .. Rows - 1, NEW a \in Frame
  PROVE  GlyphAt(f, c, x, y)[a] = GlyphPixel(f, c, x, y, a)
<1> DEFINE i == a % Pitch
           j == a \div Pitch
<1>1. i \in Nat /\ j \in Nat BY PixelFacts
<1>2. {GlyphWidth, GlyphHeight, Width, Height, Columns, Rows} \subseteq Nat \ {0} BY ScreenFacts
<1>4. x * GlyphWidth \in Nat /\ Min({Width - (x * GlyphWidth), GlyphWidth}) = GlyphWidth
  <2>1. {GlyphWidth, Columns, Width} \subseteq Nat \ {0} /\ Columns * GlyphWidth <= Width BY ScreenFacts
  <2>2. PICK w \in Nat : w = x * GlyphWidth BY <2>1
  <2>3. PICK e \in Int : e = Width - w BY <2>1
  <2>4. GlyphWidth <= e
    <3>1. GlyphWidth <= Width - (x * GlyphWidth) BY <2>1, GlyphFits, Zenon
    <3> QED BY <2>2, <2>3, <3>1
  <2>5. Min({e, GlyphWidth}) = GlyphWidth BY <2>1, <2>4, LeastOfTwo
  <2> QED BY <2>2, <2>3, <2>5
<1>5. y * GlyphHeight \in Nat /\ Min({Height - (y * GlyphHeight), GlyphHeight}) = GlyphHeight
  <2>1. {GlyphHeight, Rows, Height} \subseteq Nat \ {0} /\ Rows * GlyphHeight <= Height BY ScreenFacts
  <2>2. PICK w \in Nat : w = y * GlyphHeight BY <2>1
  <2>3. PICK e \in Int : e = Height - w BY <2>1
  <2>4. GlyphHeight <= e
    <3>1. GlyphHeight <= Height - (y * GlyphHeight) BY <2>1, GlyphFits, Zenon
    <3> QED BY <2>2, <2>3, <3>1
  <2>5. Min({e, GlyphHeight}) = GlyphHeight BY <2>1, <2>4, LeastOfTwo
  <2> QED BY <2>2, <2>3, <2>5
<1>6. GlyphAt(f, c, x, y)[a] =
        IF i - (x * GlyphWidth) \in 0 .. GlyphWidth - 1 /\ j - (y * GlyphHeight) \in 0 .. GlyphHeight - 1
        THEN Pixel(c, i - (x * GlyphWidth), j - (y * GlyphHeight)) ELSE f[a]
  BY <1>4, <1>5 DEF DrawText, GlyphAt
<1>7. /\ i - (x * GlyphWidth) \in 0 .. GlyphWidth - 1 <=> i \div GlyphWidth = x
      /\ i \div GlyphWidth = x => i % GlyphWidth = i - (x * GlyphWidth)
  <2>1. GlyphWidth \in Nat \ {0} /\ x \in Nat BY <1>2
  <2> HIDE DEF i
  <2> QED BY <1>1, <2>1, CellIs, Zenon
<1>8. /\ j - (y * GlyphHeight) \in 0 .. GlyphHeight - 1 <=> j \div GlyphHeight = y
      /\ j \div GlyphHeight = y => j % GlyphHeight = j - (y * GlyphHeight)
  <2>1. GlyphHeight \in Nat \ {0} /\ y \in Nat BY <1>2
  <2> HIDE DEF j
  <2> QED BY <1>1, <2>1, CellIs, Zenon
<1> QED BY <1>6, <1>7, <1>8 DEF GlyphPixel

\* Beside the last column, and below the last row but one.
LEMMA Beyond ==
  ASSUME NEW d \in Nat \ {0}, NEW n \in Nat, NEW k \in Nat, n * d <= k
  PROVE  k \div d \in Nat /\ n <= k \div d
<1>1. PICK b \in Nat : b = k \div d BY Divided
<1>2. PICK r \in 0 .. d - 1 : r = k % d BY Divided
<1>3. k = (d * b) + r BY <1>1, <1>2, Divided
<1>4. ~(b < n)
  <2>1. SUFFICES ASSUME b < n PROVE FALSE OBVIOUS
  <2>2. d * b + d <= d * n /\ d * b \in Int /\ d * n \in Int BY <2>1, MultiplesApart
  <2>3. d * n = n * d OBVIOUS
  <2> QED BY <1>2, <1>3, <2>2, <2>3
<1> QED BY <1>1, <1>4

\* Beside the screen there is no column.
LEMMA BeyondCells ==
  ASSUME NEW i \in Nat, i >= Width
  PROVE  i \div GlyphWidth >= Columns
<1>1. {GlyphWidth, Columns, Width} \subseteq Nat \ {0} /\ Columns * GlyphWidth <= Width BY ScreenFacts
<1>2. PICK w \in Nat : w = Columns * GlyphWidth BY <1>1
<1>3. w <= i BY <1>1, <1>2
<1>4. Columns * GlyphWidth <= i BY <1>2, <1>3
<1>5. i \div GlyphWidth \in Nat /\ Columns <= i \div GlyphWidth BY <1>1, <1>4, Beyond, Zenon
<1> QED BY <1>1, <1>5

\* The lines that scrolling clears lie in the last row, or below it.
LEMMA BeyondRows ==
  ASSUME NEW j \in Nat, ~(j < Height - GlyphHeight)
  PROVE  j \div GlyphHeight >= Rows - 1
<1>1. {GlyphHeight, Rows, Height} \subseteq Nat \ {0} /\ Rows * GlyphHeight <= Height BY ScreenFacts
<1>2. PICK r \in Nat : r = Rows - 1 BY <1>1
<1>3. Rows * GlyphHeight = (r * GlyphHeight) + GlyphHeight /\ r * GlyphHeight \in Nat BY <1>1, <1>2
<1>4. PICK w \in Nat : w = r * GlyphHeight BY <1>3
<1>5. w <= j BY <1>1, <1>3, <1>4
<1>6. r * GlyphHeight <= j BY <1>4, <1>5
<1>7. GlyphHeight \in Nat \ {0} BY <1>1
<1>8. j \div GlyphHeight \in Nat /\ r <= j \div GlyphHeight BY <1>6, <1>7, Beyond, Zenon
<1> QED BY <1>2, <1>8

\* A row down is the same line of a glyph.
LEMMA RowBelow ==
  ASSUME NEW j \in Nat
  PROVE  /\ (j + GlyphHeight) \div GlyphHeight = (j \div GlyphHeight) + 1
         /\ (j + GlyphHeight) % GlyphHeight = j % GlyphHeight
<1>1. PICK d \in Nat \ {0} : d = GlyphHeight BY ScreenFacts
<1>2. (j + (d * 1)) \div d = (j \div d) + 1 /\ (j + (d * 1)) % d = j % d BY NextCell
<1>3. d * 1 = d OBVIOUS
<1> QED BY <1>1, <1>2, <1>3

\* What scrolls up comes from the row below.
LEMMA LineBelow ==
  ASSUME NEW a \in Frame, a \div Pitch < Height - GlyphHeight
  PROVE  LET b == a + BufferLine(GlyphHeight)
         IN b \in Frame /\ b % Pitch = a % Pitch /\ b \div Pitch = (a \div Pitch) + GlyphHeight
<1>1. PICK d \in Nat \ {0} : d = Pitch BY ScreenFacts
<1>2. PICK q \in Nat : q = GlyphHeight BY ScreenFacts
<1>3. a \in Nat /\ a % d \in 0 .. Pitch - 1 /\ a \div d \in Nat BY <1>1, FrameFacts, PixelFacts
<1>4. (a + (d * q)) \div d = (a \div d) + q /\ (a + (d * q)) % d = a % d BY <1>3, NextCell
<1>5. PICK b : b = a + (d * q) OBVIOUS
<1>6. b = a + BufferLine(GlyphHeight) BY <1>1, <1>2, <1>5 DEF BufferLine
<1>7. b % Pitch = a % Pitch /\ b \div Pitch = (a \div Pitch) + GlyphHeight BY <1>1, <1>2, <1>4, <1>5
<1>8. b \in Frame
  <2>1. b \in Nat
    <3>1. d * q \in Nat OBVIOUS
    <3> QED BY <1>3, <1>5, <3>1
  <2>2. PICK y \in 0 .. Height - 1 : y = b \div d
    <3>1. Height \in Nat BY ScreenFacts
    <3>2. PICK k \in Nat : k = a \div d BY <1>3
    <3>3. k + q \in 0 .. Height - 1 BY <1>1, <1>2, <3>1, <3>2
    <3> QED BY <1>4, <1>5, <3>2, <3>3
  <2>3. PICK x \in 0 .. Pitch - 1 : x = b % d BY <1>1, <1>3, <1>4, <1>5
  <2>4. b = (d * y) + x BY <2>1, <2>2, <2>3, Divided
  <2>5. b = At(x, y) BY <1>1, <2>4 DEF At, BufferLine
  <2> QED BY <2>5, PlaceIs
<1> QED BY <1>6, <1>7, <1>8

\* What is drawn lands on one spot of the paper.
LEMMA DrawShows ==
  ASSUME NEW f, NEW m, NEW n, FrameShows(f, m, n), NEW c \in Nat \ {0}, NEW x \in 0 .. Columns - 1
  PROVE  FrameShows(GlyphAt(f, c, x, LastRow(n)),
                    [q \in DOMAIN m \cup {<<x, n>>} |-> IF q = <<x, n>> THEN c ELSE m[q]], n)
<1> DEFINE g == GlyphAt(f, c, x, LastRow(n))
           l == [q \in DOMAIN m \cup {<<x, n>>} |-> IF q = <<x, n>> THEN c ELSE m[q]]
           top == n - LastRow(n)
<1>1. m \in Marks /\ n \in Nat /\ <<x, n>> \in Spots BY DEF FrameShows, Spots
<1>2. l \in Marks BY <1>1, MoreMarks
<1>3. LastRow(n) \in 0 .. Rows - 1 /\ top \in Nat BY <1>1, LastRowFacts
<1>4. \A q \in DOMAIN l : q[2] <= n
  <2>1. \A q \in DOMAIN m : q[2] <= n BY DEF FrameShows
  <2> QED BY <1>1, <2>1
<1>5. ASSUME NEW a \in Frame PROVE g[a] = Seen(l, top, a)
  <2> DEFINE i == (a % Pitch) \div GlyphWidth
             j == (a \div Pitch) \div GlyphHeight
             p == Pixel(c, (a % Pitch) % GlyphWidth, (a \div Pitch) % GlyphHeight)
  <2>1. g[a] = IF i = x /\ j = LastRow(n) THEN p ELSE f[a]
    <3>1. PICK y \in 0 .. Rows - 1 : y = LastRow(n) BY <1>3
    <3>2. GlyphAt(f, c, x, y)[a] = GlyphPixel(f, c, x, y, a) BY DrawnIs
    <3> QED BY <3>1, <3>2 DEF GlyphPixel
  <2>2. f[a] = Seen(m, top, a) BY DEF FrameShows
  <2>3. Spot(top, a) = <<i, top + j>> BY DEF Spot
  <2>4. j \in Nat /\ i \in Nat BY PixelFacts
  <2>5. Spot(top, a) = <<x, n>> <=> i = x /\ j = LastRow(n)
    <3> HIDE DEF i, j
    <3>1. top + j = n <=> j = LastRow(n) BY <1>1, <1>3, <2>4
    <3> HIDE DEF top
    <3> QED BY <2>3, <3>1
  <2>6. CASE Spot(top, a) = <<x, n>>
    <3>1. l[Spot(top, a)] = c /\ Spot(top, a) \in DOMAIN l BY <2>6
    <3>2. Seen(l, top, a) = p BY <3>1 DEF Seen
    <3> QED BY <2>1, <2>5, <2>6, <3>2
  <2>7. CASE Spot(top, a) # <<x, n>>
    <3>1. Spot(top, a) \in DOMAIN l <=> Spot(top, a) \in DOMAIN m BY <2>7
    <3>2. Spot(top, a) \in DOMAIN l => l[Spot(top, a)] = m[Spot(top, a)] BY <2>7
    <3>3. Seen(l, top, a) = Seen(m, top, a) BY <3>1, <3>2 DEF Seen
    <3> QED BY <2>1, <2>2, <2>5, <2>7, <3>3
  <2> QED BY <2>6, <2>7
<1>6. g \in [Frame -> Pixels]
  <2>1. g = [a \in Frame |-> g[a]] BY DEF GlyphAt, DrawText
  <2>2. \A a \in Frame : g[a] \in Pixels BY <1>2, <1>3, <1>5, SeenFacts
  <2> HIDE DEF g
  <2> QED BY <2>1, <2>2
<1>7. FrameShows(g, l, n)
  <2> HIDE DEF g, l
  <2> QED BY <1>1, <1>2, <1>4, <1>5, <1>6 DEF FrameShows
<1> QED BY <1>7

\* A line further, and the frame as many rows as that takes.
Further(f, n) == IF LastRow(n) + 1 = Rows THEN ScrollUp(f, GlyphHeight) ELSE f

\* A new line scrolls if it has to.
LEMMA FurtherShows ==
  ASSUME NEW f, NEW m, NEW n, FrameShows(f, m, n)
  PROVE  FrameShows(Further(f, n), m, n + 1)
<1> DEFINE top == n - LastRow(n)
<1>1. m \in Marks /\ n \in Nat /\ n + 1 \in Nat BY DEF FrameShows
<1>2. Rows \in Nat \ {0} /\ LastRow(n) \in 0 .. Rows - 1 /\ top \in Nat BY <1>1, LastRowFacts, ScreenFacts
<1>3. DOMAIN m \subseteq Spots /\ \A q \in DOMAIN m : q[2] <= n /\ q[2] <= n + 1
  <2>1. DOMAIN m \subseteq Spots BY <1>1, MarksFacts
  <2>2. \A q \in DOMAIN m : q[2] <= n /\ q[2] \in Nat BY <2>1 DEF FrameShows, Spots
  <2> QED BY <1>1, <2>1, <2>2
<1>4. CASE LastRow(n) + 1 # Rows
  <2>1. Further(f, n) = f BY <1>4 DEF Further
  <2>2. (n + 1) - LastRow(n + 1) = n - LastRow(n)
    <3>1. LastRow(n + 1) = LastRow(n) + 1 BY <1>1, <1>4, LastRowFacts
    <3> QED BY <1>1, <1>2, <3>1
  <2> QED BY <1>1, <1>3, <2>1, <2>2 DEF FrameShows
<1>5. CASE LastRow(n) + 1 = Rows
  <2> DEFINE g == ScrollUp(f, GlyphHeight)
  <2>1. Further(f, n) = g BY <1>5 DEF Further
  <2>2. (n + 1) - LastRow(n + 1) = top + 1
    <3>1. LastRow(n + 1) = LastRow(n) BY <1>1, <1>5, LastRowFacts
    <3> QED BY <1>1, <1>2, <3>1
  <2>3. ASSUME NEW a \in Frame PROVE g[a] = Seen(m, top + 1, a)
    <3> DEFINE i == a % Pitch
               j == a \div Pitch
    <3>1. i \in Nat /\ j \in Nat /\ i \div GlyphWidth \in Nat /\ j \div GlyphHeight \in Nat BY PixelFacts
    <3>2. f[a] = Seen(m, top, a) BY DEF FrameShows
    <3>3. Spot(top, a) = <<i \div GlyphWidth, top + (j \div GlyphHeight)>>
          /\ Spot(top + 1, a) = <<i \div GlyphWidth, top + 1 + (j \div GlyphHeight)>> BY DEF Spot
    <3>4. g[a] = IF i >= Width THEN f[a] ELSE IF j < Height - GlyphHeight THEN f[a + BufferLine(GlyphHeight)] ELSE Blank
      BY DEF ScrollUp
    <3>5. CASE i >= Width
      <4>1. i \div GlyphWidth >= Columns BY <3>1, <3>5, BeyondCells
      <4>2. Spot(top, a) \notin Spots /\ Spot(top + 1, a) \notin Spots
        <5>1. Columns \in Nat BY ScreenFacts
        <5>2. i \div GlyphWidth \notin 0 .. Columns - 1 BY <3>1, <4>1, <5>1
        <5> QED BY <3>3, <5>2 DEF Spots
      <4>3. Seen(m, top, a) = Blank /\ Seen(m, top + 1, a) = Blank BY <1>3, <4>2 DEF Seen
      <4> QED BY <3>2, <3>4, <3>5, <4>3
    <3>6. CASE i < Width /\ j < Height - GlyphHeight
      <4> DEFINE b == a + BufferLine(GlyphHeight)
      <4>1. b \in Frame /\ b % Pitch = i /\ b \div Pitch = j + GlyphHeight BY <3>6, LineBelow
      <4>2. (j + GlyphHeight) \div GlyphHeight = (j \div GlyphHeight) + 1 /\ (j + GlyphHeight) % GlyphHeight = j % GlyphHeight
        BY <3>1, RowBelow
      <4>3. f[b] = Seen(m, top, b) BY <4>1 DEF FrameShows
      <4>4. Spot(top, b) = Spot(top + 1, a)
        <5>1. PICK k \in Nat : k = j \div GlyphHeight BY <3>1
        <5>2. top + (k + 1) = top + 1 + k BY <1>2, <5>1
        <5>3. Spot(top, b) = <<i \div GlyphWidth, top + ((j \div GlyphHeight) + 1)>> BY <4>1, <4>2 DEF Spot
        <5> HIDE DEF top, i, j
        <5> QED BY <3>3, <5>1, <5>2, <5>3
      <4>5. Seen(m, top, b) = Seen(m, top + 1, a)
        <5> HIDE DEF top, b
        <5> QED BY <4>1, <4>2, <4>4 DEF Seen
      <4>6. g[a] = f[b]
        <5>1. ~(i >= Width)
          <6>1. Width \in Nat BY ScreenFacts
          <6> HIDE DEF i
          <6> QED BY <3>1, <3>6, <6>1
        <5> QED BY <3>4, <3>6, <5>1
      <4> HIDE DEF b, g, top
      <4> QED BY <4>3, <4>5, <4>6
    <3>7. CASE i < Width /\ ~(j < Height - GlyphHeight)
      <4>1. j \div GlyphHeight >= Rows - 1 BY <3>1, <3>7, BeyondRows
      <4>2. Spot(top + 1, a) \notin DOMAIN m
        <5>1. PICK k \in Nat : k = j \div GlyphHeight BY <3>1
        <5>2. ~(top + 1 + k <= n) BY <1>1, <1>2, <1>5, <4>1, <5>1
        <5>3. Spot(top + 1, a)[2] = top + 1 + k BY <3>3, <5>1
        <5> QED BY <1>3, <5>2, <5>3
      <4>3. Seen(m, top + 1, a) = Blank BY <4>2 DEF Seen
      <4>4. g[a] = Blank
        <5>1. ~(i >= Width)
          <6>1. Width \in Nat BY ScreenFacts
          <6> HIDE DEF i
          <6> QED BY <3>1, <3>7, <6>1
        <5> QED BY <3>4, <3>7, <5>1
      <4> QED BY <4>3, <4>4
    <3>8. i >= Width \/ i < Width
      <4>1. Width \in Nat BY ScreenFacts
      <4> HIDE DEF i
      <4> QED BY <3>1, <4>1
    <3> QED BY <3>5, <3>6, <3>7, <3>8
  <2>4. g \in [Frame -> Pixels]
    <3>1. g = [a \in Frame |-> g[a]] BY DEF ScrollUp
    <3>2. \A a \in Frame : g[a] \in Pixels
      <4>1. TAKE a \in Frame
      <4>2. Seen(m, top + 1, a) \in Pixels BY <1>1, <1>2, SeenFacts
      <4> QED BY <2>3, <4>2
    <3> HIDE DEF g
    <3> QED BY <3>1, <3>2
  <2> HIDE DEF g, top
  <2> QED BY <1>1, <1>3, <2>1, <2>2, <2>3, <2>4 DEF FrameShows
<1> QED BY <1>4, <1>5

\* A character, on the screen and on paper.
Shown(s, p) ==
  /\ s \in Screens /\ p \in Papers
  /\ s.x = p.x /\ s.y = LastRow(p.y)
  /\ FrameShows(s.frame, p.marks, p.y)

\* The end of a row.
LEMMA NextRowIs ==
  ASSUME NEW f, NEW x, NEW n \in Nat
  PROVE  NextRow([frame |-> f, x |-> x, y |-> LastRow(n)])
           = [frame |-> Further(f, n), x |-> 0, y |-> LastRow(n + 1)]
<1>1. LastRow(n) + 1 = Rows => LastRow(n + 1) = LastRow(n) BY LastRowFacts
<1>2. LastRow(n) + 1 # Rows => LastRow(n + 1) = LastRow(n) + 1 BY LastRowFacts
<1> QED BY <1>1, <1>2 DEF NextRow, Further

\* One character, of a console and a paper in their parts.
LEMMA CharShows ==
  ASSUME NEW f, NEW m, NEW x \in 0 .. Columns - 1, NEW n \in Nat, FrameShows(f, m, n), NEW c \in Nat \ {0},
         NEW s, s = [frame |-> f, x |-> x, y |-> LastRow(n)], NEW p, p = [marks |-> m, x |-> x, y |-> n]
  PROVE  Shown(PutChar(s, c), PutDown(p, c))
<1>1. Columns \in Nat \ {0} /\ n + 1 \in Nat BY ScreenFacts
<1>4. ASSUME NEW g, NEW l, NEW z \in 0 .. Columns - 1, NEW k \in Nat, FrameShows(g, l, k)
      PROVE  Shown([frame |-> g, x |-> z, y |-> LastRow(k)], [marks |-> l, x |-> z, y |-> k])
  <2>1. LastRow(k) \in 0 .. Rows - 1 BY LastRowFacts
  <2>2. g \in [Frame -> Pixels] /\ l \in Marks BY <1>4 DEF FrameShows
  <2> QED BY <1>4, <2>1, <2>2 DEF Shown, Screens, Papers
<1>5. NewLine # BackSpace BY DEF NewLine, BackSpace
<1>6. CASE c = BackSpace
  <2> DEFINE z == IF x > 0 THEN x - 1 ELSE x
  <2>1. z \in 0 .. Columns - 1 /\ z = (IF x = 0 THEN 0 ELSE x - 1) BY <1>1
  <2>2. PutChar(s, c) = [frame |-> f, x |-> z, y |-> LastRow(n)]
    <3>1. SetChar(s, 0) = s BY DEF SetChar, DrawText
    <3>2. PutChar(s, c) = [s EXCEPT !.x = IF @ > 0 THEN @ - 1 ELSE @] BY <1>5, <1>6, <3>1 DEF PutChar
    <3> QED BY <3>2
  <2>3. PutDown(p, c) = [marks |-> m, x |-> z, y |-> n]
    <3>1. PutDown(p, c) = [p EXCEPT !.x = IF @ = 0 THEN 0 ELSE @ - 1] BY <1>5, <1>6 DEF PutDown
    <3> QED BY <2>1, <3>1
  <2> HIDE DEF z
  <2> QED BY <1>1, <1>4, <2>1, <2>2, <2>3
<1>7. CASE c = NewLine
  <2>1. PutChar(s, c) = [frame |-> Further(f, n), x |-> 0, y |-> LastRow(n + 1)]
    <3>1. PutChar(s, c) = NextRow(s) BY <1>5, <1>7 DEF PutChar
    <3> QED BY <3>1, NextRowIs
  <2>2. PutDown(p, c) = [marks |-> m, x |-> 0, y |-> n + 1]
    <3>1. PutDown(p, c) = [p EXCEPT !.x = 0, !.y = @ + 1] BY <1>5, <1>7 DEF PutDown
    <3> QED BY <3>1
  <2>3. FrameShows(Further(f, n), m, n + 1) BY <1>1, FurtherShows
  <2>4. 0 \in 0 .. Columns - 1 BY <1>1
  <2> QED BY <1>1, <1>4, <2>1, <2>2, <2>3, <2>4
<1>8. CASE c # BackSpace /\ c # NewLine
  <2> DEFINE g == GlyphAt(f, c, x, LastRow(n))
             l == [q \in DOMAIN m \cup {<<x, n>>} |-> IF q = <<x, n>> THEN c ELSE m[q]]
             d == [frame |-> g, x |-> x + 1, y |-> LastRow(n)]
  <2>1. FrameShows(g, l, n) BY <1>1, DrawShows
  <2>2. PutChar(s, c) = IF x + 1 = Columns THEN NextRow(d) ELSE d
    <3>1. [SetChar(s, c) EXCEPT !.x = @ + 1] = d
      <4>1. s.x = x /\ s.y = LastRow(n) /\ s.frame = f OBVIOUS
      <4>2. SetChar(s, c) = [s EXCEPT !.frame = g] BY <4>1 DEF SetChar, GlyphAt
      <4> HIDE DEF g
      <4> QED BY <4>2
    <3>2. d.x = x + 1 OBVIOUS
    <3> HIDE DEF d
    <3> QED BY <1>8, <3>1, <3>2 DEF PutChar
  <2>3. PutDown(p, c) = [marks |-> l, x |-> IF x + 1 = Columns THEN 0 ELSE x + 1, y |-> IF x + 1 = Columns THEN n + 1 ELSE n]
    BY <1>8 DEF PutDown
  <2>4. CASE x + 1 = Columns
    <3>1. PutChar(s, c) = [frame |-> Further(g, n), x |-> 0, y |-> LastRow(n + 1)]
      <4> HIDE DEF g
      <4>1. NextRow(d) = [frame |-> Further(g, n), x |-> 0, y |-> LastRow(n + 1)] BY <1>1, NextRowIs
      <4> QED BY <2>2, <2>4, <4>1
    <3>2. PutDown(p, c) = [marks |-> l, x |-> 0, y |-> n + 1] BY <2>3, <2>4
    <3>3. FrameShows(Further(g, n), l, n + 1)
      <4> HIDE DEF g, l
      <4> QED BY <2>1, FurtherShows
    <3>4. 0 \in 0 .. Columns - 1 BY <1>1
    <3> HIDE DEF g, l
    <3> QED BY <1>1, <1>4, <3>1, <3>2, <3>3, <3>4
  <2>5. CASE x + 1 # Columns
    <3> DEFINE z == x + 1
    <3>1. z \in 0 .. Columns - 1 BY <1>1, <2>5
    <3>2. PutChar(s, c) = [frame |-> g, x |-> z, y |-> LastRow(n)] BY <2>2, <2>5
    <3>3. PutDown(p, c) = [marks |-> l, x |-> z, y |-> n] BY <2>3, <2>5
    <3> HIDE DEF g, l, z
    <3> QED BY <1>1, <1>4, <2>1, <3>1, <3>2, <3>3
  <2> QED BY <2>4, <2>5
<1> QED BY <1>6, <1>7, <1>8

\* One character, on the screen and on the paper.
LEMMA PutCharShows ==
  ASSUME NEW s, NEW p, Shown(s, p), NEW c \in Nat \ {0}
  PROVE  Shown(PutChar(s, c), PutDown(p, c))
<1>1. p.x \in 0 .. Columns - 1 /\ p.y \in Nat /\ FrameShows(s.frame, p.marks, p.y) BY DEF Shown, Papers
<1>2. s = [frame |-> s.frame, x |-> p.x, y |-> LastRow(p.y)] BY DEF Shown, Screens
<1>3. p = [marks |-> p.marks, x |-> p.x, y |-> p.y] BY DEF Shown, Papers
<1>4. PICK f, m, x, n : f = s.frame /\ m = p.marks /\ x = p.x /\ n = p.y OBVIOUS
<1> QED BY <1>1, <1>2, <1>3, <1>4, CharShows

\* A text.
LEMMA TextShows ==
  ASSUME NEW s, NEW p, Shown(s, p), NEW t \in Seq(Nat \ {0})
  PROVE  Shown(PrintText(s, t), PenAfter(p, t))
<1> DEFINE n == Len(t)
           Turning(f) == [i \in 0 .. n |-> IF i = 0 THEN s ELSE PutChar(f[i - 1], t[i])]
           Pen(g) == [i \in 0 .. n |-> IF i = 0 THEN p ELSE PutDown(g[i - 1], t[i])]
           Both == {y \in Screens \X Papers : Shown(y[1], y[2])}
           step == [i \in 1 .. n |-> [y \in Both |-> <<PutChar(y[1], t[i]), PutDown(y[2], t[i])>>]]
<1>1. n \in Nat /\ \A i \in 1 .. n : t[i] \in Nat \ {0} OBVIOUS
<1>2. PrintText(s, t) = (CHOOSE f : f = Turning(f))[n] BY DEF PrintText
<1>3. PenAfter(p, t) = (CHOOSE g : g = Pen(g))[n] BY DEF PenAfter
<1>4. \A y \in Both : y[1] \in Screens /\ y[2] \in Papers /\ y = <<y[1], y[2]>> /\ Shown(y[1], y[2]) OBVIOUS
<1>5. \A a, b : Shown(a, b) => <<a, b>> \in Both BY DEF Shown
<1>6. ASSUME NEW i \in 1 .. n, NEW y \in Both
      PROVE  step[i][y] = <<PutChar(y[1], t[i]), PutDown(y[2], t[i])>> /\ step[i][y] \in Both
  <2>1. Shown(PutChar(y[1], t[i]), PutDown(y[2], t[i])) BY <1>1, <1>4, PutCharShows
  <2>2. <<PutChar(y[1], t[i]), PutDown(y[2], t[i])>> \in Both BY <1>5, <2>1
  <2> HIDE DEF Both
  <2> QED BY <2>2
<1> HIDE DEF Both, step
<1>7. StaysIn(Both, step, n) BY <1>6 DEF StaysIn
<1>8. HasTurns(Both, step, n, <<s, p>>) BY <1>1, <1>5, <1>7, TurnsExist
<1>9. PICK h \in [0 .. n -> Both] : h[0] = <<s, p>> /\ \A i \in 1 .. n : h[i] = step[i][h[i - 1]] BY <1>8 DEF HasTurns
<1>10. \A i \in 1 .. n : h[i] = <<PutChar(h[i - 1][1], t[i]), PutDown(h[i - 1][2], t[i])>>
  <2>1. TAKE i \in 1 .. n
  <2>2. h[i - 1] \in Both BY <1>1, <1>9
  <2> QED BY <1>6, <1>9, <2>2
<1>11. Shown((CHOOSE f : f = Turning(f))[n], (CHOOSE g : g = Pen(g))[n])
  <2> DEFINE hf == [i \in 0 .. n |-> h[i][1]]
             hg == [i \in 0 .. n |-> h[i][2]]
  <2>1. hf = Turning(hf)
    <3>1. \A i \in 0 .. n : hf[i] = IF i = 0 THEN s ELSE PutChar(hf[i - 1], t[i])
      <4>1. TAKE i \in 0 .. n
      <4>2. CASE i = 0 BY <1>9, <4>2
      <4>3. CASE i # 0
        <5>1. i \in 1 .. n /\ i - 1 \in 0 .. n BY <1>1, <4>3
        <5> QED BY <1>10, <4>3, <5>1
      <4> QED BY <4>2, <4>3
    <3> QED BY <3>1
  <2>2. hg = Pen(hg)
    <3>1. \A i \in 0 .. n : hg[i] = IF i = 0 THEN p ELSE PutDown(hg[i - 1], t[i])
      <4>1. TAKE i \in 0 .. n
      <4>2. CASE i = 0 BY <1>9, <4>2
      <4>3. CASE i # 0
        <5>1. i \in 1 .. n /\ i - 1 \in 0 .. n BY <1>1, <4>3
        <5> QED BY <1>10, <4>3, <5>1
      <4> QED BY <4>2, <4>3
    <3> QED BY <3>1
  <2> HIDE DEF hf, hg, Turning, Pen
  <2>3. PICK f : f = Turning(f) /\ f = CHOOSE e : e = Turning(e) BY <2>1
  <2>4. PICK g : g = Pen(g) /\ g = CHOOSE e : e = Pen(e) BY <2>2
  <2> DEFINE S == {i \in 0 .. n : Shown(f[i], g[i])}
  <2>5. 0 \in S BY <1>1, <2>3, <2>4 DEF Turning, Pen
  <2>6. ASSUME NEW i \in 1 .. n, i - 1 \in S PROVE i \in S
    <3>1. i \in 0 .. n /\ i # 0 /\ t[i] \in Nat \ {0} BY <1>1
    <3>2. f[i] = PutChar(f[i - 1], t[i]) BY <2>3, <3>1 DEF Turning
    <3>3. g[i] = PutDown(g[i - 1], t[i]) BY <2>4, <3>1 DEF Pen
    <3> QED BY <2>6, <3>1, <3>2, <3>3, PutCharShows
  <2> HIDE DEF S
  <2>7. \A i \in 0 .. n : i \in S BY <1>1, <2>5, <2>6, EveryTurn
  <2>8. n \in 0 .. n BY <1>1
  <2> QED BY <2>3, <2>4, <2>7, <2>8 DEF S
<1> QED BY <1>2, <1>3, <1>11

-----------------------------------------------------------------------------
(***************************************************************************)
(* Characters and their bytes.  A string spells a text if its bytes can be cut*)
(* into the encodings of the characters.                                   *)
(***************************************************************************)

\* A byte that continues a character carries six bits.
LEMMA BitsFacts ==
  ASSUME NEW c \in Nat, NEW p \in Nat \ {0}
  PROVE  Bits(c, p) \in 128 .. 191 /\ Continues(Bits(c, p)) /\ Bits(c, p) % 64 = (c \div p) % 64
<1>1. PICK n \in Nat : n = c \div p BY Divided
<1>2. PICK r \in 0 .. 63 : r = n % 64 BY <1>1
<1>3. Bits(c, p) = 128 + r BY <1>1, <1>2 DEF Bits
<1>4. (128 + r) \div 64 = 2 /\ (128 + r) % 64 = r OBVIOUS
<1> QED BY <1>1, <1>2, <1>3, <1>4 DEF Continues

\* What a character reads as: the value of the bytes b1 .. b4, as operator* has it.
Value(b1, b2, b3, b4) ==
  CASE b1 < 128 -> b1
    [] b1 \in 128 .. 223 -> (b1 % 32) * 64 + (b2 % 64)
    [] b1 \in 224 .. 239 -> (b1 % 16) * 4096 + (b2 % 64) * 64 + (b3 % 64)
    [] OTHER -> (b1 % 8) * 262144 + (b2 % 64) * 4096 + (b3 % 64) * 64 + (b4 % 64)
Byte(e, j) == IF j <= Len(e) THEN e[j] ELSE 0

\* A character is one to four bytes, of which only the first does not continue one, and
\* reads as itself.
IsEncoding(c, e) ==
  /\ e \in Seq(1 .. 255) /\ Len(e) \in 1 .. 4
  /\ ~Continues(e[1]) /\ \A j \in 2 .. Len(e) : Continues(e[j])
  /\ \A b2, b3, b4 :
       Value(e[1], IF Len(e) >= 2 THEN e[2] ELSE b2, IF Len(e) >= 3 THEN e[3] ELSE b3, IF Len(e) = 4 THEN e[4] ELSE b4) = c

\* What push_back writes reads as the character.
LEMMA EncodeIs ==
  ASSUME NEW c \in CodePoints
  PROVE  IsEncoding(c, Encode(c))
<1>1. c \in Nat /\ c >= 1 /\ c <= 1114111
  <2>1. LastCode = 1114111 BY SMT DEF LastCode
  <2>2. LastCode \in Nat BY <2>1, SMT
  <2>3. c \in Nat /\ c >= 1 /\ c <= LastCode BY <2>2, SMT DEF CodePoints
  <2> QED BY <2>1, <2>3, SMT
<1> DEFINE h == c \div 262144
           k == (c \div 4096) % 64
           m == (c \div 64) % 64
           l == c % 64
<1>2. /\ h \in 0 .. 7 /\ k \in 0 .. 63 /\ m \in 0 .. 63 /\ l \in 0 .. 63
      /\ c = 262144 * h + 4096 * k + 64 * m + l
      /\ c \div 64 = 4096 * h + 64 * k + m /\ c \div 4096 = 64 * h + k /\ c \div 1 = c
  <2>1. c < 2097152 BY <1>1, SMT
  <2>2. h \in 0 .. 7 /\ k \in 0 .. 63 /\ m \in 0 .. 63 /\ l \in 0 .. 63 BY <1>1, <2>1, SMT
  <2>3. c = 262144 * h + 4096 * k + 64 * m + l BY <1>1, SMT
  <2>4. c \div 64 = 4096 * h + 64 * k + m /\ c \div 4096 = 64 * h + k /\ c \div 1 = c BY <1>1, SMT
  <2> HIDE DEF h, k, m, l
  <2> QED BY <2>2, <2>3, <2>4, SMT
<1>8. c \div 262144 = h /\ (c \div 4096) % 64 = k /\ (c \div 64) % 64 = m /\ c % 64 = l OBVIOUS
<1> HIDE DEF h, k, m, l
<1>9. c = 262144 * h + 4096 * k + 64 * m + l /\ h \in Nat /\ k \in Nat /\ m \in Nat /\ l \in Nat BY <1>2, SMT
<1>3. /\ Bits(c, 1) \in 128 .. 191 /\ Continues(Bits(c, 1)) /\ Bits(c, 1) % 64 = l
      /\ Bits(c, 64) \in 128 .. 191 /\ Continues(Bits(c, 64)) /\ Bits(c, 64) % 64 = m
      /\ Bits(c, 4096) \in 128 .. 191 /\ Continues(Bits(c, 4096)) /\ Bits(c, 4096) % 64 = k
  <2>1. Bits(c, 1) \in 128 .. 191 /\ Continues(Bits(c, 1)) /\ Bits(c, 1) % 64 = l
    <3>1. Bits(c, 1) \in 128 .. 191 /\ Continues(Bits(c, 1)) /\ Bits(c, 1) % 64 = (c \div 1) % 64 BY <1>1, BitsFacts, SMT
    <3> QED BY <1>2, <1>8, <3>1, SMT
  <2>2. Bits(c, 64) \in 128 .. 191 /\ Continues(Bits(c, 64)) /\ Bits(c, 64) % 64 = m
    <3>1. Bits(c, 64) \in 128 .. 191 /\ Continues(Bits(c, 64)) /\ Bits(c, 64) % 64 = (c \div 64) % 64 BY <1>1, BitsFacts, SMT
    <3> QED BY <1>2, <1>8, <3>1, SMT
  <2>3. Bits(c, 4096) \in 128 .. 191 /\ Continues(Bits(c, 4096)) /\ Bits(c, 4096) % 64 = k
    <3>1. Bits(c, 4096) \in 128 .. 191 /\ Continues(Bits(c, 4096)) /\ Bits(c, 4096) % 64 = (c \div 4096) % 64 BY <1>1, BitsFacts, SMT
    <3> QED BY <1>2, <1>8, <3>1, SMT
  <2> QED BY <2>1, <2>2, <2>3
<1>4. CASE c < 128
  <2>1. Encode(c) = <<c>> BY <1>4, SMT DEF Encode
  <2>2. ~Continues(c) BY <1>1, <1>4, SMT DEF Continues
  <2>3. \A b2, b3, b4 : Value(c, b2, b3, b4) = c BY <1>4, SMT DEF Value
  <2> DEFINE e == <<c>>
  <2>4. e \in Seq(1 .. 255) /\ Len(e) = 1 /\ e[1] = c BY <1>1, <1>4, SMT
  <2> HIDE DEF e
  <2>5. IsEncoding(c, e) BY <2>2, <2>3, <2>4, SMT DEF IsEncoding
  <2> QED BY <2>1, <2>5 DEF e
<1>5. CASE ~(c < 128) /\ c < 2048
  <2> DEFINE v == 192 + c \div 64
             x == Bits(c, 1)
             e == <<v, x>>
  <2>1. Encode(c) = e BY <1>1, <1>5, SMT DEF Encode
  <2>2. v \in 194 .. 223 /\ v % 32 = 64 * k + m /\ h = 0 BY <1>1, <1>2, <1>5, <1>8, SMT
  <2>3. ~Continues(v) BY <2>2, SMT DEF Continues
  <2> HIDE DEF v, x
  <2>4. \A b3, b4 : Value(v, x, b3, b4) = c
    <3>1. \A b3, b4 : Value(v, x, b3, b4) = (v % 32) * 64 + (x % 64) BY <2>2, SMT DEF Value
    <3>2. (v % 32) * 64 + (x % 64) = c BY <1>3, <1>9, <2>2, SMT DEF x
    <3> QED BY <3>1, <3>2, SMT
  <2>5. e \in Seq(1 .. 255) /\ Len(e) = 2 /\ e[1] = v /\ e[2] = x
    <3>1. v \in 1 .. 255 BY <2>2, SMT
    <3>2. x \in 1 .. 255 BY <1>3, SMT DEF x
    <3> QED BY <3>1, <3>2
  <2>6. Continues(x) BY <1>3 DEF x
  <2> HIDE DEF e
  <2>7. IsEncoding(c, e) BY <2>3, <2>4, <2>5, <2>6, SMT DEF IsEncoding
  <2> QED BY <2>1, <2>7
<1>6. CASE ~(c < 2048) /\ c < 65536
  <2> DEFINE v == 224 + c \div 4096
             x == Bits(c, 64)
             y == Bits(c, 1)
             e == <<v, x, y>>
  <2>1. Encode(c) = e BY <1>1, <1>6, SMT DEF Encode
  <2>2. v \in 224 .. 239 /\ v % 16 = k /\ h = 0 BY <1>1, <1>2, <1>6, <1>8, SMT
  <2>3. ~Continues(v) BY <2>2, SMT DEF Continues
  <2> HIDE DEF v, x, y
  <2>4. \A b4 : Value(v, x, y, b4) = c
    <3>1. \A b4 : Value(v, x, y, b4) = (v % 16) * 4096 + (x % 64) * 64 + (y % 64) BY <2>2, SMT DEF Value
    <3>2. (v % 16) * 4096 + (x % 64) * 64 + (y % 64) = c BY <1>3, <1>9, <2>2, SMT DEF x, y
    <3> QED BY <3>1, <3>2, SMT
  <2>5. e \in Seq(1 .. 255) /\ Len(e) = 3 /\ e[1] = v /\ e[2] = x /\ e[3] = y BY <1>3, <2>2, SMT DEF x, y
  <2>6. Continues(x) /\ Continues(y) BY <1>3 DEF x, y
  <2> HIDE DEF e
  <2>7. IsEncoding(c, e) BY <2>3, <2>4, <2>5, <2>6, SMT DEF IsEncoding
  <2> QED BY <2>1, <2>7
<1>7. CASE ~(c < 65536)
  <2> DEFINE v == 240 + c \div 262144
             x == Bits(c, 4096)
             y == Bits(c, 64)
             z == Bits(c, 1)
             e == <<v, x, y, z>>
  <2>1. Encode(c) = e BY <1>1, <1>7, SMT DEF Encode
  <2>2. v \in 240 .. 247 /\ v % 8 = h BY <1>1, <1>2, <1>7, <1>8, SMT
  <2>3. ~Continues(v) BY <2>2, SMT DEF Continues
  <2> HIDE DEF v, x, y, z
  <2>4. Value(v, x, y, z) = c
    <3>1. Value(v, x, y, z) = (v % 8) * 262144 + (x % 64) * 4096 + (y % 64) * 64 + (z % 64) BY <2>2, SMT DEF Value
    <3>2. (v % 8) * 262144 + (x % 64) * 4096 + (y % 64) * 64 + (z % 64) = c BY <1>3, <1>9, <2>2, SMT DEF x, y, z
    <3> QED BY <3>1, <3>2, SMT
  <2>5. e \in Seq(1 .. 255) /\ Len(e) = 4 /\ e[1] = v /\ e[2] = x /\ e[3] = y /\ e[4] = z BY <1>3, <2>2, SMT DEF x, y, z
  <2>6. Continues(x) /\ Continues(y) /\ Continues(z) BY <1>3 DEF x, y, z
  <2> HIDE DEF e
  <2>7. IsEncoding(c, e) BY <2>3, <2>4, <2>5, <2>6, SMT DEF IsEncoding
  <2> QED BY <2>1, <2>7
<1> QED BY <1>1, <1>4, <1>5, <1>6, <1>7, SMT

\* What push_back writes is one to four bytes, none of them the end of a string.
LEMMA EncodeFacts ==
  ASSUME NEW c \in CodePoints
  PROVE  /\ Encode(c) \in Seq(1 .. 255) /\ Len(Encode(c)) \in 1 .. 4
         /\ ~Continues(Encode(c)[1]) /\ \A j \in 2 .. Len(Encode(c)) : Continues(Encode(c)[j])
BY EncodeIs DEF IsEncoding

-----------------------------------------------------------------------------
\* Where the characters of a string begin and end.
Cuts(bytes, cs, cut) ==
  /\ cut \in [0 .. Len(cs) -> Nat] /\ cut[0] = 0 /\ cut[Len(cs)] = Len(bytes)
  /\ \A k \in 1 .. Len(cs) :
       /\ cut[k] = cut[k - 1] + Len(Encode(cs[k]))
       /\ \A j \in 1 .. Len(Encode(cs[k])) : bytes[cut[k - 1] + j] = Encode(cs[k])[j]
Spells(bytes, cs) == bytes \in Seq(1 .. 255) /\ cs \in Seq(CodePoints) /\ \E cut : Cuts(bytes, cs, cut)

\* The characters of a string begin one behind the other.
LEMMA CutsGrow ==
  ASSUME NEW bytes, NEW cs \in Seq(CodePoints), NEW cut, Cuts(bytes, cs, cut), NEW k \in 0 .. Len(cs)
  PROVE  \A m \in 0 .. Len(cs) : k <= m => cut[k] <= cut[m]
<1> DEFINE n == Len(cs)
           S == {i \in 0 .. n : k <= i => cut[k] <= cut[i]}
<1>1. n \in Nat /\ cut \in [0 .. n -> Nat] BY DEF Cuts
<1>2. 0 \in S BY <1>1
<1>3. ASSUME NEW i \in 1 .. n, i - 1 \in S PROVE i \in S
  <2>1. cs[i] \in CodePoints OBVIOUS
  <2>2. Len(Encode(cs[i])) \in Nat BY <2>1, EncodeFacts
  <2>3. cut[i] = cut[i - 1] + Len(Encode(cs[i])) BY DEF Cuts
  <2>4. i - 1 \in 0 .. n /\ i \in 0 .. n /\ cut[i - 1] \in Nat /\ cut[i] \in Nat BY <1>1
  <2>5. cut[i - 1] <= cut[i] BY <2>2, <2>3, <2>4
  <2>6. CASE k = i BY <2>4, <2>6
  <2>7. CASE k # i
    <3>1. k <= i => k <= i - 1 BY <1>1, <2>7
    <3>2. k <= i - 1 => cut[k] <= cut[i - 1] BY <1>3
    <3>3. cut[k] \in Nat BY <1>1
    <3> QED BY <2>4, <2>5, <3>1, <3>2, <3>3
  <2> QED BY <2>6, <2>7
<1> HIDE DEF S
<1>4. \A i \in 0 .. n : i \in S BY <1>1, <1>2, <1>3, EveryTurn
<1> QED BY <1>4 DEF S

\* Each of them in the string.
LEMMA CutsFacts ==
  ASSUME NEW bytes, NEW cs \in Seq(CodePoints), NEW cut, Cuts(bytes, cs, cut)
  PROVE  /\ \A k \in 0 .. Len(cs) : cut[k] \in 0 .. Len(bytes)
         /\ \A k \in 1 .. Len(cs) : cs[k] \in CodePoints /\ k - 1 \in 0 .. Len(cs) /\ cut[k - 1] < cut[k]
<1> DEFINE n == Len(cs)
<1>1. n \in Nat /\ cut \in [0 .. n -> Nat] /\ cut[n] = Len(bytes) BY DEF Cuts
<1>2. ASSUME NEW k \in 0 .. n PROVE cut[k] \in 0 .. Len(bytes)
  <2>1. n \in 0 .. n /\ k <= n BY <1>1
  <2>2. cut[k] <= cut[n] BY <2>1, CutsGrow
  <2>3. cut[k] \in Nat /\ cut[n] \in Nat BY <1>1, <2>1
  <2> QED BY <1>1, <2>2, <2>3
<1>3. ASSUME NEW k \in 1 .. n PROVE cs[k] \in CodePoints /\ k - 1 \in 0 .. n /\ cut[k - 1] < cut[k]
  <2>1. cs[k] \in CodePoints OBVIOUS
  <2>2. PICK e \in 1 .. 4 : e = Len(Encode(cs[k])) BY <2>1, EncodeFacts
  <2>3. cut[k] = cut[k - 1] + e BY <2>2 DEF Cuts
  <2>4. k - 1 \in 0 .. n BY <1>1
  <2>5. cut[k - 1] \in Nat BY <1>1, <2>4
  <2>6. cut[k - 1] < cut[k - 1] + e BY <2>5
  <2> QED BY <2>1, <2>3, <2>4, <2>6
<1> QED BY <1>2, <1>3

\* The byte where a character begins, and those that continue it.
LEMMA ByteFacts ==
  ASSUME NEW s, NEW cs \in Seq(CodePoints), NEW cut, Cuts(s.bytes, cs, cut), NEW k \in 1 .. Len(cs)
  PROVE  \A i \in cut[k - 1] .. cut[k] - 1 :
           /\ ByteAt(s, i) = Encode(cs[k])[i - cut[k - 1] + 1]
           /\ Continues(ByteAt(s, i)) <=> i # cut[k - 1]
<1>1. TAKE i \in cut[k - 1] .. cut[k] - 1
<1>2. cs[k] \in CodePoints /\ k - 1 \in 0 .. Len(cs) /\ k \in 0 .. Len(cs) /\ cut[k - 1] < cut[k] BY CutsFacts, SMTT(30)
<1>3. cut[k - 1] \in 0 .. Len(s.bytes) /\ cut[k] \in 0 .. Len(s.bytes) BY <1>2, CutsFacts
<1> DEFINE e == Encode(cs[k])
           j == i - cut[k - 1] + 1
<1>4. Len(e) \in 1 .. 4 /\ ~Continues(e[1]) /\ \A q \in 2 .. Len(e) : Continues(e[q]) BY <1>2, EncodeFacts
<1>5. cut[k] = cut[k - 1] + Len(e) /\ cut[k - 1] \in Nat /\ cut[k] \in Nat /\ \A q \in 1 .. Len(e) : s.bytes[cut[k - 1] + q] = e[q]
  <2>1. cut[k] = cut[k - 1] + Len(e) /\ \A q \in 1 .. Len(e) : s.bytes[cut[k - 1] + q] = e[q] BY DEF Cuts
  <2>2. cut \in [0 .. Len(cs) -> Nat] BY DEF Cuts
  <2>3. cut[k - 1] \in Nat /\ cut[k] \in Nat BY <1>2, <2>2
  <2> QED BY <2>1, <2>3
<1> HIDE DEF e
<1>6. i \in Nat /\ j \in 1 .. Len(e) /\ cut[k - 1] + j = i + 1
  <2>1. PICK a \in Nat : a = cut[k - 1] BY <1>5
  <2>2. PICK z \in 1 .. 4 : z = Len(e) BY <1>4
  <2>3. i \in a .. (a + z) - 1 BY <1>5, <2>1, <2>2
  <2>4. i - a + 1 \in 1 .. z /\ a + (i - a + 1) = i + 1 /\ i \in Nat BY <2>3
  <2> QED BY <2>1, <2>2, <2>4
<1>7. i < Len(s.bytes)
  <2>1. PICK l \in Nat : l = Len(s.bytes) BY <1>3
  <2>2. PICK y \in Nat : y = cut[k] BY <1>5
  <2>3. PICK x \in Nat : x = cut[k - 1] BY <1>5
  <2>4. i \in x .. y - 1 BY <2>2, <2>3
  <2>5. y <= l BY <1>3, <2>1, <2>2
  <2>6. i < l BY <2>1, <2>2, <2>3, <2>4, <2>5
  <2> QED BY <2>1, <2>6
<1>8. ByteAt(s, i) = e[j]
  <2>1. ByteAt(s, i) = s.bytes[i + 1] BY <1>7 DEF ByteAt, Size
  <2> QED BY <1>5, <1>6, <2>1
<1>9. Continues(e[j]) <=> j # 1
  <2>1. CASE j = 1 BY <1>4, <2>1
  <2>2. CASE j # 1
    <3>1. j \in 2 .. Len(e) BY <1>4, <1>6, <2>2, SMTT(30)
    <3> QED BY <1>4, <2>2, <3>1
  <2> QED BY <2>1, <2>2
<1>10. j = 1 <=> i = cut[k - 1]
  <2>1. PICK x \in Nat : x = cut[k - 1] BY <1>5
  <2>2. i - x + 1 = 1 <=> i = x BY <1>6
  <2> QED BY <2>1, <2>2
<1> QED BY <1>8, <1>9, <1>10 DEF e

\* Where a character begins, or the string ends, nothing is continued.
LEMMA CutByte ==
  ASSUME NEW s, NEW cs \in Seq(CodePoints), NEW cut, Cuts(s.bytes, cs, cut), NEW k \in 0 .. Len(cs)
  PROVE  ~Continues(ByteAt(s, cut[k]))
<1>1. CASE k = Len(cs)
  <2>1. cut[k] = Len(s.bytes) BY <1>1 DEF Cuts
  <2>2. cut[k] \in Nat BY DEF Cuts
  <2>3. ByteAt(s, cut[k]) = 0 BY <2>1, <2>2 DEF ByteAt, Size
  <2>4. 0 \div 64 # 2 OBVIOUS
  <2> QED BY <2>3, <2>4 DEF Continues
<1>2. CASE k # Len(cs)
  <2>1. k + 1 \in 1 .. Len(cs) /\ (k + 1) - 1 = k BY <1>2
  <2>2. cut[k] < cut[k + 1] BY <2>1, CutsFacts
  <2>3. cut[k] \in Nat /\ cut[k + 1] \in Nat BY <2>1 DEF Cuts
  <2>4. cut[k] \in cut[k] .. cut[k + 1] - 1 BY <2>2, <2>3
  <2> QED BY <2>1, <2>4, ByteFacts
<1> QED BY <1>1, <1>2

\* The way from one character to the next, and back to the one before.
LEMMA StepsAre ==
  ASSUME NEW s, NEW cs \in Seq(CodePoints), NEW cut, Cuts(s.bytes, cs, cut), NEW k \in 1 .. Len(cs)
  PROVE  After(s, cut[k - 1]) = cut[k] /\ Before(s, cut[k]) = cut[k - 1] /\ CharAt(s, cut[k - 1]) = cs[k]
<1> DEFINE a == cut[k - 1]
           b == cut[k]
<1>1. k - 1 \in 0 .. Len(cs) /\ k \in 0 .. Len(cs) /\ a < b /\ cs[k] \in CodePoints
  <2>1. k \in 0 .. Len(cs) OBVIOUS
  <2>2. k - 1 \in 0 .. Len(cs) /\ cut[k - 1] < cut[k] /\ cs[k] \in CodePoints BY CutsFacts
  <2> QED BY <2>1, <2>2
<1>2. a \in Nat /\ b \in Nat /\ Len(s.bytes) \in Nat /\ b <= Len(s.bytes)
  <2>1. a \in Nat /\ b \in Nat BY <1>1 DEF Cuts
  <2>2. b \in 0 .. Len(s.bytes) BY <1>1, CutsFacts
  <2>3. Len(s.bytes) = cut[Len(cs)] /\ Len(cs) \in 0 .. Len(cs) /\ cut \in [0 .. Len(cs) -> Nat] BY DEF Cuts
  <2>4. Len(s.bytes) \in Nat BY <2>3
  <2> QED BY <2>1, <2>2, <2>4
<1>3. ~Continues(ByteAt(s, a)) /\ ~Continues(ByteAt(s, b)) BY <1>1, CutByte
<1>4. \A i \in a + 1 .. b - 1 : Continues(ByteAt(s, i))
  <2>1. TAKE i \in a + 1 .. b - 1
  <2>2. i \in a .. b - 1 /\ i # a BY <1>2
  <2> QED BY <2>2, ByteFacts
<1> HIDE DEF a, b
<1>5. After(s, a) = b
  <2> DEFINE P(j) == ~Continues(ByteAt(s, j)) /\ \A i \in a + 1 .. j - 1 : Continues(ByteAt(s, i))
  <2>1. b \in a + 1 .. Len(s.bytes) + 1 /\ P(b) BY <1>1, <1>2, <1>3, <1>4 DEF a, b
  <2>2. ASSUME NEW j \in a + 1 .. Len(s.bytes) + 1, P(j) PROVE j = b
    <3>1. ~(j < b)
      <4>1. j < b => j \in a + 1 .. b - 1 BY <1>2
      <4> QED BY <1>4, <2>2, <4>1
    <3>2. ~(b < j)
      <4>1. b < j => b \in a + 1 .. j - 1 BY <1>1, <1>2 DEF a, b
      <4> QED BY <1>3, <2>2, <4>1
    <3> QED BY <1>2, <3>1, <3>2
  <2> HIDE DEF P
  <2>3. (CHOOSE j \in a + 1 .. Len(s.bytes) + 1 : P(j)) = b BY <2>1, <2>2
  <2> QED BY <2>3 DEF P, After, Size
<1>6. Before(s, b) = a
  <2> DEFINE P(j) == ~Continues(ByteAt(s, j)) /\ \A i \in j + 1 .. b - 1 : Continues(ByteAt(s, i))
  <2>1. a \in 0 .. b - 1 /\ P(a) BY <1>1, <1>2, <1>3, <1>4 DEF a, b
  <2>2. ASSUME NEW j \in 0 .. b - 1, P(j) PROVE j = a
    <3>1. ~(a < j)
      <4>1. a < j => j \in a + 1 .. b - 1 BY <1>2
      <4> QED BY <1>4, <2>2, <4>1
    <3>2. ~(j < a)
      <4>1. j < a => a \in j + 1 .. b - 1 BY <1>1, <1>2 DEF a, b
      <4> QED BY <1>3, <2>2, <4>1
    <3> QED BY <1>2, <3>1, <3>2
  <2> HIDE DEF P
  <2>3. (CHOOSE j \in 0 .. b - 1 : P(j)) = a BY <2>1, <2>2
  <2> QED BY <2>3 DEF P, Before
<1>7. CharAt(s, a) = cs[k]
  <2> DEFINE e == Encode(cs[k])
             B(j) == ByteAt(s, a + j)
  <2>1. IsEncoding(cs[k], e) BY <1>1, EncodeIs
  <2>2. Len(e) \in 1 .. 4 BY <2>1 DEF IsEncoding
  <2>3. b = a + Len(e) BY DEF Cuts, a, b
  <2>4. \A j \in 0 .. Len(e) - 1 : B(j) = e[j + 1]
    <3>1. TAKE j \in 0 .. Len(e) - 1
    <3>2. a + j \in a .. b - 1 /\ (a + j) - a + 1 = j + 1 BY <1>2, <2>2, <2>3
    <3>3. ByteAt(s, a + j) = Encode(cs[k])[(a + j) - a + 1] BY <3>2, ByteFacts DEF a, b
    <3> QED BY <3>2, <3>3
  <2> DEFINE v == Value(e[1], IF Len(e) >= 2 THEN e[2] ELSE B(1), IF Len(e) >= 3 THEN e[3] ELSE B(2),
                        IF Len(e) = 4 THEN e[4] ELSE B(3))
  <2>5. v = cs[k] BY <2>1 DEF IsEncoding
  <2> HIDE DEF e
  <2>6. B(0) = e[1] /\ (Len(e) >= 2 => B(1) = e[2]) /\ (Len(e) >= 3 => B(2) = e[3]) /\ (Len(e) = 4 => B(3) = e[4])
    <3> HIDE DEF B
    <3>1. 0 \in 0 .. Len(e) - 1 /\ (Len(e) >= 2 => 1 \in 0 .. Len(e) - 1) /\ (Len(e) >= 3 => 2 \in 0 .. Len(e) - 1)
          /\ (Len(e) = 4 => 3 \in 0 .. Len(e) - 1)
      <4>1. PICK z \in 1 .. 4 : z = Len(e) BY <2>2
      <4>2. 0 \in 0 .. z - 1 /\ (z >= 2 => 1 \in 0 .. z - 1) /\ (z >= 3 => 2 \in 0 .. z - 1) /\ (z = 4 => 3 \in 0 .. z - 1)
        OBVIOUS
      <4> QED BY <4>1, <4>2
    <3>2. 0 + 1 = 1 /\ 1 + 1 = 2 /\ 2 + 1 = 3 /\ 3 + 1 = 4 OBVIOUS
    <3> QED BY <2>4, <3>1, <3>2
  <2>7. v = Value(B(0), B(1), B(2), B(3)) BY <2>6, Zenon
  <2>8. CharAt(s, a) = Value(B(0), B(1), B(2), B(3))
    <3>1. a + 0 = a BY <1>2
    <3> QED BY <3>1, SMT DEF CharAt, Value
  <2> QED BY <2>5, <2>7, <2>8
<1> QED BY <1>5, <1>6, <1>7 DEF a, b

-----------------------------------------------------------------------------
\* A function that looks forward has all its values.
LooksForward(n, X, g, a) ==
  \E f \in [0 .. n -> Seq(X)] : f[n] = <<>> /\ \A i \in 0 .. n - 1 : f[i] = <<g[i]>> \o f[a[i]]

\* A function that looks at its own value further on.
LEMMA LookingForward ==
  ASSUME NEW n \in Nat, NEW X, NEW g \in [0 .. n - 1 -> X],
         NEW a \in [0 .. n - 1 -> 0 .. n], \A i \in 0 .. n - 1 : a[i] \in i + 1 .. n
  PROVE  LooksForward(n, X, g, a)
<1> DEFINE R(f, k) == f[n] = <<>> /\ \A i \in k .. n - 1 : f[i] = <<g[i]>> \o f[a[i]]
           S == {k \in 0 .. n : \E f \in [n - k .. n -> Seq(X)] : R(f, n - k)}
<1>1. 0 \in S
  <2> DEFINE f == [i \in n .. n |-> <<>>]
  <2>1. <<>> \in Seq(X) OBVIOUS
  <2>2. f \in [n - 0 .. n -> Seq(X)] BY <2>1
  <2>3. R(f, n - 0) OBVIOUS
  <2>4. 0 \in 0 .. n OBVIOUS
  <2> HIDE DEF f, R
  <2> QED BY <2>2, <2>3, <2>4
<1>2. ASSUME NEW k \in 1 .. n, k - 1 \in S PROVE k \in S
  <2> DEFINE b == n - k
  <2>1. PICK f \in [n - (k - 1) .. n -> Seq(X)] : R(f, n - (k - 1)) BY <1>2
  <2>2. b \in Nat /\ b \in 0 .. n - 1 /\ n - (k - 1) = b + 1 OBVIOUS
  <2>3. f \in [b + 1 .. n -> Seq(X)] /\ R(f, b + 1)
    <3> HIDE DEF b, R
    <3> QED BY <2>1, <2>2
  <2> DEFINE e == [i \in b .. n |-> IF i = b THEN <<g[b]>> \o f[a[b]] ELSE f[i]]
  <2> HIDE DEF b
  <2>4. a[b] \in b + 1 .. n /\ g[b] \in X BY <2>2
  <2>5. f[a[b]] \in Seq(X) BY <2>3, <2>4
  <2>6. <<g[b]>> \o f[a[b]] \in Seq(X) BY <2>4, <2>5
  <2>7. ASSUME NEW i \in b + 1 .. n PROVE e[i] = f[i] /\ i \in b .. n /\ f[i] \in Seq(X)
    <3>1. i \in b .. n /\ i # b BY <2>2
    <3>2. f[i] \in Seq(X) BY <2>3
    <3> QED BY <3>1, <3>2
  <2>8. \A i \in b .. n : i = b \/ i \in b + 1 .. n BY <2>2
  <2>9. e[b] = <<g[b]>> \o f[a[b]] BY <2>2
  <2>10. e \in [b .. n -> Seq(X)] BY <2>6, <2>7, <2>8, <2>9
  <2>11. R(e, b)
    <3>1. n \in b + 1 .. n BY <2>2
    <3>2. e[n] = <<>> BY <2>3, <2>7, <3>1
    <3>3. ASSUME NEW i \in b .. n - 1 PROVE e[i] = <<g[i]>> \o e[a[i]]
      <4>1. i \in 0 .. n - 1 BY <2>2
      <4>2. a[i] \in i + 1 .. n BY <4>1
      <4>3. a[i] \in b + 1 .. n BY <2>2, <4>1, <4>2
      <4>4. e[a[i]] = f[a[i]] BY <2>7, <4>3
      <4>5. CASE i = b BY <2>9, <4>4, <4>5
      <4>6. CASE i # b
        <5>1. i \in b + 1 .. n - 1 /\ i \in b + 1 .. n BY <2>2, <4>6
        <5>2. f[i] = <<g[i]>> \o f[a[i]] BY <2>3, <5>1
        <5>3. e[i] = f[i] BY <2>7, <5>1
        <5> QED BY <4>4, <5>2, <5>3
      <4> QED BY <4>5, <4>6
    <3> HIDE DEF e
    <3> QED BY <3>2, <3>3
  <2>12. k \in 0 .. n /\ b = n - k BY DEF b
  <2> HIDE DEF e, R
  <2> QED BY <2>10, <2>11, <2>12
<1> HIDE DEF S, R
<1>3. n \in S
  <2>1. \A i \in 0 .. n : i \in S BY <1>1, <1>2, EveryTurn
  <2> QED BY <2>1
<1>4. n - n = 0 OBVIOUS
<1> QED BY <1>3, <1>4 DEF S, R, LooksForward

\* A character ends before the string does.
LEMMA AfterIn ==
  ASSUME NEW s, s.bytes \in Seq(1 .. 255), NEW i \in 0 .. Size(s) - 1
  PROVE  After(s, i) \in i + 1 .. Size(s)
<1> DEFINE n == Size(s)
           I == {j \in i + 1 .. n : ~Continues(ByteAt(s, j))}
           P(j) == ~Continues(ByteAt(s, j)) /\ \A k \in i + 1 .. j - 1 : Continues(ByteAt(s, k))
<1>1. n \in Nat /\ i + 1 \in Nat BY DEF Size
<1>2. n \in I
  <2>1. ByteAt(s, n) = 0 BY <1>1 DEF ByteAt
  <2>2. 0 \div 64 # 2 OBVIOUS
  <2>3. n \in i + 1 .. n BY <1>1
  <2> QED BY <2>1, <2>2, <2>3 DEF Continues
<1>3. I \in SUBSET Nat BY <1>1
<1>4. IsWellFoundedOn(OpToRel(<, Nat), Nat) BY NatLessThanWellFounded
<1>5. PICK j \in I : \A k \in I : ~(<<k, j>> \in OpToRel(<, Nat)) BY <1>2, <1>3, <1>4, WFMin
<1>6. \A k \in I : ~(k < j) BY <1>3, <1>5 DEF OpToRel
<1>7. j \in i + 1 .. n + 1 /\ P(j)
  <2>1. j \in i + 1 .. n /\ ~Continues(ByteAt(s, j)) BY <1>5
  <2>2. ASSUME NEW k \in i + 1 .. j - 1 PROVE Continues(ByteAt(s, k))
    <3>1. k \in i + 1 .. n /\ k < j BY <1>1, <2>1
    <3> QED BY <1>6, <3>1
  <2> HIDE DEF n
  <2> QED BY <1>1, <2>1, <2>2
<1>8. \A k \in i + 1 .. n + 1 : P(k) => k \in i + 1 .. n
  <2>1. SUFFICES ASSUME P(n + 1) PROVE FALSE
    <3> HIDE DEF P, n
    <3> QED BY <1>1
  <2>2. n \in i + 1 .. (n + 1) - 1 BY <1>1
  <2> QED BY <1>2, <2>1, <2>2
<1>9. After(s, i) = CHOOSE k \in i + 1 .. n + 1 : P(k) BY DEF After
<1> HIDE DEF P, n
<1> QED BY <1>7, <1>8, <1>9 DEF n

\* What is read at the beginning of a character.
LEMMA CharIn ==
  ASSUME NEW s, s.bytes \in Seq(1 .. 255), NEW i \in 0 .. Size(s) - 1
  PROVE  CharAt(s, i) \in Int
<1>1. \A j \in Nat : ByteAt(s, j) \in 0 .. 255
  <2>1. TAKE j \in Nat
  <2>2. PICK q \in Seq(1 .. 255) : q = s.bytes OBVIOUS
  <2>3. j < Len(q) => q[j + 1] \in 1 .. 255
    <3>1. j < Len(q) => j + 1 \in 1 .. Len(q) OBVIOUS
    <3> QED BY <3>1, ElementOfSeq
  <2> QED BY <2>2, <2>3 DEF ByteAt, Size
<1>2. i \in Nat /\ i + 1 \in Nat /\ i + 2 \in Nat /\ i + 3 \in Nat BY DEF Size
<1>3. PICK b1 \in 0 .. 255 : b1 = ByteAt(s, i) BY <1>1, <1>2
<1>4. PICK b2 \in 0 .. 255 : b2 = ByteAt(s, i + 1) BY <1>1, <1>2
<1>5. PICK b3 \in 0 .. 255 : b3 = ByteAt(s, i + 2) BY <1>1, <1>2
<1>6. PICK b4 \in 0 .. 255 : b4 = ByteAt(s, i + 3) BY <1>1, <1>2
<1>7. CharAt(s, i) = Value(b1, b2, b3, b4) BY <1>3, <1>4, <1>5, <1>6, SMT DEF CharAt, Value
<1>8. /\ b1 \in Int /\ (b1 % 32) * 64 + (b2 % 64) \in Int
      /\ (b1 % 16) * 4096 + (b2 % 64) * 64 + (b3 % 64) \in Int
      /\ (b1 % 8) * 262144 + (b2 % 64) * 4096 + (b3 % 64) * 64 + (b4 % 64) \in Int BY SMT
<1> QED BY <1>7, <1>8, SMT DEF Value

\* A piece is its first element and the rest.
LEMMA FirstOfSub ==
  ASSUME NEW X, NEW q \in Seq(X), NEW m \in 1 .. Len(q)
  PROVE  <<q[m]>> \o SubSeq(q, m + 1, Len(q)) = SubSeq(q, m, Len(q))
<1> DEFINE l == <<q[m]>> \o SubSeq(q, m + 1, Len(q))
           r == SubSeq(q, m, Len(q))
<1>1. q[m] \in X /\ SubSeq(q, m + 1, Len(q)) \in Seq(X) /\ Len(SubSeq(q, m + 1, Len(q))) = Len(q) - m OBVIOUS
<1>2. l \in Seq(X) /\ r \in Seq(X) /\ Len(l) = Len(q) - m + 1 /\ Len(r) = Len(q) - m + 1 BY <1>1
<1>3. ASSUME NEW i \in 1 .. Len(l) PROVE l[i] = r[i]
  <2>1. CASE i = 1 BY <1>1, <1>2, <2>1
  <2>2. CASE i # 1 BY <1>1, <1>2, <2>2
  <2> QED BY <2>1, <2>2
<1> HIDE DEF l, r
<1>4. l = r BY <1>2, <1>3, SeqEqual
<1> QED BY <1>4 DEF l, r

\* A string that spells a text has its characters.
LEMMA SpeltChars ==
  ASSUME NEW s, NEW cs, Spells(s.bytes, cs)
  PROVE  Chars(s) = cs
<1> DEFINE n == Size(s)
           From(f) == [i \in 0 .. n |-> IF i = n THEN <<>> ELSE <<CharAt(s, i)>> \o f[After(s, i)]]
<1>1. s.bytes \in Seq(1 .. 255) /\ cs \in Seq(CodePoints) /\ n \in Nat BY DEF Spells, Size
<1>2. Chars(s) = (CHOOSE f : f = From(f))[0] BY DEF Chars
<1>3. \E f : f = From(f)
  <2> DEFINE g == [i \in 0 .. n - 1 |-> CharAt(s, i)]
             a == [i \in 0 .. n - 1 |-> After(s, i)]
  <2>1. \A i \in 0 .. n - 1 : g[i] = CharAt(s, i) /\ g[i] \in Int BY <1>1, CharIn
  <2>2. \A i \in 0 .. n - 1 : a[i] = After(s, i) /\ a[i] \in i + 1 .. n BY <1>1, AfterIn
  <2>6. g \in [0 .. n - 1 -> Int] BY <2>1
  <2>7. a \in [0 .. n - 1 -> 0 .. n] BY <1>1, <2>2
  <2> HIDE DEF n, g, a
  <2>8. LooksForward(n, Int, g, a) BY <1>1, <2>2, <2>6, <2>7, LookingForward
  <2>3. PICK f \in [0 .. n -> Seq(Int)] : f[n] = <<>> /\ \A i \in 0 .. n - 1 : f[i] = <<g[i]>> \o f[a[i]]
    BY <2>8 DEF LooksForward
  <2>4. \A i \in 0 .. n : f[i] = IF i = n THEN <<>> ELSE <<CharAt(s, i)>> \o f[After(s, i)]
    <3>1. TAKE i \in 0 .. n
    <3>2. i # n => i \in 0 .. n - 1 BY <1>1
    <3> QED BY <2>1, <2>2, <2>3, <3>2
  <2>5. f = From(f) BY <2>3, <2>4
  <2> QED BY <2>5
<1>4. PICK f : f = From(f) /\ Chars(s) = f[0] BY <1>2, <1>3
<1>5. PICK cut : Cuts(s.bytes, cs, cut) BY DEF Spells
<1> DEFINE z == Len(cs)
           S == {k \in 0 .. z : f[cut[z - k]] = SubSeq(cs, (z - k) + 1, z)}
<1>6. z \in Nat /\ cut[z] = n /\ cut[0] = 0 BY <1>1, <1>5 DEF Cuts, Size
<1>7. 0 \in S
  <2>1. z - 0 = z /\ 0 \in 0 .. z /\ n \in 0 .. n BY <1>1, <1>6
  <2>2. f[n] = <<>> BY <1>4, <2>1
  <2>3. SubSeq(cs, z + 1, z) = <<>> BY <1>1, <1>6
  <2> HIDE DEF n
  <2> QED BY <1>6, <2>1, <2>2, <2>3
<1>8. ASSUME NEW k \in 1 .. z, k - 1 \in S PROVE k \in S
  <2> DEFINE m == (z - k) + 1
  <2>1. m \in 1 .. z /\ m - 1 = z - k /\ z - (k - 1) = m /\ (z - k) + 1 = m /\ k \in 0 .. z BY <1>6
  <2>2. f[cut[m]] = SubSeq(cs, m + 1, z) BY <1>8, <2>1
  <2> HIDE DEF m
  <2>3. After(s, cut[m - 1]) = cut[m] /\ CharAt(s, cut[m - 1]) = cs[m] BY <1>1, <1>5, <2>1, StepsAre
  <2>4. cut[m - 1] \in 0 .. n /\ cut[m - 1] # n
    <3>1. m - 1 \in 0 .. z /\ m \in 0 .. z BY <1>6, <2>1
    <3>2. cut[m - 1] \in 0 .. n /\ cut[m] \in 0 .. n /\ cut[m - 1] < cut[m] BY <1>1, <1>5, <2>1, <3>1, CutsFacts DEF Size
    <3> QED BY <1>1, <3>2
  <2>5. f[cut[m - 1]] = <<cs[m]>> \o f[cut[m]] BY <1>4, <2>3, <2>4
  <2>6. <<cs[m]>> \o SubSeq(cs, m + 1, z) = SubSeq(cs, m, z) BY <1>1, <2>1, FirstOfSub
  <2> QED BY <2>1, <2>2, <2>5, <2>6
<1> HIDE DEF S
<1>9. \A k \in 0 .. z : k \in S BY <1>6, <1>7, <1>8, EveryTurn
<1>10. f[0] = SubSeq(cs, 1, z)
  <2>1. z \in 0 .. z /\ z - z = 0 /\ 0 + 1 = 1 BY <1>6
  <2>2. f[cut[z - z]] = SubSeq(cs, (z - z) + 1, z) BY <1>9, <2>1 DEF S
  <2> QED BY <1>6, <2>1, <2>2
<1> QED BY <1>1, <1>4, <1>10, SubSeqFull

-----------------------------------------------------------------------------
(***************************************************************************)
(* Strings that spell a text, and what the operations of string make of them.*)
(***************************************************************************)

\* The empty string.
LEMMA SpeltNothing == Spells(<<>>, <<>>)
<1> DEFINE cut == [k \in 0 .. 0 |-> 0]
<1>1. <<>> \in Seq(1 .. 255) /\ <<>> \in Seq(CodePoints) /\ Len(<<>>) = 0 OBVIOUS
<1>2. Cuts(<<>>, <<>>, cut) BY <1>1 DEF Cuts
<1> HIDE DEF cut
<1> QED BY <1>1, <1>2 DEF Spells

\* The string of one character.
LEMMA SpeltOne ==
  ASSUME NEW c \in CodePoints
  PROVE  Spells(Encode(c), <<c>>)
<1> DEFINE e == Encode(c)
           n == Len(e)
           cut == [k \in 0 .. 1 |-> IF k = 0 THEN 0 ELSE n]
<1>1. e \in Seq(1 .. 255) /\ n \in Nat BY EncodeFacts
<1>2. <<c>> \in Seq(CodePoints) /\ Len(<<c>>) = 1 /\ <<c>>[1] = c OBVIOUS
<1> HIDE DEF n
<1>3. cut \in [0 .. 1 -> Nat] /\ cut[0] = 0 /\ cut[1] = n BY <1>1
<1> HIDE DEF cut
<1>4. ASSUME NEW k \in 1 .. 1
      PROVE  cut[k] = cut[k - 1] + n /\ \A j \in 1 .. n : e[cut[k - 1] + j] = e[j]
  <2>1. k = 1 /\ k - 1 = 0 OBVIOUS
  <2>2. cut[k] = n /\ cut[k - 1] = 0 BY <1>3, <2>1
  <2>3. \A j \in 1 .. n : 0 + j = j BY <1>1
  <2> QED BY <1>1, <2>2, <2>3
<1>5. \A k \in 1 .. 1 : <<c>>[k] = c OBVIOUS
<1>6. Cuts(e, <<c>>, cut)
  <2> HIDE DEF e
  <2>1. \A k \in 1 .. 1 : Encode(<<c>>[k]) = e BY <1>5 DEF e
  <2> QED BY <1>2, <1>3, <1>4, <2>1 DEF Cuts, n
<1> QED BY <1>1, <1>2, <1>6 DEF Spells

\* Two strings, one behind the other.
LEMMA SpeltJoined ==
  ASSUME NEW b, NEW c, NEW d, NEW e, Spells(b, c), Spells(d, e)
  PROVE  Spells(b \o d, c \o e)
<1>1. b \in Seq(1 .. 255) /\ d \in Seq(1 .. 255) /\ c \in Seq(CodePoints) /\ e \in Seq(CodePoints) BY DEF Spells
<1>2. b \o d \in Seq(1 .. 255) /\ c \o e \in Seq(CodePoints) /\ Len(b \o d) = Len(b) + Len(d) /\ Len(c \o e) = Len(c) + Len(e)
  BY <1>1, ConcatProperties
<1>3. PICK p : Cuts(b, c, p) BY DEF Spells
<1>4. PICK q : Cuts(d, e, q) BY DEF Spells
<1> DEFINE m == Len(c)
           n == Len(e)
           l == Len(b)
           cut == [k \in 0 .. m + n |-> IF k <= m THEN p[k] ELSE l + q[k - m]]
<1>5. m \in Nat /\ n \in Nat /\ l \in Nat BY <1>1
<1>6. p \in [0 .. m -> Nat] /\ p[0] = 0 /\ p[m] = l /\ q \in [0 .. n -> Nat] /\ q[0] = 0 /\ q[n] = Len(d)
  BY <1>3, <1>4 DEF Cuts
<1>7. \A k \in 0 .. m : cut[k] = p[k] BY <1>5
<1>8. \A k \in 0 .. n : cut[m + k] = l + q[k] /\ m + k \in 0 .. m + n
  <2>1. TAKE k \in 0 .. n
  <2>2. m + k \in 0 .. m + n /\ (m + k) - m = k /\ (m + k <= m <=> k = 0) /\ m + 0 = m /\ l + 0 = l BY <1>5
  <2> HIDE DEF m, n, l
  <2>3. CASE k = 0 BY <1>6, <2>2, <2>3
  <2>4. CASE k # 0 BY <2>2, <2>4
  <2> QED BY <2>3, <2>4
<1>9. cut \in [0 .. m + n -> Nat]
  <2>1. ASSUME NEW k \in 0 .. m + n PROVE cut[k] \in Nat
    <3>1. CASE k <= m
      <4>1. k \in 0 .. m BY <1>5, <3>1
      <4> QED BY <1>6, <1>7, <4>1
    <3>2. CASE ~(k <= m)
      <4>1. k - m \in 0 .. n /\ m + (k - m) = k BY <1>5, <3>2
      <4>2. cut[m + (k - m)] = l + q[k - m] BY <1>8, <4>1
      <4>3. q[k - m] \in Nat BY <1>6, <4>1
      <4> QED BY <1>5, <4>1, <4>2, <4>3
    <3> QED BY <3>1, <3>2
  <2> QED BY <2>1
<1> HIDE DEF cut
<1> DEFINE t == c \o e
           s == b \o d
           E(k) == Encode(t[k])
<1>10. ASSUME NEW k \in 1 .. m
       PROVE  /\ cut[k] = cut[k - 1] + Len(E(k))
              /\ \A j \in 1 .. Len(E(k)) : s[cut[k - 1] + j] = E(k)[j]
  <2>1. t[k] = c[k] /\ k - 1 \in 0 .. m /\ k \in 0 .. m BY <1>1, <1>5
  <2>2. cut[k] = p[k] /\ cut[k - 1] = p[k - 1] BY <1>7, <2>1
  <2>3. p[k] = p[k - 1] + Len(E(k)) /\ \A j \in 1 .. Len(E(k)) : b[p[k - 1] + j] = E(k)[j] BY <1>3, <2>1 DEF Cuts
  <2>4. p[k - 1] \in Nat /\ p[k] \in 0 .. l /\ Len(E(k)) \in Nat
    <3>1. c[k] \in CodePoints BY <1>1
    <3>2. p[k] \in 0 .. Len(b) BY <1>1, <1>3, <2>1, CutsFacts
    <3>3. Len(Encode(c[k])) \in 1 .. 4 BY <3>1, EncodeFacts
    <3>4. Len(E(k)) \in Nat BY <2>1, <3>3
    <3> QED BY <1>6, <2>1, <3>2, <3>4
  <2>5. ASSUME NEW j \in 1 .. Len(E(k)) PROVE s[p[k - 1] + j] = E(k)[j]
    <3>1. PICK z \in Nat : z = Len(E(k)) BY <2>4
    <3>2. p[k - 1] + j \in 1 .. l BY <1>5, <2>3, <2>4, <3>1
    <3>3. s[p[k - 1] + j] = b[p[k - 1] + j] BY <1>1, <3>2
    <3> QED BY <2>3, <3>3
  <2> HIDE DEF E, s
  <2> QED BY <2>2, <2>3, <2>5
<1>11. ASSUME NEW k \in 1 .. n
       PROVE  /\ cut[m + k] = cut[m + k - 1] + Len(E(m + k))
              /\ \A j \in 1 .. Len(E(m + k)) : s[cut[m + k - 1] + j] = E(m + k)[j]
  <2>1. m + k \in 1 .. Len(t) /\ m + k > m /\ (m + k) - m = k /\ k - 1 \in 0 .. n /\ k \in 0 .. n /\ m + k - 1 = m + (k - 1)
    BY <1>2, <1>5
  <2>2. t[m + k] = e[k] BY <1>1, <2>1
  <2>3. cut[m + k] = l + q[k] /\ cut[m + k - 1] = l + q[k - 1] BY <1>8, <2>1
  <2>4. q[k] = q[k - 1] + Len(E(m + k)) /\ \A j \in 1 .. Len(E(m + k)) : d[q[k - 1] + j] = E(m + k)[j]
    BY <1>4, <2>2 DEF Cuts
  <2>5. q[k - 1] \in Nat /\ q[k] \in 0 .. Len(d) /\ Len(E(m + k)) \in Nat
    <3>1. e[k] \in CodePoints BY <1>1
    <3>2. q[k] \in 0 .. Len(d) BY <1>1, <1>4, <2>1, CutsFacts
    <3>3. Len(Encode(e[k])) \in 1 .. 4 BY <3>1, EncodeFacts
    <3>4. Len(E(m + k)) \in Nat BY <2>2, <3>3
    <3> QED BY <1>6, <2>1, <3>2, <3>4
  <2>6. ASSUME NEW j \in 1 .. Len(E(m + k)) PROVE s[(l + q[k - 1]) + j] = E(m + k)[j]
    <3>1. PICK z \in Nat : z = Len(E(m + k)) BY <2>5
    <3>2. PICK y \in Nat : y = q[k - 1] BY <2>5
    <3>3. y + z <= Len(d) /\ Len(d) \in Nat BY <1>1, <2>4, <2>5, <3>1, <3>2
    <3>4. (l + y) + j \in 1 .. Len(b) + Len(d) /\ (l + y) + j > Len(b) /\ ((l + y) + j) - Len(b) = y + j BY <1>5, <3>1, <3>3
    <3>5. s[(l + y) + j] = d[y + j] BY <1>1, <3>4, ConcatProperties
    <3> QED BY <2>4, <3>2, <3>5
  <2>7. l + q[k] = (l + q[k - 1]) + Len(E(m + k)) BY <1>5, <2>4, <2>5
  <2> HIDE DEF E, s, l
  <2> QED BY <2>3, <2>6, <2>7
<1>12. ASSUME NEW k \in 1 .. m + n
       PROVE  /\ cut[k] = cut[k - 1] + Len(E(k))
              /\ \A j \in 1 .. Len(E(k)) : s[cut[k - 1] + j] = E(k)[j]
  <2> HIDE DEF E, s, m, n
  <2>1. CASE k <= m
    <3>1. k \in 1 .. m BY <1>5, <2>1
    <3> QED BY <1>10, <3>1
  <2>2. CASE ~(k <= m)
    <3>1. PICK i \in 1 .. n : k = m + i
      <4>1. k - m \in 1 .. n /\ k = m + (k - m) BY <1>5, <2>2
      <4> QED BY <4>1
    <3>2. /\ cut[m + i] = cut[m + i - 1] + Len(E(m + i))
          /\ \A j \in 1 .. Len(E(m + i)) : s[cut[m + i - 1] + j] = E(m + i)[j] BY <1>11
    <3>3. m + i - 1 = k - 1 /\ m + i = k BY <1>5, <3>1
    <3>4. cut[k] = cut[k - 1] + Len(E(k)) BY <3>2, <3>3
    <3>5. \A j \in 1 .. Len(E(k)) : s[cut[k - 1] + j] = E(k)[j] BY <3>2, <3>3
    <3> QED BY <3>4, <3>5
  <2> QED BY <2>1, <2>2
<1>13. Cuts(s, t, cut)
  <2>1. Len(t) = m + n /\ Len(s) = l + Len(d) BY <1>2
  <2>2. 0 \in 0 .. m /\ n \in 0 .. n BY <1>5
  <2>3. cut[0] = 0 /\ cut[m + n] = Len(s) BY <1>6, <1>7, <1>8, <2>1, <2>2
  <2> HIDE DEF s, t, m, n
  <2> QED BY <1>9, <1>12, <2>1, <2>3 DEF Cuts
<1> QED BY <1>2, <1>13 DEF Spells

\* What comes after the kth, up to the mth.
LEMMA PieceOf ==
  ASSUME NEW S, NEW c, NEW k \in Nat, NEW m \in Nat, k <= m, \A i \in k + 1 .. m : c[i] \in S
  PROVE  LET t == SubSeq(c, k + 1, m)
         IN  t \in Seq(S) /\ Len(t) = m - k /\ \A i \in 1 .. m - k : t[i] = c[k + i]
<1> DEFINE t == SubSeq(c, k + 1, m)
<1>1. k + 1 \in Int /\ m \in Int OBVIOUS
<1>2. t \in Seq(S) /\ Len(t) = (IF k + 1 <= m THEN m - (k + 1) + 1 ELSE 0)
      /\ \A i \in 1 .. m - (k + 1) + 1 : t[i] = c[k + 1 + i - 1] BY <1>1, SubSeqProperties
<1>3. (IF k + 1 <= m THEN m - (k + 1) + 1 ELSE 0) = m - k /\ m - (k + 1) + 1 = m - k OBVIOUS
<1>4. \A i \in 1 .. m - k : k + 1 + i - 1 = k + i OBVIOUS
<1> HIDE DEF t
<1>5. t \in Seq(S) /\ Len(t) = m - k /\ \A i \in 1 .. m - k : t[i] = c[k + i] BY <1>2, <1>3, <1>4
<1> QED BY <1>5 DEF t

\* A piece from one character to another.
LEMMA SpeltPiece ==
  ASSUME NEW b, NEW c, NEW cut, Spells(b, c), Cuts(b, c, cut), NEW k \in 0 .. Len(c), NEW m \in k .. Len(c)
  PROVE  Spells(SubSeq(b, cut[k] + 1, cut[m]), SubSeq(c, k + 1, m))
<1> DEFINE x == cut[k]
           y == cut[m]
           n == m - k
           s == SubSeq(b, x + 1, y)
           t == SubSeq(c, k + 1, m)
           p == [i \in 0 .. n |-> cut[k + i] - x]
           E(i) == Encode(t[i])
<1>1. b \in Seq(1 .. 255) /\ c \in Seq(CodePoints) BY DEF Spells
<1>2. k \in Nat /\ m \in Nat /\ n \in Nat /\ m \in 0 .. Len(c) /\ k + n = m /\ k <= m OBVIOUS
<1>3. x \in 0 .. Len(b) /\ y \in 0 .. Len(b) BY <1>1, <1>2, CutsFacts
<1>4. x <= y BY <1>1, <1>2, CutsGrow
<1>5. Len(b) \in Nat BY <1>1
<1>6. s \in Seq(1 .. 255) /\ Len(s) = y - x /\ \A i \in 1 .. y - x : s[i] = b[x + i]
  <2> HIDE DEF x, y
  <2>1. x + 1 \in Int /\ y \in Int /\ x \in Int BY <1>3, <1>5
  <2>2. \A i \in x + 1 .. y : b[i] \in 1 .. 255
    <3>1. \A i \in x + 1 .. y : i \in 1 .. Len(b) BY <1>3, <1>5
    <3> QED BY <1>1, <3>1, ElementOfSeq
  <2>3. s \in Seq(1 .. 255) /\ Len(s) = (IF x + 1 <= y THEN y - (x + 1) + 1 ELSE 0)
        /\ \A i \in 1 .. y - (x + 1) + 1 : s[i] = b[x + 1 + i - 1] BY <2>1, <2>2, SubSeqProperties
  <2>4. (IF x + 1 <= y THEN y - (x + 1) + 1 ELSE 0) = y - x /\ y - (x + 1) + 1 = y - x BY <1>4, <2>1
  <2>5. \A i \in 1 .. y - x : x + 1 + i - 1 = x + i BY <2>1
  <2> HIDE DEF s
  <2> QED BY <2>3, <2>4, <2>5
<1>7. t \in Seq(CodePoints) /\ Len(t) = n /\ \A i \in 1 .. n : t[i] = c[k + i]
  <2>1. \A i \in k + 1 .. m : c[i] \in CodePoints BY <1>1, <1>2
  <2> QED BY <1>2, <2>1, PieceOf
<1>8. ASSUME NEW i \in 0 .. n PROVE k + i \in k .. m /\ k + i \in 0 .. Len(c) /\ cut[k + i] \in Nat /\ x <= cut[k + i] /\ cut[k + i] <= y
  <2>1. k + i \in k .. m /\ k + i \in 0 .. Len(c) /\ k <= k + i /\ k + i <= m BY <1>2
  <2>2. cut[k + i] \in 0 .. Len(b) BY <1>1, <2>1, CutsFacts
  <2>3. x <= cut[k + i] BY <1>1, <2>1, CutsGrow
  <2>4. cut[k + i] <= y BY <1>1, <1>2, <2>1, CutsGrow
  <2> QED BY <1>5, <2>1, <2>2, <2>3, <2>4
<1>9. p \in [0 .. n -> Nat] /\ \A i \in 0 .. n : p[i] = cut[k + i] - x
  <2> HIDE DEF x, n
  <2> QED BY <1>3, <1>5, <1>8
<1>10. p[0] = 0 /\ p[n] = Len(s)
  <2>1. 0 \in 0 .. n /\ n \in 0 .. n /\ k + 0 = k BY <1>2
  <2>2. p[0] = x - x /\ p[n] = y - x BY <1>2, <1>9, <2>1
  <2> HIDE DEF x, s
  <2> QED BY <1>3, <1>5, <1>6, <2>2
<1> HIDE DEF p
<1>11. ASSUME NEW i \in 1 .. n
       PROVE  /\ p[i] = p[i - 1] + Len(E(i))
              /\ \A j \in 1 .. Len(E(i)) : s[p[i - 1] + j] = E(i)[j]
  <2>1. i \in 0 .. n /\ i - 1 \in 0 .. n /\ k + i \in 1 .. Len(c) /\ (k + i) - 1 = k + (i - 1) BY <1>2
  <2>2. E(i) = Encode(c[k + i]) BY <1>7
  <2>3. PICK z \in Nat : z = Len(E(i))
    <3>1. c[k + i] \in CodePoints BY <1>1, <2>1
    <3> QED BY <2>2, <3>1, EncodeFacts
  <2>4. cut[k + i] = cut[k + (i - 1)] + z /\ \A j \in 1 .. z : b[cut[k + (i - 1)] + j] = E(i)[j]
    BY <2>1, <2>2, <2>3 DEF Cuts
  <2>5. PICK v \in Nat : v = cut[k + (i - 1)] BY <1>8, <2>1
  <2>6. x <= v /\ v + z <= y BY <1>8, <2>1, <2>4, <2>5
  <2>7. p[i] = (v + z) - x /\ p[i - 1] = v - x BY <1>9, <2>1, <2>4, <2>5
  <2>8. x \in Nat /\ y \in Nat BY <1>3, <1>5
  <2> HIDE DEF x, y, E, s
  <2>9. p[i] = p[i - 1] + z BY <2>5, <2>7, <2>8
  <2>10. ASSUME NEW j \in 1 .. z PROVE s[p[i - 1] + j] = E(i)[j]
    <3>1. p[i - 1] + j \in 1 .. y - x /\ x + (p[i - 1] + j) = v + j
      <4>1. (v - x) + j \in 1 .. y - x /\ x + ((v - x) + j) = v + j BY <2>6, <2>8
      <4> QED BY <2>7, <4>1
    <3>2. s[p[i - 1] + j] = b[v + j] BY <1>6, <3>1
    <3> QED BY <2>4, <2>5, <3>2
  <2> QED BY <2>3, <2>9, <2>10
<1>12. Cuts(s, t, p)
  <2> HIDE DEF s, t, n
  <2> QED BY <1>7, <1>9, <1>10, <1>11 DEF Cuts
<1> QED BY <1>6, <1>7, <1>12 DEF Spells

-----------------------------------------------------------------------------
StringRecords == [null : BOOLEAN, capacity : Nat, bytes : Seq(1 .. 255), stray : BOOLEAN]

\* A string that has its buffer and spells a text.
Well(s, cs) ==
  /\ s \in StringRecords /\ ~s.stray /\ (s.null => s.capacity = 0) /\ Len(s.bytes) <= s.capacity
  /\ Spells(s.bytes, cs)

\* push_back gives a string.
LEMMA PushTyped ==
  ASSUME NEW s \in StringRecords, NEW c \in CodePoints
  PROVE  PushBack(s, c) \in StringRecords
<1>1. Len(s.bytes) \in Nat /\ Len(s.bytes) + 8 \in Nat /\ s.bytes \in Seq(1 .. 255) BY DEF StringRecords
<1>2. Encode(c) \in Seq(1 .. 255) BY EncodeFacts
<1>3. s.bytes \o Encode(c) \in Seq(1 .. 255) BY <1>1, <1>2
<1>4. Reserve(s, Size(s) + 8) \in StringRecords BY <1>1 DEF Reserve, Size, StringRecords
<1> QED BY <1>3, <1>4 DEF PushBack, Filled, StringRecords

\* push_back adds the character.
LEMMA PushWell ==
  ASSUME NEW s, NEW cs, Well(s, cs), NEW c \in CodePoints
  PROVE  Well(PushBack(s, c), Append(cs, c))
<1> DEFINE r == Reserve(s, Size(s) + 8)
           e == Encode(c)
           b == s.bytes \o e
<1>1. s \in StringRecords /\ ~s.stray /\ (s.null => s.capacity = 0) /\ Spells(s.bytes, cs) BY DEF Well
<1>2. s.bytes \in Seq(1 .. 255) /\ cs \in Seq(CodePoints) BY <1>1 DEF Spells
<1>3. e \in Seq(1 .. 255) /\ Len(e) \in 1 .. 4 BY EncodeFacts
<1>4. Len(s.bytes) \in Nat /\ Len(b) = Len(s.bytes) + Len(e) BY <1>2, <1>3
<1>5. r.capacity \in Nat /\ r.capacity >= Len(s.bytes) + 8 /\ ~r.null /\ ~r.stray BY <1>1, <1>4 DEF Reserve, Size, StringRecords
<1>6. PushBack(s, c) = Filled(r, b) BY DEF PushBack
<1>7. PushBack(s, c) \in StringRecords BY <1>1, PushTyped
<1>8. Len(b) <= r.capacity
  <2>1. PICK z \in 1 .. 4 : z = Len(e) BY <1>3
  <2>2. PICK u \in Nat : u = Len(s.bytes) BY <1>4
  <2>3. PICK k \in Nat : k = r.capacity BY <1>5
  <2>4. Len(b) = u + z /\ k >= u + 8
    <3> HIDE DEF b, r, e
    <3> QED BY <1>4, <1>5, <2>1, <2>2, <2>3
  <2> HIDE DEF b, r
  <2> QED BY <2>3, <2>4
<1>9. Spells(b, Append(cs, c))
  <2>1. Append(cs, c) = cs \o <<c>> BY <1>2
  <2> QED BY <1>1, <2>1, SpeltOne, SpeltJoined
<1>10. Filled(r, b).bytes = b /\ Filled(r, b).capacity = r.capacity /\ Filled(r, b).null = r.null
       /\ Filled(r, b).stray = (r.stray \/ r.null \/ Len(b) > r.capacity)
  <2>1. r \in StringRecords
    <3>1. Len(s.bytes) + 8 \in Nat BY <1>4
    <3> QED BY <1>1, <3>1 DEF Reserve, Size, StringRecords
  <2> HIDE DEF r, b
  <2> QED BY <2>1 DEF Filled, StringRecords
<1>11. ~(Len(b) > r.capacity)
  <2> HIDE DEF b, r
  <2>1. Len(b) \in Nat BY <1>3, <1>4
  <2> QED BY <1>5, <1>8, <2>1
<1> HIDE DEF r, b
<1> QED BY <1>5, <1>6, <1>7, <1>8, <1>9, <1>10, <1>11 DEF Well

\* pop_back takes the last character, if there is one.
LEMMA PopWell ==
  ASSUME NEW s, NEW cs, Well(s, cs)
  PROVE  /\ cs # <<>> => Well(PopBack(s), Front(cs))
         /\ cs = <<>> => PopBack(s).stray
<1>1. s \in StringRecords /\ Spells(s.bytes, cs) /\ s.bytes \in Seq(1 .. 255) /\ cs \in Seq(CodePoints) BY DEF Well, Spells
<1>2. PICK cut : Cuts(s.bytes, cs, cut) BY <1>1 DEF Spells
<1>3. CASE cs = <<>>
  <2>1. Len(s.bytes) = 0 BY <1>2, <1>3 DEF Cuts
  <2>2. s.bytes = <<>> BY <1>1, <2>1
  <2>3. PopBack(s) = [s EXCEPT !.stray = TRUE] BY <2>2 DEF PopBack
  <2>4. PopBack(s).stray BY <1>1, <2>3 DEF StringRecords
  <2> QED BY <1>3, <2>4
<1>4. CASE cs # <<>>
  <2> DEFINE n == Len(cs)
  <2>1. n \in 1 .. n /\ n \in Nat /\ n - 1 \in 0 .. n /\ 0 \in 0 .. n BY <1>1, <1>4, EmptySeq
  <2>2. Before(s, cut[n]) = cut[n - 1] /\ cut[n] = Len(s.bytes) /\ cut[0] = 0
    <3>1. cut[n] = Len(s.bytes) /\ cut[0] = 0 BY <1>2 DEF Cuts
    <3> QED BY <1>1, <1>2, <2>1, <3>1, StepsAre
  <2>3. cut[n - 1] \in 0 .. Len(s.bytes) /\ cut[n - 1] < cut[n] BY <1>1, <1>2, <2>1, CutsFacts
  <2>4. s.bytes # <<>>
    <3>1. Len(<<>>) = 0 OBVIOUS
    <3> QED BY <2>2, <2>3, <3>1
  <2> DEFINE b == SubSeq(s.bytes, 1, cut[n - 1])
  <2>5. PopBack(s) = [s EXCEPT !.bytes = b] BY <2>2, <2>4 DEF PopBack, Size
  <2>6. Spells(b, Front(cs))
    <3>1. 0 \in 0 .. n /\ n - 1 \in 0 .. n /\ 0 + 1 = 1 BY <2>1
    <3>2. Spells(SubSeq(s.bytes, cut[0] + 1, cut[n - 1]), SubSeq(cs, 0 + 1, n - 1)) BY <1>1, <1>2, <3>1, SpeltPiece
    <3> HIDE DEF n
    <3> QED BY <2>2, <3>1, <3>2 DEF Front, n
  <2>7. b \in Seq(1 .. 255) /\ Len(b) <= Len(s.bytes)
    <3>1. b \in Seq(1 .. 255) BY <2>6 DEF Spells
    <3>2. PICK z \in 0 .. Len(s.bytes) : z = cut[n - 1] BY <2>3
    <3>3. Len(SubSeq(s.bytes, 1, z)) = z /\ z <= Len(s.bytes) BY <1>1
    <3> QED BY <3>1, <3>2, <3>3
  <2> HIDE DEF b
  <2>8. Well([s EXCEPT !.bytes = b], Front(cs))
    <3>1. ~s.stray /\ (s.null => s.capacity = 0) /\ Len(s.bytes) <= s.capacity BY DEF Well
    <3>2. Len(b) <= s.capacity /\ Len(b) \in Nat
      <4>1. Len(b) \in Nat /\ Len(s.bytes) \in Nat /\ s.capacity \in Nat BY <1>1, <2>7 DEF StringRecords
      <4> QED BY <2>7, <3>1, <4>1
    <3>3. [s EXCEPT !.bytes = b] \in StringRecords BY <1>1, <2>7 DEF StringRecords
    <3>4. [s EXCEPT !.bytes = b].bytes = b /\ [s EXCEPT !.bytes = b].capacity = s.capacity
          /\ [s EXCEPT !.bytes = b].null = s.null /\ [s EXCEPT !.bytes = b].stray = s.stray BY <1>1 DEF StringRecords
    <3> HIDE DEF StringRecords
    <3> QED BY <2>6, <3>1, <3>2, <3>3, <3>4 DEF Well
  <2> QED BY <1>4, <2>5, <2>8
<1> QED BY <1>3, <1>4

\* clear empties a string that has a buffer.
LEMMA ClearWell ==
  ASSUME NEW s, NEW cs, Well(s, cs)
  PROVE  /\ ~s.null => Well(Clear(s), <<>>)
         /\ s.null => Clear(s).stray
<1>1. s \in StringRecords /\ ~s.stray /\ (s.null => s.capacity = 0) /\ Len(s.bytes) <= s.capacity BY DEF Well
<1>2. Len(s.bytes) \in Nat /\ s.capacity \in Nat /\ s.bytes \in Seq(1 .. 255) BY <1>1 DEF StringRecords
<1>3. SubSeq(s.bytes, 1, 0) = <<>> BY <1>2
<1>4. Clear(s) = Filled(s, <<>>)
  <2>1. ~(0 > s.capacity) /\ 0 <= Size(s) BY <1>2 DEF Size
  <2> QED BY <1>3, <2>1 DEF Clear, Resize
<1>5. Filled(s, <<>>) = [s EXCEPT !.bytes = <<>>, !.stray = s.null]
  <2>1. Len(<<>>) = 0 /\ ~(0 > s.capacity) BY <1>2
  <2>2. (s.stray \/ s.null \/ Len(<<>>) > s.capacity) = s.null BY <1>1, <2>1 DEF StringRecords
  <2> QED BY <2>2 DEF Filled
<1>6. ASSUME ~s.null PROVE Well(Clear(s), <<>>)
  <2>1. Clear(s) = [s EXCEPT !.bytes = <<>>, !.stray = FALSE] BY <1>1, <1>4, <1>5, <1>6 DEF StringRecords
  <2>2. <<>> \in Seq(1 .. 255) /\ Len(<<>>) = 0 OBVIOUS
  <2>3. /\ Clear(s) \in StringRecords /\ Clear(s).bytes = <<>> /\ Clear(s).stray = FALSE
        /\ Clear(s).null = s.null /\ Clear(s).capacity = s.capacity BY <1>1, <2>1, <2>2 DEF StringRecords
  <2>4. Len(Clear(s).bytes) <= Clear(s).capacity BY <1>2, <2>2, <2>3
  <2>5. Spells(Clear(s).bytes, <<>>) BY <2>3, SpeltNothing
  <2> QED BY <1>6, <2>3, <2>4, <2>5 DEF Well
<1> QED BY <1>1, <1>4, <1>5, <1>6 DEF StringRecords

\* The string of the default constructor.
LEMMA NoStringWell == Well(NoString, <<>>)
<1>1. <<>> \in Seq(1 .. 255) /\ Len(<<>>) = 0 OBVIOUS
<1> QED BY <1>1, SpeltNothing DEF NoString, Well, StringRecords

\* string(uint32_t*), of characters that are not zero.
LEMMA FromCodesWell ==
  ASSUME NEW cs \in Seq(CodePoints)
  PROVE  Well(FromCodes(cs), cs)
<1> DEFINE n == Len(cs)
           start == Filled(Reserve(NoString, 8), <<>>)
           Turns(f) == [i \in 0 .. n |-> IF i = 0 THEN start ELSE PushBack(f[i - 1], cs[i])]
<1>1. n \in Nat /\ \A i \in 1 .. n : cs[i] \in CodePoints OBVIOUS
<1>2. SelectInSeq(Append(cs, 0), LAMBDA c : c = 0) - 1 = n
  <2> DEFINE q == Append(cs, 0)
             I == {i \in 1 .. Len(q) : q[i] = 0}
  <2>1. Len(q) = n + 1 /\ q[n + 1] = 0 /\ \A i \in 1 .. n : q[i] = cs[i] OBVIOUS
  <2>2. \A i \in 1 .. n : cs[i] # 0 BY <1>1, SMT DEF CodePoints
  <2>3. I = {n + 1}
    <3>1. n + 1 \in I BY <1>1, <2>1
    <3>2. ASSUME NEW i \in I PROVE i = n + 1
      <4>1. i \in 1 .. n + 1 /\ q[i] = 0 BY <2>1
      <4>2. i \notin 1 .. n BY <2>1, <2>2, <4>1
      <4> QED BY <1>1, <4>1, <4>2
    <3> HIDE DEF I
    <3> QED BY <3>1, <3>2
  <2>4. Min({n + 1}) = n + 1 BY <1>1, LeastOfTwo
  <2>5. SelectInSeq(q, LAMBDA c : c = 0) = IF I # {} THEN Min(I) ELSE 0 BY DEF SelectInSeq
  <2> HIDE DEF I
  <2>6. SelectInSeq(q, LAMBDA c : c = 0) = n + 1 BY <2>3, <2>4, <2>5
  <2> QED BY <1>1, <2>6
<1>3. FromCodes(cs) = (CHOOSE f : f = Turns(f))[n] BY <1>2 DEF FromCodes
<1>4. Well(start, <<>>)
  <2>1. <<>> \in Seq(1 .. 255) /\ Len(<<>>) = 0 OBVIOUS
  <2> DEFINE r == [null |-> FALSE, capacity |-> 8, bytes |-> <<>>, stray |-> FALSE]
  <2>2. Reserve(NoString, 8) = r
    <3>1. ~(8 < NoString.capacity) BY DEF NoString
    <3> QED BY <3>1 DEF Reserve, NoString
  <2>3. start = r
    <3>1. Filled(r, <<>>) = [r EXCEPT !.bytes = <<>>, !.stray = FALSE]
      <4>1. (r.stray \/ r.null \/ Len(<<>>) > r.capacity) = FALSE BY <2>1
      <4> HIDE DEF r
      <4> QED BY <4>1 DEF Filled
    <3>2. [r EXCEPT !.bytes = <<>>, !.stray = FALSE] = r
      <4>1. r \in [null : BOOLEAN, capacity : Nat, bytes : {<<>>}, stray : {FALSE}] OBVIOUS
      <4> HIDE DEF r
      <4> QED BY <4>1
    <3> HIDE DEF r
    <3> QED BY <2>2, <3>1, <3>2 DEF start
  <2>4. r \in StringRecords /\ ~r.stray /\ ~r.null /\ r.bytes = <<>> /\ Len(<<>>) <= r.capacity BY <2>1 DEF StringRecords
  <2> HIDE DEF r
  <2>5. Well(r, <<>>) BY <2>4, SpeltNothing DEF Well
  <2> QED BY <2>3, <2>5
<1> HIDE DEF start
<1>5. \E f : f = Turns(f)
  <2> DEFINE step == [i \in 1 .. n |-> [y \in StringRecords |-> PushBack(y, cs[i])]]
  <2>1. \A i \in 1 .. n : \A y \in StringRecords : step[i][y] = PushBack(y, cs[i]) /\ step[i][y] \in StringRecords BY <1>1, PushTyped
  <2>2. StaysIn(StringRecords, step, n) BY <2>1 DEF StaysIn
  <2>3. start \in StringRecords BY <1>4 DEF Well
  <2> HIDE DEF step
  <2>4. HasTurns(StringRecords, step, n, start) BY <1>1, <2>2, <2>3, TurnsExist
  <2>5. PICK g \in [0 .. n -> StringRecords] : g[0] = start /\ \A i \in 1 .. n : g[i] = step[i][g[i - 1]]
    BY <2>4 DEF HasTurns
  <2>6. \A i \in 0 .. n : g[i] = IF i = 0 THEN start ELSE PushBack(g[i - 1], cs[i])
    <3>1. TAKE i \in 0 .. n
    <3>2. CASE i = 0 BY <2>5, <3>2
    <3>3. CASE i # 0
      <4>1. i \in 1 .. n /\ i - 1 \in 0 .. n BY <1>1, <3>3
      <4>2. g[i - 1] \in StringRecords BY <2>5, <4>1
      <4> QED BY <2>1, <2>5, <3>3, <4>1, <4>2
    <3> QED BY <3>2, <3>3
  <2>7. g = Turns(g) BY <2>5, <2>6
  <2> QED BY <2>7
<1>6. PICK f : f = Turns(f) /\ FromCodes(cs) = f[n] BY <1>3, <1>5
<1> DEFINE S == {i \in 0 .. n : Well(f[i], SubSeq(cs, 1, i))}
<1>7. 0 \in S
  <2>1. f[0] = start /\ SubSeq(cs, 1, 0) = <<>> BY <1>1, <1>6
  <2>2. Well(f[0], SubSeq(cs, 1, 0)) BY <1>4, <2>1, Zenon
  <2>3. 0 \in 0 .. n BY <1>1
  <2> QED BY <2>2, <2>3
<1>8. ASSUME NEW i \in 1 .. n, i - 1 \in S PROVE i \in S
  <2>1. i \in 0 .. n /\ i # 0 /\ cs[i] \in CodePoints BY <1>1
  <2>2. f[i] = PushBack(f[i - 1], cs[i]) BY <1>6, <2>1
  <2>3. SubSeq(cs, 1, i) = Append(SubSeq(cs, 1, i - 1), cs[i])
    <3>1. 1 \in 1 .. n /\ i \in 1 .. n BY <1>1
    <3>2. SubSeq(cs, 1, i) = SubSeq(cs, 1, i - 1) \o <<cs[i]>> BY <3>1, SubSeqRecursiveSecond
    <3>3. SubSeq(cs, 1, i - 1) \in Seq(CodePoints) OBVIOUS
    <3> QED BY <2>1, <3>2, <3>3
  <2> QED BY <1>8, <2>1, <2>2, <2>3, PushWell
<1> HIDE DEF S
<1>9. \A i \in 0 .. n : i \in S BY <1>1, <1>7, <1>8, EveryTurn
<1>10. n \in 0 .. n BY <1>1
<1> QED BY <1>6, <1>9, <1>10, SubSeqFull DEF S

-----------------------------------------------------------------------------
(***************************************************************************)
(* The line that is typed.  Its characters lie on the paper before the pen, as*)
(* far as there is paper, and the command spells them.                     *)
(***************************************************************************)

\* The characters of the line lie before the pen.
SpotOf(n) == <<n % Columns, n \div Columns>>
PenPlace(p) == (Columns * p.y) + p.x
LineLies(p, cs) ==
  \A k \in 1 .. Len(cs) :
    PenPlace(p) - k >= 0 =>
      SpotOf(PenPlace(p) - k) \in DOMAIN p.marks /\ p.marks[SpotOf(PenPlace(p) - k)] = cs[Len(cs) + 1 - k]

ConInv ==
  /\ Shown(screen, paper)
  /\ asTyped \in Seq(Keys) /\ early \in BOOLEAN /\ slipped \in BOOLEAN
  /\ command.stray => early
  /\ ~command.stray => Well(command, asTyped)
  /\ ~command.stray /\ ~slipped => LineLies(paper, asTyped)

\* What can be typed is a character, and neither backspace nor Enter.
LEMMA KeysFacts ==
  /\ Keys \subseteq CodePoints /\ BackSpace \in CodePoints /\ CodePoints \subseteq Nat \ {0}
  /\ \A c \in Keys : c # BackSpace /\ c # NewLine
  /\ NewLine \in Nat \ {0} /\ BackSpace # NewLine
<1>1. LastCode \in Nat /\ LastCode >= 8 BY SMT DEF LastCode
<1>2. BackSpace = 8 /\ NewLine = 10 BY SMT DEF BackSpace, NewLine
<1>3. BackSpace \in CodePoints /\ CodePoints \subseteq Nat \ {0} BY <1>1, <1>2, SMT DEF CodePoints
<1>4. Keys \subseteq CodePoints /\ \A c \in Keys : c # BackSpace /\ c # NewLine BY ScreenAssumption
<1> QED BY <1>2, <1>3, <1>4

\* What is echoed is what was typed.
LEMMA EchoIs ==
  ASSUME NEW c \in CodePoints
  PROVE  Chars(FromCodes(<<c>>)) = <<c>>
<1>1. <<c>> \in Seq(CodePoints) OBVIOUS
<1> QED BY <1>1, FromCodesWell, SpeltChars DEF Well

\* A text of one character.
LEMMA PenAfterOne ==
  ASSUME NEW p, NEW c
  PROVE  PenAfter(p, <<c>>) = PutDown(p, c)
<1> DEFINE Turns(f) == [i \in 0 .. 1 |-> IF i = 0 THEN p ELSE PutDown(f[i - 1], <<c>>[i])]
           g == [i \in 0 .. 1 |-> IF i = 0 THEN p ELSE PutDown(p, c)]
<1>1. PenAfter(p, <<c>>) = (CHOOSE f : f = Turns(f))[1]
  <2>1. Len(<<c>>) = 1 OBVIOUS
  <2> QED BY <2>1 DEF PenAfter
<1>2. g = Turns(g)
  <2>1. \A i \in 0 .. 1 : g[i] = IF i = 0 THEN p ELSE PutDown(g[i - 1], <<c>>[i])
    <3>1. g[0] = p /\ g[1] = PutDown(p, c) OBVIOUS
    <3>2. \A i \in 0 .. 1 : i = 0 \/ (i = 1 /\ i - 1 = 0) OBVIOUS
    <3>3. <<c>>[1] = c OBVIOUS
    <3> HIDE DEF g
    <3> QED BY <3>1, <3>2, <3>3
  <2> QED BY <2>1
<1>3. PICK f : f = Turns(f) /\ PenAfter(p, <<c>>) = f[1]
  <2> HIDE DEF Turns, g
  <2> QED BY <1>1, <1>2
<1>4. f[0] = p /\ f[1] = PutDown(f[0], c)
  <2>1. 0 \in 0 .. 1 /\ 1 \in 0 .. 1 /\ 1 # 0 /\ 1 - 1 = 0 /\ <<c>>[1] = c OBVIOUS
  <2>2. f[0] = p BY <1>3, <2>1
  <2>3. f[1] = PutDown(f[1 - 1], <<c>>[1]) BY <1>3, <2>1
  <2> QED BY <2>1, <2>2, <2>3
<1> QED BY <1>3, <1>4

\* The screen when it is new.
LEMMA EmptyShown == Shown([frame |-> [a \in Frame |-> Blank], x |-> 0, y |-> 0], [marks |-> <<>>, x |-> 0, y |-> 0])
<1>1. <<>> \in Marks /\ DOMAIN <<>> = {}
  <2>1. <<>> \in Seq(Nat \ {0}) /\ Len(<<>>) = 0 OBVIOUS
  <2>2. <<>> \in [1 .. 0 -> Nat \ {0}] /\ DOMAIN <<>> = 1 .. 0 BY <2>1, LenProperties
  <2>3. 1 .. 0 = {} OBVIOUS
  <2>4. 1 .. 0 \in SUBSET Spots BY <2>3
  <2> QED BY <2>2, <2>3, <2>4 DEF Marks
<1>2. Columns \in Nat \ {0} /\ Rows \in Nat \ {0} BY ScreenFacts
<1>3. LastRow(0) = 0 BY <1>2 DEF LastRow
<1>4. \A a \in Frame : Seen(<<>>, 0 - LastRow(0), a) = Blank BY <1>1 DEF Seen
<1>5. [a \in Frame |-> Blank] \in [Frame -> Pixels] BY DEF Pixels
<1>6. FrameShows([a \in Frame |-> Blank], <<>>, 0) BY <1>1, <1>4, <1>5 DEF FrameShows
<1> QED BY <1>1, <1>2, <1>3, <1>5, <1>6 DEF Shown, Screens, Papers

\* What the shell writes is shown.
LEMMA ShowKeeps ==
  ASSUME Shown(screen, paper), NEW t \in Seq(Nat \ {0}), Show(t)
  PROVE  Shown(screen', paper') /\ screen' = PrintText(screen, t) /\ paper' = PenAfter(paper, t)
BY TextShows DEF Show

\* The place of the pen.
LEMMA PenFacts ==
  ASSUME NEW p \in Papers
  PROVE  /\ PenPlace(p) \in Nat /\ SpotOf(PenPlace(p)) = <<p.x, p.y>>
         /\ Columns \in Nat \ {0} /\ p.x \in 0 .. Columns - 1 /\ p.y \in Nat
<1>1. Columns \in Nat \ {0} /\ p.x \in 0 .. Columns - 1 /\ p.y \in Nat BY ScreenFacts DEF Papers
<1>2. ((Columns * p.y) + p.x) \in Nat /\ ((Columns * p.y) + p.x) \div Columns = p.y /\ ((Columns * p.y) + p.x) % Columns = p.x
  <2>1. PICK d \in Nat \ {0} : d = Columns BY <1>1
  <2>2. PICK q \in Nat : q = p.y BY <1>1
  <2>3. PICK r \in 0 .. d - 1 : r = p.x BY <1>1, <2>1
  <2>4. ((d * q) + r) \in Nat /\ ((d * q) + r) \div d = q /\ ((d * q) + r) % d = r BY QuotientIs
  <2> QED BY <2>1, <2>2, <2>3, <2>4
<1> QED BY <1>1, <1>2 DEF PenPlace, SpotOf

\* Places have spots of their own.
LEMMA SpotsApart ==
  ASSUME NEW m \in Nat, NEW n \in Nat, SpotOf(m) = SpotOf(n)
  PROVE  m = n
<1>1. PICK d \in Nat \ {0} : d = Columns BY ScreenFacts
<1>2. m % d = n % d /\ m \div d = n \div d BY <1>1 DEF SpotOf
<1>3. m = (d * (m \div d)) + (m % d) BY Divided
<1>4. n = (d * (n \div d)) + (n % d) BY Divided
<1> QED BY <1>2, <1>3, <1>4

\* A character of the command is put down at the pen, behind the others.
LEMMA LineGrows ==
  ASSUME NEW p \in Papers, NEW cs \in Seq(Keys), LineLies(p, cs), NEW c \in Keys
  PROVE  LineLies(PutDown(p, c), Append(cs, c))
<1> DEFINE r == PutDown(p, c)
           l == PenPlace(p)
           n == Len(cs)
           ds == Append(cs, c)
<1>1. l \in Nat /\ SpotOf(l) = <<p.x, p.y>> /\ Columns \in Nat \ {0} /\ p.x \in 0 .. Columns - 1 /\ p.y \in Nat BY PenFacts
<1>2. c # BackSpace /\ c # NewLine BY KeysFacts
<1>3. r = [marks |-> [q \in DOMAIN p.marks \cup {<<p.x, p.y>>} |-> IF q = <<p.x, p.y>> THEN c ELSE p.marks[q]],
           x |-> IF p.x + 1 = Columns THEN 0 ELSE p.x + 1, y |-> IF p.x + 1 = Columns THEN p.y + 1 ELSE p.y]
  BY <1>2 DEF PutDown
<1>4. PenPlace(r) = l + 1
  <2>1. PICK d \in Nat \ {0} : d = Columns BY <1>1
  <2>2. PICK y \in Nat : y = p.y BY <1>1
  <2>3. PICK x \in 0 .. d - 1 : x = p.x BY <1>1, <2>1
  <2>4. d * (y + 1) = (d * y) + d /\ d * y \in Nat OBVIOUS
  <2>5. r.x = (IF x + 1 = d THEN 0 ELSE x + 1) /\ r.y = IF x + 1 = d THEN y + 1 ELSE y BY <1>3, <2>1, <2>2, <2>3
  <2>6. l = (d * y) + x BY <2>1, <2>2, <2>3 DEF PenPlace
  <2>7. PenPlace(r) = (d * r.y) + r.x BY <2>1 DEF PenPlace
  <2> HIDE DEF r, l
  <2>8. CASE x + 1 = d BY <2>4, <2>5, <2>6, <2>7, <2>8
  <2>9. CASE x + 1 # d BY <2>4, <2>5, <2>6, <2>7, <2>9
  <2> QED BY <2>8, <2>9
<1>5. n \in Nat /\ Len(ds) = n + 1 /\ ds[n + 1] = c /\ \A i \in 1 .. n : ds[i] = cs[i] OBVIOUS
<1>6. \A q : q \in DOMAIN r.marks <=> q \in DOMAIN p.marks \/ q = SpotOf(l) BY <1>1, <1>3
<1>7. r.marks[SpotOf(l)] = c /\ \A q \in DOMAIN p.marks : q # SpotOf(l) => r.marks[q] = p.marks[q] BY <1>1, <1>3
<1>8. ASSUME NEW k \in 1 .. n + 1, (l + 1) - k >= 0
      PROVE  SpotOf((l + 1) - k) \in DOMAIN r.marks /\ r.marks[SpotOf((l + 1) - k)] = ds[((n + 1) + 1) - k]
  <2> HIDE DEF r, ds, l, n
  <2>1. CASE k = 1
    <3>1. (l + 1) - k = l /\ ((n + 1) + 1) - k = n + 1 BY <1>1, <1>5, <2>1
    <3> QED BY <1>5, <1>6, <1>7, <3>1
  <2>2. CASE k # 1
    <3>1. PICK i \in 1 .. n : i = k - 1 BY <1>5, <2>2
    <3>2. (l + 1) - k = l - i /\ ((n + 1) + 1) - k = (n + 1) - i /\ l - i >= 0 /\ l - i \in Nat /\ l - i # l /\ (n + 1) - i \in 1 .. n
      BY <1>1, <1>5, <1>8, <3>1
    <3>3. SpotOf(l - i) \in DOMAIN p.marks /\ p.marks[SpotOf(l - i)] = cs[(n + 1) - i] BY <3>2 DEF LineLies, l, n
    <3>4. SpotOf(l - i) # SpotOf(l) BY <1>1, <3>2, SpotsApart
    <3> QED BY <1>5, <1>6, <1>7, <3>2, <3>3, <3>4
  <2> QED BY <2>1, <2>2
<1> HIDE DEF r, ds, l, n
<1>9. LineLies(r, ds) BY <1>4, <1>5, <1>8 DEF LineLies
<1> QED BY <1>9 DEF r, ds

\* A backspace takes the pen and the command back by one, unless the pen is at the left edge.
LEMMA LineShrinks ==
  ASSUME NEW p \in Papers, NEW cs \in Seq(Keys), cs # <<>>, LineLies(p, cs), p.x # 0
  PROVE  LineLies(PutDown(p, BackSpace), Front(cs))
<1> DEFINE r == PutDown(p, BackSpace)
           l == PenPlace(p)
           n == Len(cs)
           ds == Front(cs)
<1>1. l \in Nat /\ Columns \in Nat \ {0} /\ p.x \in 0 .. Columns - 1 /\ p.y \in Nat BY PenFacts
<1>2. r = [p EXCEPT !.x = IF @ = 0 THEN 0 ELSE @ - 1] BY KeysFacts DEF PutDown
<1>3. r.marks = p.marks /\ r.y = p.y /\ r.x = p.x - 1 BY <1>2 DEF Papers
<1>4. PenPlace(r) = l - 1
  <2>1. PICK e \in Nat : e = Columns * p.y BY <1>1
  <2>2. PenPlace(r) = e + (p.x - 1) /\ l = e + p.x BY <1>3, <2>1 DEF PenPlace
  <2> HIDE DEF l, r
  <2> QED BY <1>1, <2>2
<1>5. n \in Nat /\ n > 0 /\ Len(ds) = n - 1 /\ \A i \in 1 .. n - 1 : ds[i] = cs[i]
  <2>1. n \in Nat /\ n # 0 BY EmptySeq
  <2>2. Front(cs) = SubSeq(cs, 1, n - 1) BY DEF Front
  <2>3. n - 1 \in Nat /\ 1 .. n - 1 \subseteq 1 .. Len(cs) BY <2>1
  <2>4. Len(SubSeq(cs, 1, n - 1)) = n - 1 /\ \A i \in 1 .. n - 1 : SubSeq(cs, 1, n - 1)[i] = cs[i]
    <3> DEFINE m == n - 1
    <3>1. m \in Nat /\ m <= Len(cs) BY <2>1
    <3> HIDE DEF m
    <3>2. cs \in Seq(Keys) /\ 1 \in 1 .. Len(cs) + 1 /\ m \in 0 .. Len(cs) BY <2>1, <3>1
    <3>3. Len(SubSeq(cs, 1, m)) = m /\ \A i \in 1 .. m : SubSeq(cs, 1, m)[i] = cs[i]
      <4>1. CASE m = 0 BY <3>2, <4>1
      <4>2. CASE m # 0 BY <3>1, <3>2, <4>2
      <4> QED BY <4>1, <4>2
    <3> QED BY <3>3 DEF m
  <2> QED BY <2>1, <2>2, <2>4
<1>6. ASSUME NEW k \in 1 .. n - 1, (l - 1) - k >= 0
      PROVE  SpotOf((l - 1) - k) \in DOMAIN r.marks /\ r.marks[SpotOf((l - 1) - k)] = ds[((n - 1) + 1) - k]
  <2> HIDE DEF r, ds, l, n
  <2>1. PICK i \in 1 .. n : i = k + 1 BY <1>5
  <2>2. (l - 1) - k = l - i /\ ((n - 1) + 1) - k = (n + 1) - i /\ l - i >= 0 /\ (n + 1) - i \in 1 .. n - 1
    BY <1>1, <1>5, <1>6, <2>1
  <2>3. SpotOf(l - i) \in DOMAIN p.marks /\ p.marks[SpotOf(l - i)] = cs[(n + 1) - i] BY <2>2 DEF LineLies, l, n
  <2> QED BY <1>3, <1>5, <2>2, <2>3
<1> HIDE DEF r, ds, l, n
<1>7. LineLies(r, ds) BY <1>4, <1>5, <1>6 DEF LineLies
<1> QED BY <1>7 DEF r, ds

\* The line as it is after a step: well written, and before the pen if it has to be.
LineKept(s, cs, p, slip, when) ==
  /\ cs \in Seq(Keys) /\ slip \in BOOLEAN /\ when \in BOOLEAN
  /\ s.stray => when
  /\ ~s.stray => Well(s, cs)
  /\ ~s.stray /\ ~slip => LineLies(p, cs)

\* The two halves of the invariant.
LEMMA ConInvIs == ConInv <=> Shown(screen, paper) /\ LineKept(command, asTyped, paper, slipped, early)
BY DEF ConInv, LineKept

\* Of no command nothing has to be seen.
LEMMA NothingLies == ASSUME NEW p PROVE LineLies(p, <<>>)
BY DEF LineLies

\* Each step of the shell keeps the invariant, and it starts with it.
LEMMA ShellInitInv == ShellInit => ConInv
<1> SUFFICES ASSUME ShellInit PROVE ConInv OBVIOUS
<1>1. Prompt \in Seq(Nat \ {0}) BY ScreenAssumption
<1>2. Shown(screen, paper) BY <1>1, EmptyShown, TextShows DEF ShellInit
<1>3. Well(NoString, <<>>) /\ NoString.stray = FALSE /\ <<>> \in Seq(Keys) BY NoStringWell DEF NoString
<1>4. LineKept(command, asTyped, paper, slipped, early) BY <1>3, NothingLies DEF ShellInit, LineKept
<1> QED BY <1>2, <1>4, ConInvIs

\* One character is echoed.
LEMMA EchoOf ==
  ASSUME Shown(screen, paper), NEW c \in CodePoints, Echo(c)
  PROVE  Shown(screen', paper') /\ paper' = PutDown(paper, c)
<1>1. Chars(FromCodes(<<c>>)) = <<c>> BY EchoIs
<1>2. <<c>> \in Seq(Nat \ {0}) BY KeysFacts
<1>3. Show(<<c>>) BY <1>1 DEF Echo
<1> QED BY <1>2, <1>3, ShowKeeps, PenAfterOne

\* A character is typed.
LEMMA TypeCharInv == ASSUME ConInv, NEW c \in Keys, TypeChar(c) PROVE ConInv'
<1>1. Shown(screen, paper) /\ LineKept(command, asTyped, paper, slipped, early) /\ paper \in Papers
  BY ConInvIs DEF Shown
<1>2. ~command.stray /\ Well(command, asTyped) /\ asTyped \in Seq(Keys) BY <1>1 DEF TypeChar, Typed, LineKept
<1>3. c \in CodePoints BY KeysFacts
<1>4. Shown(screen', paper') /\ paper' = PutDown(paper, c) BY <1>1, <1>3, EchoOf DEF TypeChar
<1>5. Well(command', asTyped') /\ ~command'.stray
  <2>1. Well(PushBack(command, c), Append(asTyped, c)) BY <1>2, <1>3, PushWell
  <2> QED BY <2>1 DEF TypeChar, Well
<1>6. asTyped' = Append(asTyped, c) /\ slipped' = slipped /\ early' = early BY DEF TypeChar
<1>7. ~slipped => LineLies(paper', asTyped') BY <1>1, <1>2, <1>4, <1>6, LineGrows DEF LineKept
<1>8. LineKept(command', asTyped', paper', slipped', early') BY <1>1, <1>2, <1>5, <1>6, <1>7 DEF LineKept
<1> QED BY <1>4, <1>8 DEF ConInv, LineKept

\* A backspace is typed.
LEMMA TypeBackSpaceInv == ASSUME ConInv, TypeBackSpace PROVE ConInv'
<1>1. Shown(screen, paper) /\ LineKept(command, asTyped, paper, slipped, early) /\ paper \in Papers /\ screen.x = paper.x
  BY ConInvIs DEF Shown
<1>2. ~command.stray /\ Well(command, asTyped) /\ asTyped \in Seq(Keys) BY <1>1 DEF TypeBackSpace, Typed, LineKept
<1>3. BackSpace \in CodePoints BY KeysFacts
<1>4. Shown(screen', paper') /\ paper' = PutDown(paper, BackSpace) BY <1>1, <1>3, EchoOf DEF TypeBackSpace
<1>5. command' = PopBack(command) /\ slipped' = (slipped \/ screen.x = 0) /\ early' = (early \/ asTyped = <<>>)
      /\ asTyped' = IF asTyped = <<>> THEN <<>> ELSE Front(asTyped)
  BY DEF TypeBackSpace
<1>6. slipped' \in BOOLEAN /\ early' \in BOOLEAN BY <1>1, <1>5 DEF LineKept
<1>7. CASE asTyped = <<>>
  <2>1. command'.stray /\ early' /\ asTyped' = <<>> BY <1>2, <1>5, <1>7, PopWell
  <2>2. LineKept(command', asTyped', paper', slipped', early') BY <1>6, <2>1 DEF LineKept
  <2> QED BY <1>4, <2>2 DEF ConInv, LineKept
<1>8. CASE asTyped # <<>>
  <2>1. Well(command', asTyped') /\ ~command'.stray BY <1>2, <1>5, <1>8, PopWell DEF Well
  <2>2. asTyped' = Front(asTyped) /\ asTyped' \in Seq(Keys)
    <3>1. Front(asTyped) = SubSeq(asTyped, 1, Len(asTyped) - 1) BY DEF Front
    <3>2. SubSeq(asTyped, 1, Len(asTyped) - 1) \in Seq(Keys) BY <1>2
    <3> QED BY <1>5, <1>8, <3>1, <3>2
  <2>3. ~slipped' => LineLies(paper', asTyped') BY <1>1, <1>2, <1>4, <1>5, <1>8, <2>2, LineShrinks DEF LineKept
  <2>4. LineKept(command', asTyped', paper', slipped', early') BY <1>6, <2>1, <2>2, <2>3 DEF LineKept
  <2> QED BY <1>4, <2>4 DEF ConInv, LineKept
<1> QED BY <1>7, <1>8

\* Enter is typed; the command answers.
LEMMA TypeNewLineInv == ASSUME ConInv, NEW answer \in Answers, TypeNewLine(answer) PROVE ConInv'
<1>1. Shown(screen, paper) /\ LineKept(command, asTyped, paper, slipped, early) BY ConInvIs
<1>2. ~command.stray /\ Well(command, asTyped) BY <1>1 DEF TypeNewLine, Typed, LineKept
<1>3. <<NewLine>> \o answer \o Prompt \in Seq(Nat \ {0})
  <2>1. NewLine \in Nat \ {0} BY KeysFacts
  <2>2. <<NewLine>> \in Seq(Nat \ {0}) BY <2>1
  <2>3. answer \in Seq(Nat \ {0}) /\ Prompt \in Seq(Nat \ {0}) BY ScreenAssumption
  <2> QED BY <2>2, <2>3
<1>4. Shown(screen', paper') BY <1>1, <1>3, ShowKeeps DEF TypeNewLine
<1>5. command' = Clear(command) /\ early' = (early \/ command.null) /\ asTyped' = <<>> /\ slipped' = FALSE BY DEF TypeNewLine
<1>6. command'.stray => early'
  <2>1. ~command.null => ~Clear(command).stray BY <1>2, ClearWell DEF Well
  <2> QED BY <1>5, <2>1
<1>7. ~command'.stray => Well(command', asTyped') BY <1>2, <1>5, ClearWell
<1>8. LineLies(paper', asTyped') BY <1>5, NothingLies
<1>9. early' \in BOOLEAN
  <2>1. command.null \in BOOLEAN BY <1>2 DEF Well, StringRecords
  <2> QED BY <1>1, <1>5, <2>1 DEF LineKept
<1>10. asTyped' \in Seq(Keys) BY <1>5
<1>11. LineKept(command', asTyped', paper', slipped', early') BY <1>5, <1>6, <1>7, <1>8, <1>9, <1>10 DEF LineKept
<1> QED BY <1>4, <1>11 DEF ConInv, LineKept

\* A step, or none.
LEMMA ShellNextInv == ConInv /\ [ShellNext]_shellVars => ConInv'
<1> SUFFICES ASSUME ConInv, [ShellNext]_shellVars PROVE ConInv' OBVIOUS
<1>1. CASE UNCHANGED shellVars BY <1>1 DEF ConInv, shellVars
<1>2. CASE \E c \in Keys : TypeChar(c) BY <1>2, TypeCharInv
<1>3. CASE TypeBackSpace BY <1>3, TypeBackSpaceInv
<1>4. CASE \E answer \in Answers : TypeNewLine(answer) BY <1>4, TypeNewLineInv
<1> QED BY <1>1, <1>2, <1>3, <1>4 DEF ShellNext

\* The other parts leave the shell alone.
LEMMA ConSpec == Spec => []ConInv
<1>1. Init => ConInv BY ShellInitInv DEF Init
<1>2. [Next]_libraryVars => [ShellNext]_shellVars
  BY DEF libraryVars, Next, OnFont, OnString, OnShell, OnPrinting, OnVector, OnPointers, OnC, OnWindows, OnOutput
<1>3. ConInv /\ [Next]_libraryVars => ConInv' BY <1>2, ShellNextInv
<1> QED BY <1>1, <1>3, PTL DEF Spec

\* What is seen.
LEMMA EndShown == ASSUME Shown(screen, paper) PROVE ShowsTheEnd
<1> DEFINE top == paper.y - screen.y
           mark(x, y) == IF <<x, y>> \in DOMAIN paper.marks THEN paper.marks[<<x, y>>] ELSE 0
<1>1. screen \in Screens /\ paper \in Papers /\ screen.x = paper.x /\ screen.y = LastRow(paper.y)
      /\ FrameShows(screen.frame, paper.marks, paper.y)
  BY DEF Shown
<1>2. paper.y \in Nat /\ paper.marks \in Marks /\ paper.x \in 0 .. Columns - 1 BY <1>1 DEF Papers
<1>3. Columns \in Nat \ {0} /\ Rows \in Nat \ {0} BY ScreenFacts
<1>4. screen.x < Columns BY <1>1, <1>2, <1>3
<1>5. screen.y = Min({paper.y, Rows - 1})
  <2>1. Rows - 1 \in Nat BY <1>3
  <2>2. Min({paper.y, Rows - 1}) = IF paper.y <= Rows - 1 THEN paper.y ELSE Rows - 1 BY <1>2, <2>1, LeastOfTwo
  <2> QED BY <1>1, <2>2 DEF LastRow
<1>6. ASSUME NEW a \in Frame
      PROVE  screen.frame[a] =
               LET i == a % Pitch
                   j == a \div Pitch
                   m == mark(i \div GlyphWidth, top + (j \div GlyphHeight))
               IN IF m = 0 \/ i >= Columns * GlyphWidth \/ j >= Rows * GlyphHeight THEN Blank
                  ELSE Pixel(m, i % GlyphWidth, j % GlyphHeight)
  <2> DEFINE i == a % Pitch
             j == a \div Pitch
             z == <<i \div GlyphWidth, top + (j \div GlyphHeight)>>
             m == mark(i \div GlyphWidth, top + (j \div GlyphHeight))
  <2>1. screen.frame[a] = Seen(paper.marks, top, a) BY <1>1 DEF FrameShows
  <2>2. z = Spot(top, a) BY DEF Spot
  <2>3. m = IF z \in DOMAIN paper.marks THEN paper.marks[z] ELSE 0 OBVIOUS
  <2>4. i \in Nat /\ j \in Nat BY PixelFacts
  <2>5. z \in DOMAIN paper.marks => m # 0 /\ z \in Spots /\ z[2] <= paper.y
    <3>1. DOMAIN paper.marks \subseteq Spots /\ paper.marks \in [DOMAIN paper.marks -> Nat \ {0}] BY <1>2, MarksFacts
    <3> QED BY <1>1, <2>3, <3>1 DEF FrameShows
  <2>6. i >= Columns * GlyphWidth => z \notin DOMAIN paper.marks
    <3>1. SUFFICES ASSUME i >= Columns * GlyphWidth PROVE z \notin Spots BY <2>5
    <3>2. GlyphWidth \in Nat \ {0} /\ Columns \in Nat /\ Columns * GlyphWidth \in Nat BY ScreenFacts
    <3>3. Columns * GlyphWidth <= i BY <2>4, <3>1, <3>2
    <3> HIDE DEF i
    <3>4. i \div GlyphWidth \in Nat /\ Columns <= i \div GlyphWidth BY <2>4, <3>2, <3>3, Beyond, Zenon
    <3>5. PICK e \in Nat : e = i \div GlyphWidth BY <3>4
    <3>6. e \notin 0 .. Columns - 1 BY <1>3, <3>4, <3>5
    <3> QED BY <3>5, <3>6 DEF Spots
  <2>7. j >= Rows * GlyphHeight => z \notin DOMAIN paper.marks
    <3>1. SUFFICES ASSUME j >= Rows * GlyphHeight PROVE ~(z[2] <= paper.y) BY <2>5
    <3>2. GlyphHeight \in Nat \ {0} /\ Rows \in Nat /\ Rows * GlyphHeight \in Nat BY ScreenFacts
    <3>3. Rows * GlyphHeight <= j BY <2>4, <3>1, <3>2
    <3> HIDE DEF j
    <3>4. j \div GlyphHeight \in Nat /\ Rows <= j \div GlyphHeight BY <2>4, <3>2, <3>3, Beyond, Zenon
    <3>5. PICK e \in Nat : e = j \div GlyphHeight BY <3>4
    <3>6. screen.y <= Rows - 1 /\ screen.y \in Nat
      <4>1. screen.y \in 0 .. Rows - 1 BY <1>1, <1>2, LastRowFacts
      <4> QED BY <1>3, <4>1
    <3>7. ~((paper.y - screen.y) + e <= paper.y) BY <1>2, <1>3, <3>4, <3>5, <3>6
    <3> QED BY <3>5, <3>7
  <2>8. Seen(paper.marks, top, a) = IF z \in DOMAIN paper.marks
                                    THEN Pixel(paper.marks[z], i % GlyphWidth, j % GlyphHeight) ELSE Blank
    BY <2>2 DEF Seen
  <2> HIDE DEF i, j, z, m, top, mark
  <2>9. screen.frame[a] = IF m = 0 \/ i >= Columns * GlyphWidth \/ j >= Rows * GlyphHeight THEN Blank
                          ELSE Pixel(m, i % GlyphWidth, j % GlyphHeight)
    BY <2>1, <2>3, <2>5, <2>6, <2>7, <2>8, Zenon
  <2> QED BY <2>9 DEF i, j, z, m, top, mark
<1> QED BY <1>1, <1>4, <1>5, <1>6 DEF ShowsTheEnd

\* A glyph's corner.
LEMMA CornerIs ==
  ASSUME NEW d \in Nat \ {0}, NEW n \in Nat \ {0}, NEW z \in 0 .. n - 1
  PROVE  z * d \in Nat /\ (z * d) + d <= n * d /\ (z * d) \div d = z /\ (z * d) % d = 0
<1>1. z * d = d * z /\ n * d = d * n /\ d * z \in Nat OBVIOUS
<1>2. d * z + d <= d * n BY MultiplesApart
<1>3. 0 \in 0 .. d - 1 /\ z \in Nat OBVIOUS
<1>4. ((d * z) + 0) \div d = z /\ ((d * z) + 0) % d = 0 BY <1>3, QuotientIs
<1>5. PICK e \in Nat : e = d * z BY <1>1
<1>6. e + 0 = e BY <1>5
<1>7. e \div d = z /\ e % d = 0 BY <1>4, <1>5, <1>6
<1> QED BY <1>1, <1>2, <1>5, <1>7

\* The corner of a cell shows the corner of its character.
LEMMA CellShows ==
  ASSUME NEW x \in 0 .. Columns - 1, NEW y \in 0 .. Rows - 1, NEW m, NEW top
  PROVE  /\ At(x * GlyphWidth, y * GlyphHeight) \in Frame
         /\ Seen(m, top, At(x * GlyphWidth, y * GlyphHeight)) =
              IF <<x, top + y>> \in DOMAIN m THEN Pixel(m[<<x, top + y>>], 0, 0) ELSE Blank
<1>1. {GlyphWidth, GlyphHeight, Width, Height, Pitch, Columns, Rows} \subseteq Nat \ {0}
      /\ Columns * GlyphWidth <= Width /\ Rows * GlyphHeight <= Height /\ Width <= Pitch
  BY ScreenFacts
<1>2. x * GlyphWidth \in Nat /\ (x * GlyphWidth) + GlyphWidth <= Columns * GlyphWidth
      /\ (x * GlyphWidth) \div GlyphWidth = x /\ (x * GlyphWidth) % GlyphWidth = 0
  BY <1>1, CornerIs
<1>3. y * GlyphHeight \in Nat /\ (y * GlyphHeight) + GlyphHeight <= Rows * GlyphHeight
      /\ (y * GlyphHeight) \div GlyphHeight = y /\ (y * GlyphHeight) % GlyphHeight = 0
  BY <1>1, CornerIs
<1>4. PICK i \in Nat : i = x * GlyphWidth BY <1>2
<1>5. PICK j \in Nat : j = y * GlyphHeight BY <1>3
<1>6. i \in 0 .. Pitch - 1
  <2>1. PICK w \in Nat : w = Columns * GlyphWidth BY <1>1
  <2> QED BY <1>1, <1>2, <1>4, <2>1
<1>7. j \in 0 .. Height - 1
  <2>1. PICK w \in Nat : w = Rows * GlyphHeight BY <1>1
  <2> QED BY <1>1, <1>3, <1>5, <2>1
<1>8. At(i, j) \in Frame /\ At(i, j) % Pitch = i /\ At(i, j) \div Pitch = j BY <1>6, <1>7, PlaceIs
<1>9. Spot(top, At(i, j)) = <<x, top + y>> BY <1>2, <1>3, <1>4, <1>5, <1>8 DEF Spot
<1>10. (At(i, j) % Pitch) % GlyphWidth = 0 /\ (At(i, j) \div Pitch) % GlyphHeight = 0 BY <1>2, <1>3, <1>4, <1>5, <1>8
<1> QED BY <1>4, <1>5, <1>8, <1>9, <1>10 DEF Seen

\* The command is seen before the cursor.
LEMMA LineShown == ASSUME ConInv PROVE LineAsShown
<1>1. Shown(screen, paper) /\ LineKept(command, asTyped, paper, slipped, early) BY ConInvIs
<1>2. command.stray => early BY <1>1 DEF LineKept
<1>3. ~command.stray => Chars(command) = asTyped BY <1>1, SpeltChars DEF LineKept, Well
<1>4. ASSUME ~command.stray, ~slipped, NEW k \in DOMAIN asTyped, k <= screen.y * Columns + screen.x
      PROVE  CellBack(k) = Pixel(asTyped[Len(asTyped) + 1 - k], 0, 0)
  <2>1. screen.x = paper.x /\ screen.y = LastRow(paper.y) /\ paper \in Papers /\ paper.y \in Nat
        /\ FrameShows(screen.frame, paper.marks, paper.y)
    BY <1>1 DEF Shown, Papers
  <2>2. LineLies(paper, asTyped) /\ asTyped \in Seq(Keys) BY <1>1, <1>4 DEF LineKept
  <2>3. k \in 1 .. Len(asTyped) /\ Len(asTyped) \in Nat BY <2>2
  <2>4. PICK d \in Nat \ {0} : d = Columns BY ScreenFacts
  <2>5. PICK x \in 0 .. d - 1 : x = paper.x BY <2>1, <2>4 DEF Papers
  <2>6. PICK y \in 0 .. Rows - 1 : y = screen.y BY <2>1, LastRowFacts
  <2>7. PICK top \in Nat : top = paper.y - screen.y BY <2>1, LastRowFacts
  <2>8. Rows \in Nat \ {0} BY ScreenFacts
  <2>9. y * d = d * y /\ d * y \in Nat /\ d * top \in Nat /\ d * (y + top) = (d * y) + (d * top) BY <2>6, <2>8
  <2>10. PICK n \in Nat : n = ((d * y) + x) - k
    <3>1. k <= (d * y) + x BY <1>4, <2>1, <2>4, <2>5, <2>6, <2>9
    <3> QED BY <2>3, <2>5, <2>9, <3>1
  <2>11. PICK i \in 0 .. d - 1 : i = n % d BY Divided
  <2>12. PICK j \in Nat : j = n \div d BY Divided
  <2>13. j \in 0 .. Rows - 1
    <3>1. n = (d * j) + i BY <2>11, <2>12, Divided
    <3>2. ~(y < j)
      <4>1. SUFFICES ASSUME y < j PROVE FALSE OBVIOUS
      <4>2. d * y + d <= d * j /\ d * j \in Int BY <2>6, <2>8, <4>1, MultiplesApart
      <4>3. PICK e \in Nat : e = d * y BY <2>9
      <4>4. PICK g \in Int : g = d * j BY <4>2
      <4>5. e + d <= g /\ n = (e + x) - k /\ n = g + i BY <2>10, <3>1, <4>2, <4>3, <4>4
      <4> QED BY <2>3, <4>5
    <3> QED BY <2>6, <2>8, <3>2
  <2>14. SpotOf(PenPlace(paper) - k) = <<i, top + j>> /\ PenPlace(paper) - k >= 0
    <3>1. PenPlace(paper) = (d * (y + top)) + x BY <2>1, <2>4, <2>5, <2>6, <2>7, <2>8 DEF PenPlace
    <3>2. PenPlace(paper) - k = n + (d * top) BY <2>3, <2>5, <2>9, <2>10, <3>1
    <3>3. (n + (d * top)) \div d = (n \div d) + top /\ (n + (d * top)) % d = n % d BY NextCell
    <3>4. SpotOf(n + (d * top)) = <<i, j + top>> BY <2>4, <2>11, <2>12, <3>3 DEF SpotOf
    <3> QED BY <2>9, <3>2, <3>4
  <2>15. <<i, top + j>> \in DOMAIN paper.marks /\ paper.marks[<<i, top + j>>] = asTyped[Len(asTyped) + 1 - k]
    BY <2>2, <2>3, <2>14 DEF LineLies
  <2>16. CellBack(k) = screen.frame[At(i * GlyphWidth, j * GlyphHeight)]
    <3>1. screen.y * Columns + screen.x - k = n
      <4>1. screen.y * Columns = d * y /\ screen.x = x BY <2>1, <2>4, <2>5, <2>6, <2>9
      <4>2. PICK e \in Nat : e = d * y BY <2>9
      <4> QED BY <2>3, <2>10, <4>1, <4>2
    <3> QED BY <2>4, <2>11, <2>12, <3>1 DEF CellBack
  <2>17. At(i * GlyphWidth, j * GlyphHeight) \in Frame
         /\ Seen(paper.marks, top, At(i * GlyphWidth, j * GlyphHeight)) =
              IF <<i, top + j>> \in DOMAIN paper.marks THEN Pixel(paper.marks[<<i, top + j>>], 0, 0) ELSE Blank
    BY <2>4, <2>13, CellShows
  <2>18. screen.frame[At(i * GlyphWidth, j * GlyphHeight)] = Seen(paper.marks, top, At(i * GlyphWidth, j * GlyphHeight))
    BY <2>1, <2>7, <2>17 DEF FrameShows
  <2> QED BY <2>15, <2>16, <2>17, <2>18
<1> QED BY <1>2, <1>3, <1>4 DEF LineAsShown

\* The screen shows the end of all that was written and the command that Enter runs, of
\* every screen and font, every set of keys and answers, and however much is typed
\* (Console.cpp:13-47, Framebuffer.cpp:18-48, Shell.cpp:27-53, string:137-143).
THEOREM ConsoleKeeps == Spec => []ConsoleRight
<1>1. ConInv => ConsoleRight BY EndShown, LineShown DEF ConInv, ConsoleRight
<1> QED BY <1>1, ConSpec, PTL
=============================================================================
