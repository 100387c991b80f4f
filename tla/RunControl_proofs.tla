---------------------------- MODULE RunControl_proofs ----------------------------
(***************************************************************************)
(* What Studio can rely on while a simulation runs, for every number of    *)
(* polls, requests, rows and events: its control flags (SimControl, the    *)
(* second part of this module) and its Live Scope samples (LiveSeries, the *)
(* first part).  The two share no variable: each theorem is about one.     *)
(***************************************************************************)

EXTENDS SimControl, LiveSeries, SequenceTheorems, FiniteSetTheorems, WellFoundedInduction, TLAPS

-----------------------------------------------------------------------------
(***************************************************************************)
(* LIVE SCOPE                                                              *)
(*                                                                         *)
(* Induction over the naturals.  The library states it with an operator as *)
(* a parameter; here it is about a set, from the least element every       *)
(* non-empty set of naturals has.                                          *)
(***************************************************************************)

LEMMA Smallest ==
  ASSUME NEW T, T \subseteq Nat, T # {}
  PROVE  \E m \in T : \A k \in T : m <= k
<1>1. PICK m \in T : \A k \in T : ~(<<k, m>> \in OpToRel(<, Nat))
  BY WFMin, NatLessThanWellFounded
<1>2. ASSUME NEW k \in T
      PROVE  m <= k
  <2>1. k \in Nat /\ m \in Nat
    OBVIOUS
  <2>2. ~(k < m)
    BY <1>1, <2>1 DEF OpToRel
  <2>3. QED
    BY <2>1, <2>2
<1>3. QED
  BY <1>2

LEMMA NatInducts ==
  ASSUME NEW T, 0 \in T, \A n \in Nat : n \in T => n + 1 \in T
  PROVE  \A n \in Nat : n \in T
<1>1. SUFFICES ASSUME Nat \ T # {}
               PROVE  FALSE
  OBVIOUS
<1>2. PICK m \in Nat \ T : \A k \in Nat \ T : m <= k
  BY <1>1, Smallest
<1>3. m # 0 /\ m - 1 \in Nat /\ m - 1 \in T
  BY <1>2
<1>4. QED
  BY <1>2, <1>3

-----------------------------------------------------------------------------
(***************************************************************************)
(* FlattenSeq is a recursive function: f is the function it chooses.  From *)
(* that, what it does to a sequence that grows at its end (EmitRunning) or *)
(* loses its head (ReceiveRunning).                                        *)
(***************************************************************************)

Flattens(f, c, m) ==
  f = [i \in 1..m |-> IF i = 1 THEN c[i] ELSE f[i - 1] \o c[i]]

LEMMA FlattensAt ==
  ASSUME NEW f, NEW c, NEW m, Flattens(f, c, m), NEW i \in 1..m
  PROVE  f[i] = IF i = 1 THEN c[i] ELSE f[i - 1] \o c[i]
<1> DEFINE E(j) == IF j = 1 THEN c[j] ELSE f[j - 1] \o c[j]
<1>1. f = [j \in 1..m |-> E(j)]
  BY DEF Flattens
<1>2. f[i] = E(i)
  <2> HIDE DEF E
  <2>1. QED
    BY <1>1
<1>3. QED
  BY <1>2

LEMMA FlattensNext ==
  ASSUME NEW f, NEW c, NEW m, Flattens(f, c, m), NEW i \in Nat, i + 1 \in 1..m
  PROVE  f[i + 1] = IF i = 0 THEN c[i + 1] ELSE f[i] \o c[i + 1]
<1>1. (i + 1) - 1 = i /\ (i + 1 = 1 <=> i = 0)
  OBVIOUS
<1>2. f[i + 1] = IF i + 1 = 1 THEN c[i + 1] ELSE f[(i + 1) - 1] \o c[i + 1]
  BY FlattensAt
<1>3. QED
  BY <1>1, <1>2

LEMMA FlattensStep ==
  ASSUME NEW f, NEW c, NEW m, Flattens(f, c, m), NEW k \in 1..m, NEW i \in Nat, k = i + 1
  PROVE  f[k] = IF i = 0 THEN c[k] ELSE f[i] \o c[k]
BY FlattensNext

LEMMA FlattensExists ==
  ASSUME NEW c
  PROVE  \A m \in Nat : \E f : Flattens(f, c, m)
<1> DEFINE T == {m \in Nat : \E f : Flattens(f, c, m)}
<1>1. 0 \in T
  <2>1. Flattens([i \in 1..0 |-> 0], c, 0)
    BY DEF Flattens
  <2>2. QED
    BY <2>1
<1>2. ASSUME NEW m \in Nat, m \in T
      PROVE  m + 1 \in T
  <2>1. PICK f : Flattens(f, c, m)
    BY <1>2
  <2> DEFINE g == [i \in 1..(m + 1) |->
                     IF i <= m THEN f[i] ELSE IF m = 0 THEN c[i] ELSE f[m] \o c[i]]
  <2>2. ASSUME NEW i \in 1..(m + 1)
        PROVE  g[i] = IF i = 1 THEN c[i] ELSE g[i - 1] \o c[i]
    <3>1. CASE i <= m
      <4>1. f[i] = IF i = 1 THEN c[i] ELSE f[i - 1] \o c[i]
        BY <2>1, <3>1, FlattensAt
      <4>2. i # 1 => i - 1 \in 1..(m + 1) /\ i - 1 <= m
        BY <3>1
      <4>3. QED
        BY <3>1, <4>1, <4>2
    <3>2. CASE i = m + 1
      BY <3>2
    <3>3. QED
      BY <3>1, <3>2
  <2>3. Flattens(g, c, m + 1)
    <3> HIDE DEF g
    <3>1. g = [i \in 1..(m + 1) |-> g[i]]
      BY DEF g
    <3>2. QED
      BY <3>1, <2>2 DEF Flattens
  <2>4. QED
    BY <2>3
<1>3. \A m \in Nat : m \in T
  <2> HIDE DEF T
  <2>1. QED
    BY <1>1, <1>2, NatInducts
<1>4. QED
  BY <1>3

LEMMA FlattenDefined ==
  ASSUME NEW S, NEW c \in Seq(S), c # <<>>
  PROVE  \E f : Flattens(f, c, Len(c)) /\ FlattenSeq(c) = f[Len(c)]
<1>1. Len(c) \in Nat /\ Len(c) # 0
  BY EmptySeq
<1>2. \E f : Flattens(f, c, Len(c))
  BY <1>1, FlattensExists
<1> DEFINE g == CHOOSE f : Flattens(f, c, Len(c))
<1>3. Flattens(g, c, Len(c))
  BY <1>2
<1>4. FlattenSeq(c) = g[Len(c)]
  BY <1>1 DEF FlattenSeq, Flattens
<1>5. QED
  BY <1>3, <1>4

LEMMA FlattenAppend ==
  ASSUME NEW S, NEW c \in Seq(Seq(S)), NEW d \in Seq(S)
  PROVE  FlattenSeq(Append(c, d)) = FlattenSeq(c) \o d
<1> DEFINE n == Len(c)
           e == Append(c, d)
<1>1. /\ n \in Nat /\ e \in Seq(Seq(S)) /\ Len(e) = n + 1 /\ e # <<>>
      /\ \A i \in 1..n : e[i] = c[i]
      /\ e[n + 1] = d
  BY EmptySeq, AppendProperties, LenProperties
<1>2. PICK f : Flattens(f, e, n + 1) /\ FlattenSeq(e) = f[n + 1]
  BY <1>1, FlattenDefined
<1>3. f[n + 1] = IF n = 0 THEN e[n + 1] ELSE f[n] \o e[n + 1]
  <2>1. n + 1 \in 1..(n + 1)
    BY <1>1
  <2>2. QED
    BY <1>1, <1>2, <2>1, FlattensNext
<1>4. CASE c = <<>>
  <2>1. FlattenSeq(c) = <<>> /\ n = 0
    BY <1>4 DEF FlattenSeq
  <2>2. FlattenSeq(e) = d
    BY <1>1, <1>2, <1>3, <2>1
  <2>3. QED
    BY <2>1, <2>2, ConcatEmptySeq
<1>5. CASE c # <<>>
  <2>1. n # 0
    BY <1>5, EmptySeq
  <2>2. PICK g : Flattens(g, c, n) /\ FlattenSeq(c) = g[n]
    BY <1>5, FlattenDefined
  <2> DEFINE T == {i \in Nat : i \in 1..n => f[i] = g[i]}
  <2>3. \A i \in Nat : i \in T
    <3>1. 0 \in T
      OBVIOUS
    <3>2. ASSUME NEW i \in Nat, i \in T
          PROVE  i + 1 \in T
      <4> SUFFICES ASSUME i + 1 \in 1..n
                   PROVE  f[i + 1] = g[i + 1]
        OBVIOUS
      <4>1. i + 1 \in 1..(n + 1)
        BY <1>1
      <4>2. f[i + 1] = IF i = 0 THEN e[i + 1] ELSE f[i] \o e[i + 1]
        BY <1>2, <4>1, FlattensNext
      <4>3. g[i + 1] = IF i = 0 THEN c[i + 1] ELSE g[i] \o c[i + 1]
        BY <2>2, FlattensNext
      <4>4. e[i + 1] = c[i + 1]
        BY <1>1
      <4>5. i # 0 => f[i] = g[i]
        BY <3>2, <1>1
      <4>6. QED
        BY <4>2, <4>3, <4>4, <4>5
    <3> HIDE DEF T
    <3>4. QED
      BY <3>1, <3>2, NatInducts
  <2>4. f[n] = g[n]
    BY <1>1, <2>1, <2>3
  <2>5. QED
    BY <1>1, <1>2, <1>3, <2>1, <2>2, <2>4
<1>6. QED
  BY <1>4, <1>5

LEMMA FlattensTypes ==
  ASSUME NEW S, NEW c \in Seq(Seq(S)), NEW f, Flattens(f, c, Len(c))
  PROVE  \A i \in 1..Len(c) : f[i] \in Seq(S)
<1> DEFINE T == {i \in Nat : i \in 1..Len(c) => f[i] \in Seq(S)}
<1>1. 0 \in T
  OBVIOUS
<1>2. ASSUME NEW i \in Nat, i \in T
      PROVE  i + 1 \in T
  <2> SUFFICES ASSUME i + 1 \in 1..Len(c)
               PROVE  f[i + 1] \in Seq(S)
    OBVIOUS
  <2>1. f[i + 1] = IF i = 0 THEN c[i + 1] ELSE f[i] \o c[i + 1]
    BY FlattensNext
  <2>2. c[i + 1] \in Seq(S)
    BY ElementOfSeq
  <2>3. i # 0 => f[i] \in Seq(S)
    BY <1>2, LenProperties
  <2>4. QED
    BY <2>1, <2>2, <2>3, ConcatProperties
<1>3. \A i \in Nat : i \in T
  <2> HIDE DEF T
  <2>1. QED
    BY <1>1, <1>2, NatInducts
<1>4. QED
  BY <1>3, LenProperties

LEMMA FlattenType ==
  ASSUME NEW S, NEW c \in Seq(Seq(S))
  PROVE  FlattenSeq(c) \in Seq(S)
<1>1. CASE c = <<>>
  BY <1>1 DEF FlattenSeq
<1>2. CASE c # <<>>
  <2>1. Len(c) \in 1..Len(c)
    BY <1>2, EmptySeq
  <2>2. QED
    BY <1>2, <2>1, FlattenDefined, FlattensTypes
<1>3. QED
  BY <1>1, <1>2

\* Concatenation under a name of its own: the provers then leave it alone.
Cat(a, b) == a \o b

LEMMA CatAssociative ==
  ASSUME NEW S
  PROVE  \A a, b, d \in Seq(S) : Cat(Cat(a, b), d) = Cat(a, Cat(b, d))
<1>1. ASSUME NEW a \in Seq(S), NEW b \in Seq(S), NEW d \in Seq(S)
      PROVE  Cat(Cat(a, b), d) = Cat(a, Cat(b, d))
  <2>1. (a \o b) \o d = a \o (b \o d)
    BY ConcatAssociative
  <2>2. QED
    BY <2>1 DEF Cat
<1>2. QED
  BY <1>1

LEMMA FlattenHead ==
  ASSUME NEW S, NEW c \in Seq(Seq(S)), c # <<>>
  PROVE  FlattenSeq(c) = Head(c) \o FlattenSeq(Tail(c))
<1>1. PICK t : t = Tail(c)
  OBVIOUS
<1>2. PICK n \in Nat : n + 1 = Len(c)
  <2>1. Len(c) \in Nat /\ Len(c) # 0
    BY EmptySeq
  <2>2. Len(c) - 1 \in Nat /\ (Len(c) - 1) + 1 = Len(c)
    BY <2>1
  <2>3. QED
    BY <2>2
<1>3. /\ t \in Seq(Seq(S)) /\ Len(t) = n
      /\ \A i \in 1..n : t[i] = c[i + 1] /\ t[i] \in Seq(S)
  <2>1. /\ t \in Seq(Seq(S)) /\ Len(t) = Len(c) - 1
        /\ \A i \in 1..Len(t) : t[i] = c[i + 1]
    BY <1>1, HeadTailProperties
  <2>2. Len(t) = n
    BY <1>2, <2>1
  <2>3. QED
    BY <2>1, <2>2, ElementOfSeq
<1>4. Head(c) = c[1] /\ c[1] \in Seq(S) /\ 1 \in 1..(n + 1)
  BY <1>2, ElementOfSeq, HeadTailProperties
<1>5. PICK f : Flattens(f, c, n + 1) /\ FlattenSeq(c) = f[n + 1]
  BY <1>2, FlattenDefined
<1>6. f[1] = c[1]
  BY <1>4, <1>5, FlattensAt
<1>7. CASE t = <<>>
  <2>1. n = 0
    BY <1>3, <1>7, EmptySeq
  <2>2. FlattenSeq(t) = <<>>
    BY <1>7, EmptySeq DEF FlattenSeq
  <2>3. FlattenSeq(c) = c[1]
    BY <1>5, <1>6, <2>1
  <2>4. c[1] \o FlattenSeq(t) = c[1]
    BY <1>4, <2>2, ConcatEmptySeq
  <2>5. QED
    BY <1>1, <1>4, <2>3, <2>4
<1>8. CASE t # <<>>
  <2>1. PICK g : Flattens(g, t, n) /\ FlattenSeq(t) = g[n]
    BY <1>3, <1>8, FlattenDefined
  <2>2. \A i \in 1..n : g[i] \in Seq(S)
    BY <1>3, <2>1, FlattensTypes
  <2>3. \A j \in 1..n : f[j + 1] = f[j] \o c[j + 1]
    <3> SUFFICES ASSUME NEW j \in 1..n
                 PROVE  f[j + 1] = f[j] \o c[j + 1]
      OBVIOUS
    <3>1. j \in Nat /\ j # 0 /\ j + 1 \in 1..(n + 1)
      OBVIOUS
    <3>2. QED
      BY <1>5, <3>1, FlattensNext
  <2>4. \A j \in Nat : j + 1 \in 1..n =>
          g[j + 1] = IF j = 0 THEN t[j + 1] ELSE g[j] \o t[j + 1]
    BY <2>1, FlattensNext
  <2> DEFINE P(i) == i \in 1..n => f[i + 1] = c[1] \o g[i]
             T == {i \in Nat : P(i)}
  <2>5. 0 \in T
    OBVIOUS
  <2>6. ASSUME NEW i \in Nat, i \in T
        PROVE  i + 1 \in T
    <3> SUFFICES ASSUME i + 1 \in 1..n
                 PROVE  f[(i + 1) + 1] = c[1] \o g[i + 1]
      <4>1. i + 1 \in Nat
        OBVIOUS
      <4>2. P(i + 1) => i + 1 \in T
        BY <4>1, Zenon
      <4>3. QED
        BY <4>2, Zenon
    <3>1. f[(i + 1) + 1] = f[i + 1] \o c[(i + 1) + 1]
      BY <2>3, Zenon
    <3>2. g[i + 1] = IF i = 0 THEN t[i + 1] ELSE g[i] \o t[i + 1]
      BY <2>4, Zenon
    <3>3. t[i + 1] = c[(i + 1) + 1] /\ t[i + 1] \in Seq(S)
      BY <1>3, Zenon
    <3>4. i = 0 => f[i + 1] = c[1]
      BY <1>6
    <3>5. i # 0 => i \in 1..n
      OBVIOUS
    <3>6. i # 0 => f[i + 1] = c[1] \o g[i] /\ g[i] \in Seq(S)
      BY <2>2, <2>6, <3>5, Zenon
    <3>7. PICK k, l : k = i + 1 /\ l = (i + 1) + 1
      OBVIOUS
    <3>8. /\ f[l] = Cat(f[k], c[l])
          /\ g[k] = (IF i = 0 THEN t[k] ELSE Cat(g[i], t[k]))
          /\ t[k] = c[l] /\ t[k] \in Seq(S)
          /\ i = 0 => f[k] = c[1]
          /\ i # 0 => f[k] = Cat(c[1], g[i]) /\ g[i] \in Seq(S)
      BY <3>1, <3>2, <3>3, <3>4, <3>6, <3>7, Zenon DEF Cat
    <3>9. f[l] = Cat(c[1], g[k])
      BY <1>4, <3>8, CatAssociative
    <3>10. QED
      BY <3>7, <3>9, Zenon DEF Cat
  <2>7. \A i \in Nat : i \in T
    <3> HIDE DEF T
    <3>1. QED
      BY <2>5, <2>6, NatInducts
  <2>8. f[n + 1] = c[1] \o g[n]
    <3>1. n # 0
      BY <1>3, <1>8, EmptySeq
    <3>2. n \in 1..n
      BY <3>1
    <3>3. QED
      BY <2>7, <3>2, Zenon
  <2>9. QED
    BY <1>1, <1>4, <1>5, <2>1, <2>8
<1>9. QED
  BY <1>7, <1>8

-----------------------------------------------------------------------------
(* Increasing sequences of numbers.                                        *)

Sorted(s) == \A i, j \in 1..Len(s) : i < j => s[i] < s[j]

LEMMA SortedConcat ==
  ASSUME NEW s \in Seq(Nat), NEW t \in Seq(Nat)
  PROVE  Sorted(s \o t) <=> /\ Sorted(s) /\ Sorted(t)
                            /\ \A x \in Range(s), y \in Range(t) : x < y
<1>1. /\ s \o t \in Seq(Nat)
      /\ Len(s) \in Nat /\ Len(t) \in Nat /\ Len(s \o t) = Len(s) + Len(t)
      /\ \A i \in 1..Len(s) : (s \o t)[i] = s[i]
      /\ \A i \in 1..Len(t) : (s \o t)[Len(s) + i] = t[i]
      /\ \A i \in Len(s) + 1..Len(s) + Len(t) :
            i - Len(s) \in 1..Len(t) /\ (s \o t)[i] = t[i - Len(s)]
      /\ \A i \in 1..Len(s) : s[i] \in Nat
      /\ \A i \in 1..Len(t) : t[i] \in Nat
  BY ConcatProperties, LenProperties
<1>2. /\ Range(s) = {s[i] : i \in 1..Len(s)}
      /\ Range(t) = {t[i] : i \in 1..Len(t)}
  BY RangeEquality
<1>3. ASSUME Sorted(s \o t)
      PROVE  Sorted(s) /\ Sorted(t) /\ \A x \in Range(s), y \in Range(t) : x < y
  <2>1. Sorted(s)
    <3> SUFFICES ASSUME NEW i \in 1..Len(s), NEW j \in 1..Len(s), i < j
                 PROVE  s[i] < s[j]
      BY DEF Sorted
    <3>1. i \in 1..Len(s \o t) /\ j \in 1..Len(s \o t)
      BY <1>1
    <3>2. (s \o t)[i] < (s \o t)[j]
      BY <1>3, <3>1 DEF Sorted
    <3>3. QED
      BY <1>1, <3>2
  <2>2. Sorted(t)
    <3> SUFFICES ASSUME NEW i \in 1..Len(t), NEW j \in 1..Len(t), i < j
                 PROVE  t[i] < t[j]
      BY DEF Sorted
    <3>1. /\ Len(s) + i \in 1..Len(s \o t) /\ Len(s) + j \in 1..Len(s \o t)
          /\ Len(s) + i < Len(s) + j
      BY <1>1
    <3>2. QED
      BY <1>1, <1>3, <3>1 DEF Sorted
  <2>3. ASSUME NEW i \in 1..Len(s), NEW j \in 1..Len(t)
        PROVE  s[i] < t[j]
    <3>1. i \in 1..Len(s \o t) /\ Len(s) + j \in 1..Len(s \o t) /\ i < Len(s) + j
      BY <1>1
    <3>2. QED
      BY <1>1, <1>3, <3>1 DEF Sorted
  <2>4. QED
    BY <1>2, <2>1, <2>2, <2>3
<1>4. ASSUME Sorted(s), Sorted(t), \A x \in Range(s), y \in Range(t) : x < y
      PROVE  Sorted(s \o t)
  <2> SUFFICES ASSUME NEW i \in 1..Len(s \o t), NEW j \in 1..Len(s \o t), i < j
               PROVE  (s \o t)[i] < (s \o t)[j]
    BY DEF Sorted
  <2>1. CASE j <= Len(s)
    BY <1>1, <1>4, <2>1 DEF Sorted
  <2>2. CASE Len(s) < i
    <3>1. /\ i - Len(s) \in 1..Len(t) /\ (s \o t)[i] = t[i - Len(s)]
          /\ j - Len(s) \in 1..Len(t) /\ (s \o t)[j] = t[j - Len(s)]
          /\ i - Len(s) < j - Len(s)
      BY <1>1, <2>2
    <3>2. QED
      BY <1>4, <3>1 DEF Sorted
  <2>3. CASE i <= Len(s) /\ Len(s) < j
    <3>1. /\ i \in 1..Len(s) /\ (s \o t)[i] = s[i]
          /\ j - Len(s) \in 1..Len(t) /\ (s \o t)[j] = t[j - Len(s)]
      BY <1>1, <2>3
    <3>2. s[i] \in Range(s) /\ t[j - Len(s)] \in Range(t)
      BY <1>2, <3>1
    <3>3. QED
      BY <1>4, <3>1, <3>2
  <2>4. QED
    BY <1>1, <2>1, <2>2, <2>3
<1>5. QED
  BY <1>3, <1>4

-----------------------------------------------------------------------------
(***************************************************************************)
(* The columns.  ColumnsOf folds the candidates from the left; f[1..k] is  *)
(* what the first k of them leave, and Kept is the induction on k.         *)
(***************************************************************************)

Kinds == {"out", "state", "disc"}

Column == [name : STRING, kind : Kinds, index : Nat]

AddColumn(kept, c) ==
  IF Len(kept) >= SeriesCap \/ \E k \in 1..Len(kept) : kept[k].name = c.name
    THEN kept
    ELSE Append(kept, c)

FoldStep(f, s, x) == IF x = {} THEN <<>> ELSE AddColumn(f[x \ {Max(x)}], s[Max(x)])

Folds(f, s, m) == f = [x \in SUBSET (1..m) |-> FoldStep(f, s, x)]

LEMMA FoldsAt ==
  ASSUME NEW f, NEW s, NEW m, Folds(f, s, m)
  PROVE  \A x \in SUBSET (1..m) : f[x] = FoldStep(f, s, x)
<1> DEFINE g == [x \in SUBSET (1..m) |-> FoldStep(f, s, x)]
<1>1. f = g
  BY DEF Folds
<1>2. \A x \in SUBSET (1..m) : g[x] = FoldStep(f, s, x)
  OBVIOUS
<1>3. QED
  BY <1>1, <1>2, Zenon

LEMMA MaxIs ==
  ASSUME NEW x, NEW k \in x, x \subseteq Int, \A j \in x : j <= k
  PROVE  Max(x) = k
<1>1. \A j \in x : k >= j
  OBVIOUS
<1>2. \E j \in x : \A y \in x : j >= y
  BY <1>1
<1>3. Max(x) \in x /\ \A y \in x : Max(x) >= y
  BY <1>2, Zenon DEF Max
<1>4. Max(x) \in x /\ Max(x) \in Int /\ k \in Int /\ Max(x) >= k /\ Max(x) <= k
  BY <1>3
<1>5. QED
  BY <1>4

LEMMA FoldsExists ==
  ASSUME NEW s
  PROVE  \A m \in Nat : \E f : Folds(f, s, m)
<1> DEFINE T == {m \in Nat : \E f : Folds(f, s, m)}
<1>1. 0 \in T
  <2> DEFINE g == [x \in SUBSET (1..0) |-> <<>>]
  <2>1. \A x \in SUBSET (1..0) : x = {}
    OBVIOUS
  <2>2. Folds(g, s, 0)
    BY <2>1 DEF Folds, FoldStep
  <2>3. QED
    BY <2>2
<1>2. ASSUME NEW m \in Nat, m \in T
      PROVE  m + 1 \in T
  <2>1. PICK f : Folds(f, s, m)
    BY <1>2
  <2>2. \A x \in SUBSET (1..m) : f[x] = FoldStep(f, s, x)
    BY <2>1, FoldsAt
  <2>3. PICK n \in Nat : n = m + 1
    OBVIOUS
  <2> DEFINE g == [x \in SUBSET (1..n) |->
                     IF n \in x THEN AddColumn(f[x \ {n}], s[n]) ELSE f[x]]
  <2>4. ASSUME NEW x \in SUBSET (1..n)
        PROVE  g[x] = FoldStep(g, s, x)
    <3>1. CASE n \in x
      <4>1. Max(x) = n
        <5>1. x \subseteq Int /\ \A j \in x : j <= n
          OBVIOUS
        <5>2. QED
          BY <3>1, <5>1, MaxIs
      <4>2. g[x] = AddColumn(f[x \ {n}], s[n])
        BY <3>1
      <4>3. g[x \ {n}] = f[x \ {n}]
        OBVIOUS
      <4>4. x # {}
        BY <3>1
      <4> HIDE DEF g
      <4>5. QED
        BY <4>1, <4>2, <4>3, <4>4 DEF FoldStep
    <3>2. CASE n \notin x
      <4>1. x \in SUBSET (1..m)
        <5>1. (1..n) \ {n} = 1..m
          BY <2>3
        <5>2. QED
          BY <3>2, <5>1, Zenon
      <4>2. f[x] = FoldStep(f, s, x)
        BY <2>2, <4>1, Zenon
      <4>3. g[x] = f[x] /\ g[x \ {Max(x)}] = f[x \ {Max(x)}]
        BY <3>2
      <4> HIDE DEF g
      <4>4. QED
        BY <4>2, <4>3 DEF FoldStep
    <3>3. QED
      BY <3>1, <3>2
  <2>5. Folds(g, s, n)
    <3>1. g = [x \in SUBSET (1..n) |-> g[x]]
      OBVIOUS
    <3> HIDE DEF g
    <3>2. QED
      BY <2>4, <3>1 DEF Folds
  <2>6. QED
    BY <2>3, <2>5
<1>3. \A m \in Nat : m \in T
  <2> HIDE DEF T
  <2>1. QED
    BY <1>1, <1>2, NatInducts
<1>4. QED
  BY <1>3

LEMMA FoldsNext ==
  ASSUME NEW f, NEW s, NEW n \in Nat, Folds(f, s, n)
  PROVE  /\ f[1..0] = <<>>
         /\ \A k \in Nat : k + 1 \in 1..n => f[1..(k + 1)] = AddColumn(f[1..k], s[k + 1])
<1>1. f[1..0] = <<>>
  <2>1. 1..0 \in SUBSET (1..n) /\ 1..0 = {}
    OBVIOUS
  <2>2. QED
    BY <2>1, FoldsAt DEF FoldStep
<1>2. ASSUME NEW k \in Nat, k + 1 \in 1..n
      PROVE  f[1..(k + 1)] = AddColumn(f[1..k], s[k + 1])
  <2>1. 1..(k + 1) \in SUBSET (1..n) /\ k + 1 \in 1..(k + 1)
    BY <1>2
  <2>2. Max(1..(k + 1)) = k + 1
    <3>1. PICK x : x = 1..(k + 1)
      OBVIOUS
    <3>2. x \subseteq Int /\ k + 1 \in x /\ \A j \in x : j <= k + 1
      BY <3>1
    <3>3. QED
      BY <3>1, <3>2, MaxIs
  <2>3. (1..(k + 1)) \ {k + 1} = 1..k
    OBVIOUS
  <2>4. PICK x : x = 1..(k + 1)
    OBVIOUS
  <2>5. f[x] = IF x = {} THEN <<>> ELSE AddColumn(f[x \ {Max(x)}], s[Max(x)])
    BY <1>2, <2>1, <2>4, FoldsAt DEF FoldStep
  <2>6. QED
    BY <2>1, <2>2, <2>3, <2>4, <2>5, Zenon
<1>3. QED
  BY <1>1, <1>2

LEMMA ColumnsFold ==
  ASSUME NEW lists, Offered(lists) \in Seq(Column)
  PROVE  \E f : LET s == Offered(lists)
                IN  Folds(f, s, Len(s)) /\ ColumnsOf(lists) = f[1..Len(s)]
<1>1. PICK s : s = Offered(lists)
  OBVIOUS
<1>2. DOMAIN s = 1..Len(s) /\ Len(s) \in Nat
  BY <1>1, LenProperties
<1> DEFINE f == CHOOSE g : Folds(g, s, Len(s))
<1>3. Folds(f, s, Len(s))
  BY <1>2, FoldsExists
<1>4. ColumnsOf(lists) = f[1..Len(s)]
  BY <1>1, <1>2 DEF ColumnsOf, FoldLeft, MapThenFoldSet, AddColumn, FoldStep, Folds
<1>5. QED
  BY <1>1, <1>3, <1>4

Entries(l, kind) == [i \in 1..Len(l) |-> [name |-> l[i], kind |-> kind, index |-> i]]

LEMMA EntriesOf ==
  ASSUME NEW l \in Seq(STRING), NEW kind \in Kinds
  PROVE  LET e == Entries(l, kind)
         IN  /\ e \in Seq(Column)
             /\ \A c \in Range(e) :
                  c.kind = kind /\ c.index \in 1..Len(l) /\ l[c.index] = c.name
             /\ Range(l) = {c.name : c \in Range(e)}
<1> DEFINE e == Entries(l, kind)
<1>1. Len(l) \in Nat /\ \A i \in 1..Len(l) : l[i] \in STRING
  BY ElementOfSeq, LenProperties
<1>2. e \in Seq(Column) /\ Len(e) = Len(l)
  <2>1. \A i \in 1..Len(l) : e[i] \in Column
    BY <1>1 DEF Column, Entries
  <2>2. QED
    BY <1>1, <2>1 DEF Entries
<1>3. \A i \in 1..Len(l) : e[i].kind = kind /\ e[i].index = i /\ e[i].name = l[i]
  BY DEF Entries
<1> HIDE DEF e
<1>4. Range(e) = {e[i] : i \in 1..Len(l)} /\ Range(l) = {l[i] : i \in 1..Len(l)}
  BY <1>2, RangeEquality
<1>5. Range(l) = {c.name : c \in Range(e)}
  BY <1>3, <1>4
<1>6. \A c \in Range(e) : c.kind = kind /\ c.index \in 1..Len(l) /\ l[c.index] = c.name
  BY <1>3, <1>4
<1>7. QED
  BY <1>2, <1>5, <1>6 DEF e

LEMMA OfferedColumns ==
  ASSUME NEW lists \in [out : Seq(STRING), state : Seq(STRING), disc : Seq(STRING)]
  PROVE  LET s == Offered(lists)
         IN  /\ s \in Seq(Column)
             /\ \A c \in Range(s) : /\ c.index \in 1..Len(lists[c.kind])
                                    /\ lists[c.kind][c.index] = c.name
             /\ UNION {Range(lists[kind]) : kind \in DOMAIN lists} = {c.name : c \in Range(s)}
<1> DEFINE E(kind) == Entries(lists[kind], kind)
<1>1. DOMAIN lists = Kinds /\ \A kind \in Kinds : lists[kind] \in Seq(STRING)
  BY DEF Kinds
<1>2. Offered(lists) = (E("out") \o E("state")) \o E("disc")
  BY DEF Offered, Entries
<1>3. ASSUME NEW kind \in Kinds
      PROVE  /\ E(kind) \in Seq(Column)
             /\ \A c \in Range(E(kind)) : /\ c.index \in 1..Len(lists[c.kind])
                                          /\ lists[c.kind][c.index] = c.name
             /\ Range(lists[kind]) = {c.name : c \in Range(E(kind))}
  <2>1. PICK l \in Seq(STRING) : l = lists[kind]
    BY <1>1
  <2>2. PICK e : e = Entries(l, kind)
    OBVIOUS
  <2>3. /\ e \in Seq(Column)
        /\ \A c \in Range(e) : c.kind = kind /\ c.index \in 1..Len(l) /\ l[c.index] = c.name
        /\ Range(l) = {c.name : c \in Range(e)}
    BY <2>2, EntriesOf
  <2>4. e = E(kind)
    BY <2>1, <2>2
  <2> HIDE DEF E
  <2>5. QED
    BY <2>1, <2>3, <2>4, Zenon
<1> HIDE DEF E
<1>4. PICK a \in Seq(Column) : a = E("out")
  BY <1>3 DEF Kinds
<1>5. PICK b \in Seq(Column) : b = E("state")
  BY <1>3 DEF Kinds
<1>6. PICK d \in Seq(Column) : d = E("disc")
  BY <1>3 DEF Kinds
<1>7. PICK ab \in Seq(Column) : ab = a \o b /\ Range(ab) = Range(a) \union Range(b)
  BY ConcatProperties, RangeConcatenation
<1>8. PICK s \in Seq(Column) : s = ab \o d /\ Range(s) = Range(ab) \union Range(d)
  BY ConcatProperties, RangeConcatenation
<1>9. s = Offered(lists)
  BY <1>2, <1>4, <1>5, <1>6, <1>7, <1>8
<1>10. Range(s) = UNION {Range(E(kind)) : kind \in Kinds}
  BY <1>4, <1>5, <1>6, <1>7, <1>8 DEF Kinds
<1>11. \A c \in Range(s) : c.index \in 1..Len(lists[c.kind]) /\ lists[c.kind][c.index] = c.name
  BY <1>3, <1>10, Zenon
<1>12. UNION {Range(lists[kind]) : kind \in Kinds} = {c.name : c \in Range(s)}
  <2>1. ASSUME NEW kind \in Kinds
        PROVE  Range(lists[kind]) = {c.name : c \in Range(E(kind))}
    BY <1>3
  <2>2. ASSUME NEW x, NEW kind \in Kinds, x \in Range(lists[kind])
        PROVE  x \in {c.name : c \in Range(s)}
    <3>1. PICK c \in Range(E(kind)) : x = c.name
      BY <2>1, <2>2
    <3>2. c \in Range(s)
      BY <1>10
    <3>3. QED
      BY <3>1, <3>2
  <2>3. ASSUME NEW c \in Range(s)
        PROVE  \E kind \in Kinds : c.name \in Range(lists[kind])
    <3>1. PICK kind \in Kinds : c \in Range(E(kind))
      BY <1>10
    <3>2. QED
      BY <2>1, <3>1
  <2>4. UNION {Range(lists[kind]) : kind \in Kinds} \subseteq {c.name : c \in Range(s)}
    BY <2>2
  <2>5. {c.name : c \in Range(s)} \subseteq UNION {Range(lists[kind]) : kind \in Kinds}
    BY <2>3
  <2>6. QED
    BY <2>4, <2>5
<1>13. QED
  BY <1>1, <1>9, <1>11, <1>12

\* What the first k candidates leave: columns among them, none twice, and all
\* of their names unless the columns are full.
Kept(kept, s, k) ==
  /\ kept \in Seq(Column) /\ Len(kept) <= SeriesCap
  /\ \A j \in 1..Len(kept) : \E i \in 1..k : kept[j] = s[i]
  /\ \A i, j \in 1..Len(kept) : kept[i].name = kept[j].name => i = j
  /\ Len(kept) < SeriesCap =>
       \A i \in 1..k : \E j \in 1..Len(kept) : kept[j].name = s[i].name

LEMMA AddKeeps ==
  ASSUME NEW s \in Seq(Column), NEW k, NEW n \in 1..Len(s), 1..n = (1..k) \union {n}, NEW kept,
         Kept(kept, s, k)
  PROVE  Kept(AddColumn(kept, s[n]), s, n)
<1>1. s[n] \in Column /\ kept \in Seq(Column) /\ Len(kept) \in Nat /\ SeriesCap \in Nat
  BY ElementOfSeq, LenProperties, CapsAssumption DEF Kept
<1>2. PICK K, N : K = 1..k /\ N = 1..n
  OBVIOUS
<1>3. N = K \union {n}
  BY <1>2
<1>4. /\ \A j \in 1..Len(kept) : \E i \in K : kept[j] = s[i]
      /\ \A i, j \in 1..Len(kept) : kept[i].name = kept[j].name => i = j
      /\ Len(kept) < SeriesCap =>
           \A i \in K : \E j \in 1..Len(kept) : kept[j].name = s[i].name
      /\ Len(kept) <= SeriesCap
  BY <1>2 DEF Kept
<1>5. CASE Len(kept) >= SeriesCap \/ \E j \in 1..Len(kept) : kept[j].name = s[n].name
  <2>1. AddColumn(kept, s[n]) = kept
    BY <1>5 DEF AddColumn
  <2>2. \A j \in 1..Len(kept) : \E i \in N : kept[j] = s[i]
    BY <1>3, <1>4
  <2>3. Len(kept) < SeriesCap =>
          \A i \in N : \E j \in 1..Len(kept) : kept[j].name = s[i].name
    BY <1>1, <1>3, <1>4, <1>5
  <2>4. QED
    BY <1>1, <1>2, <1>4, <2>1, <2>2, <2>3 DEF Kept
<1>6. CASE /\ Len(kept) < SeriesCap
           /\ \A j \in 1..Len(kept) : kept[j].name # s[n].name
  <2>1. PICK e : e = Append(kept, s[n])
    OBVIOUS
  <2>2. PICK l \in Nat : l = Len(kept) + 1
    BY <1>1
  <2>3. /\ e \in Seq(Column) /\ Len(e) = l /\ e[l] = s[n]
        /\ \A j \in 1..Len(kept) : e[j] = kept[j]
    BY <1>1, <2>1, <2>2, AppendProperties
  <2>4. AddColumn(kept, s[n]) = e
    BY <1>1, <1>6, <2>1 DEF AddColumn
  <2>5. PICK J, L : J = 1..Len(kept) /\ L = 1..l
    OBVIOUS
  <2>6. L = J \union {l} /\ l \notin J
    BY <1>1, <2>2, <2>5
  <2>7. l <= SeriesCap
    BY <1>1, <1>6, <2>2
  <2>8. \A j \in L : \E i \in N : e[j] = s[i]
    <3>1. \A j \in J : \E i \in N : e[j] = s[i]
      BY <1>3, <1>4, <2>3, <2>5
    <3>2. \E i \in N : e[l] = s[i]
      BY <1>3, <2>3
    <3>3. QED
      BY <2>6, <3>1, <3>2
  <2>9. \A i, j \in L : e[i].name = e[j].name => i = j
    BY <1>4, <1>6, <2>3, <2>5, <2>6, Zenon
  <2>10. \A i \in N : \E j \in L : e[j].name = s[i].name
    <3>1. \A i \in K : \E j \in J : e[j].name = s[i].name
      BY <1>4, <1>6, <2>3, <2>5
    <3>2. e[l].name = s[n].name
      BY <2>3
    <3>3. QED
      BY <1>3, <2>6, <3>1, <3>2
  <2>11. QED
    BY <1>2, <2>3, <2>4, <2>5, <2>7, <2>8, <2>9, <2>10 DEF Kept
<1>7. QED
  BY <1>1, <1>5, <1>6

LEMMA ColumnsKeep ==
  ASSUME NEW lists, Offered(lists) \in Seq(Column)
  PROVE  Kept(ColumnsOf(lists), Offered(lists), Len(Offered(lists)))
<1>1. PICK s \in Seq(Column) : s = Offered(lists)
  OBVIOUS
<1>2. PICK n \in Nat : n = Len(s)
  BY LenProperties
<1>3. PICK f : Folds(f, s, n) /\ ColumnsOf(lists) = f[1..n]
  BY <1>1, <1>2, ColumnsFold
<1>4. /\ f[1..0] = <<>>
      /\ \A k \in Nat : k + 1 \in 1..n => f[1..(k + 1)] = AddColumn(f[1..k], s[k + 1])
  BY <1>3, FoldsNext
<1> DEFINE P(k) == k \in 0..n => Kept(f[1..k], s, k)
           T == {k \in Nat : P(k)}
<1>5. 0 \in T
  <2>1. Kept(<<>>, s, 0)
    BY EmptySeq, CapsAssumption DEF Kept
  <2>2. QED
    BY <1>4, <2>1
<1>6. ASSUME NEW k \in Nat, k \in T
      PROVE  k + 1 \in T
  <2>1. SUFFICES ASSUME k + 1 \in 1..n
                 PROVE  Kept(f[1..(k + 1)], s, k + 1)
    OBVIOUS
  <2>2. Kept(f[1..k], s, k)
    <3>1. k \in 0..n
      BY <2>1
    <3>2. QED
      BY <1>6, <3>1, Zenon
  <2>3. f[1..(k + 1)] = AddColumn(f[1..k], s[k + 1])
    BY <1>4, <2>1, Zenon
  <2>4. Kept(AddColumn(f[1..k], s[k + 1]), s, k + 1)
    <3>1. 1..(k + 1) = (1..k) \union {k + 1}
      OBVIOUS
    <3>2. QED
      BY <1>2, <2>1, <2>2, <3>1, AddKeeps
  <2>5. QED
    BY <2>3, <2>4, Zenon
<1>7. \A k \in Nat : k \in T
  <2> HIDE DEF T
  <2>1. QED
    BY <1>5, <1>6, NatInducts
<1>8. n \in 0..n
  OBVIOUS
<1>9. Kept(f[1..n], s, n)
  BY <1>7, <1>8, Zenon
<1>10. QED
  BY <1>1, <1>2, <1>3, <1>9

-----------------------------------------------------------------------------
(***************************************************************************)
(* The rows.  The inductive invariant knows more than the property: the    *)
(* buffer holds the last Len(time) rows in a row; what the beats handed on *)
(* is increasing and is exactly the rows up to Taken that were not lost;   *)
(* and something is on its way only once the snapshot was seen, which is   *)
(* never taken back.                                                       *)
(***************************************************************************)

Rows == 1..MaxRows

\* What the beats have handed on, in the order the panel gets it.
Sent == Cat(Cat(plot, FlattenSeq(channel)), delta)

\* The rows up to this one were taken by a beat or dropped before one could.
Taken == written - Len(time) + cursor

TimeInv ==
  /\ Len(time) <= written
  /\ \A i \in 1..Len(time) : time[i] = written - Len(time) + i

PhaseInv ==
  /\ delta # <<>> => hpc = "emit"
  /\ hpc = "joined" => ipc \in {"done", "failed"}
  /\ responded => hpc = "joined" /\ (InOrderIpc => channel = <<>>)

SentInv ==
  /\ overflowed \union missed \subseteq 1..Taken
  /\ ~responded => Sorted(Sent) /\ Range(Sent) = (1..Taken) \ (overflowed \union missed)

SeenInv ==
  /\ ~responded /\ (plot # <<>> \/ channel # <<>>) => sawSnap
  /\ sawSnap => snap

ColsInv ==
  /\ names \in NameLists
  /\ ipc = "compile" => written = 0 /\ cols = <<>>
  /\ ipc \notin {"compile", "failed"} => cols = ColumnsOf(names)
  /\ DOMAIN values = 1..Len(cols)
  /\ \A k \in DOMAIN values : values[k] = time

\* The inductive invariant.
LiveInv ==
  LiveTypeOK /\ TimeInv /\ PhaseInv /\ SentInv /\ ResultIsComplete /\ SeenInv /\ ColsInv

LEMMA TypeFacts ==
  ASSUME LiveTypeOK
  PROVE  /\ time \in Seq(Rows) /\ Len(time) \in Nat /\ \A i \in 1..Len(time) : time[i] \in Rows
         /\ delta \in Seq(Rows) /\ plot \in Seq(Rows) /\ channel \in Seq(Seq(Rows))
         /\ FlattenSeq(channel) \in Seq(Rows)
         /\ Cat(plot, FlattenSeq(channel)) \in Seq(Rows)
         /\ Sent \in Seq(Rows)
         /\ cursor \in Nat /\ cursor <= Len(time) /\ written \in Nat /\ written <= MaxRows
<1>1. /\ time \in Seq(Rows) /\ delta \in Seq(Rows) /\ plot \in Seq(Rows)
      /\ channel \in Seq(Seq(Rows))
  BY DEF LiveTypeOK, Rows
<1>2. Len(time) \in Nat /\ \A i \in 1..Len(time) : time[i] \in Rows
  BY <1>1, LenProperties, ElementOfSeq
<1>3. PICK f \in Seq(Rows) : f = FlattenSeq(channel)
  BY <1>1, FlattenType
<1>4. PICK b \in Seq(Rows) : b = Cat(plot, f)
  BY <1>1, ConcatProperties DEF Cat
<1>5. Cat(b, delta) \in Seq(Rows)
  BY <1>1, ConcatProperties DEF Cat
<1>6. Sent \in Seq(Rows)
  BY <1>3, <1>4, <1>5 DEF Sent
<1>7. cursor \in Nat /\ cursor <= Len(time) /\ written \in Nat /\ written <= MaxRows
  BY <1>2, CapsAssumption DEF LiveTypeOK
<1>8. QED
  BY <1>1, <1>2, <1>3, <1>4, <1>6, <1>7

LEMMA RowsAreNat ==
  ASSUME NEW s \in Seq(Rows)
  PROVE  s \in Seq(Nat)
BY SeqMonotonic, CapsAssumption DEF Rows

LEMMA UnreadFacts ==
  ASSUME LiveTypeOK, TimeInv
  PROVE  /\ Unread \in Seq(Rows)
         /\ Sorted(Unread)
         /\ Range(Unread) = (Taken + 1)..written
         /\ Taken \in Nat /\ Taken <= written
         /\ cursor >= Len(time) => Unread = <<>> /\ Taken = written
<1>1. /\ Len(time) \in Nat /\ cursor \in Nat /\ cursor <= Len(time) /\ written \in Nat
      /\ Len(time) <= written
      /\ \A i \in 1..Len(time) : time[i] \in Rows /\ time[i] = written - Len(time) + i
  BY TypeFacts DEF TimeInv
<1>2. PICK m \in Nat : m = cursor + 1
  BY <1>1
<1>3. PICK n \in Nat : n = Len(time)
  BY <1>1
<1>4. PICK u \in Seq(Rows) : /\ u = Unread
                             /\ Len(u) = IF m <= n THEN n - m + 1 ELSE 0
                             /\ \A i \in 1..(n - m + 1) : u[i] = time[m + i - 1]
  <2>1. m \in Int /\ n \in Int /\ \A i \in m..n : time[i] \in Rows
    BY <1>1, <1>2, <1>3
  <2>2. Unread = SubSeq(time, m, n)
    BY <1>2, <1>3 DEF Unread
  <2>3. /\ SubSeq(time, m, n) \in Seq(Rows)
        /\ Len(SubSeq(time, m, n)) = IF m <= n THEN n - m + 1 ELSE 0
        /\ \A i \in 1..(n - m + 1) : SubSeq(time, m, n)[i] = time[m + i - 1]
    BY <2>1, SubSeqProperties
  <2>4. QED
    BY <2>2, <2>3, Zenon
<1>5. Len(u) = n - cursor
  BY <1>1, <1>2, <1>3, <1>4
<1>6. ASSUME NEW i \in 1..Len(u)
      PROVE  u[i] = Taken + i
  <2>1. /\ i \in 1..(n - m + 1) /\ m + i - 1 = cursor + i /\ cursor + i \in 1..Len(time)
    BY <1>1, <1>2, <1>3, <1>5
  <2>2. u[i] = time[cursor + i]
    BY <1>4, <2>1
  <2>3. time[cursor + i] = written - Len(time) + (cursor + i)
    BY <1>1, <2>1
  <2>4. QED
    BY <1>1, <2>2, <2>3 DEF Taken
<1>7. Taken \in Nat /\ Taken <= written /\ Taken + Len(u) = written
  BY <1>1, <1>2, <1>3, <1>5 DEF Taken
<1>8. Sorted(u)
  BY <1>6, <1>7, LenProperties DEF Sorted
<1>9. Range(u) = (Taken + 1)..written
  <2>1. Range(u) = {u[i] : i \in 1..Len(u)}
    BY RangeEquality
  <2>2. ASSUME NEW x \in (Taken + 1)..written
        PROVE  x \in Range(u)
    <3>1. x - Taken \in 1..Len(u) /\ Taken + (x - Taken) = x
      BY <1>1, <1>7, LenProperties
    <3>2. QED
      BY <1>6, <2>1, <3>1
  <2>3. ASSUME NEW i \in 1..Len(u)
        PROVE  u[i] \in (Taken + 1)..written
    BY <1>1, <1>6, <1>7, LenProperties
  <2>4. QED
    BY <2>1, <2>2, <2>3
<1>10. cursor >= Len(time) => u = <<>> /\ Taken = written
  BY <1>1, <1>2, <1>3, <1>5, EmptySeq DEF Taken
<1>11. QED
  BY <1>4, <1>7, <1>8, <1>9, <1>10

\* A row is pushed: the buffer stays consecutive, and either nothing unread is
\* dropped or the oldest unread row is.
LEMMA PushFacts ==
  ASSUME LiveInv, WriteRow
  PROVE  /\ time' \in Seq(Rows) /\ Len(time') \in Nat /\ Len(time') <= PointCap
         /\ TimeInv'
         /\ written' \in Nat /\ written' <= MaxRows
         /\ cursor' \in Nat /\ cursor' <= Len(time')
         /\ \/ Taken' = Taken /\ overflowed' = overflowed
            \/ Taken' = Taken + 1 /\ overflowed' = overflowed \union {Taken + 1}
         /\ DOMAIN values' = DOMAIN values /\ \A k \in DOMAIN values' : values'[k] = time'
<1>1. /\ time \in Seq(Rows) /\ Len(time) \in Nat /\ Len(time) <= PointCap
      /\ cursor \in Nat /\ cursor <= Len(time)
      /\ written \in Nat /\ written < MaxRows /\ written' = written + 1
      /\ Len(time) <= written
      /\ \A i \in 1..Len(time) : time[i] = written - Len(time) + i
      /\ PointCap \in Nat /\ PointCap # 0 /\ MaxRows \in Nat
  BY TypeFacts, CapsAssumption DEF LiveInv, LiveTypeOK, TimeInv, WriteRow
<1>2. PICK t : t = Append(time, written + 1)
  OBVIOUS
<1>3. PICK n \in Nat : n = Len(time) + 1
  BY <1>1
<1>4. /\ t \in Seq(Rows) /\ Len(t) = n
      /\ \A i \in 1..n : t[i] = (written + 1) - n + i /\ t[i] \in Rows
  <2>1. written + 1 \in Rows
    BY <1>1 DEF Rows
  <2>2. /\ t \in Seq(Rows) /\ Len(t) = n
        /\ \A i \in 1..Len(time) : t[i] = time[i]
        /\ t[n] = written + 1
    BY <1>1, <1>2, <1>3, <2>1, AppendProperties
  <2>3. ASSUME NEW i \in 1..n
        PROVE  t[i] = (written + 1) - n + i /\ t[i] \in Rows
    <3>1. CASE i = n
      BY <1>1, <2>1, <2>2, <3>1
    <3>2. CASE i \in 1..Len(time)
      <4>1. t[i] = written - Len(time) + i
        BY <1>1, <2>2, <3>2
      <4>2. written - Len(time) + i = (written + 1) - n + i
        BY <1>1, <1>3
      <4>3. t[i] \in Rows
        BY <2>2, ElementOfSeq
      <4>4. QED
        BY <4>1, <4>2, <4>3
    <3>3. QED
      BY <1>1, <1>3, <3>1, <3>2
  <2>4. QED
    BY <2>2, <2>3
<1>5. PICK d \in Nat : d = IF n > PointCap THEN n - PointCap ELSE 0
  <2>1. CASE n > PointCap
    <3>1. n - PointCap \in Nat
      BY <1>1, <2>1
    <3>2. QED
      BY <2>1, <3>1
  <2>2. CASE ~(n > PointCap)
    BY <2>2
  <2>3. QED
    BY <2>1, <2>2
<1>6. /\ d = 0 \/ d = 1
      /\ n - d \in Nat /\ n - d <= PointCap /\ n - d <= written + 1
      /\ n - d >= 1
  <2>1. CASE n > PointCap
    BY <1>1, <1>3, <1>5, <2>1
  <2>2. CASE ~(n > PointCap)
    BY <1>1, <1>3, <1>5, <2>2
  <2>3. QED
    BY <2>1, <2>2
<1>7. /\ time' = SubSeq(t, d + 1, n)
      /\ values' = [k \in DOMAIN values |->
                      IF Len(Append(values[k], written + 1)) >= d
                        THEN SubSeq(Append(values[k], written + 1), d + 1,
                                    Len(Append(values[k], written + 1)))
                        ELSE Append(values[k], written + 1)]
      /\ cursor' = IF cursor > d THEN cursor - d ELSE 0
      /\ overflowed' = overflowed \union {t[i] : i \in (cursor + 1)..d}
  BY <1>2, <1>4, <1>5 DEF WriteRow, Push
<1>8. PICK m \in Nat : m = d + 1
  OBVIOUS
<1>9. /\ time' \in Seq(Rows)
      /\ Len(time') = n - d
      /\ \A i \in 1..(n - d) : time'[i] = t[d + i]
  <2>1. m \in Int /\ n \in Int /\ \A i \in m..n : t[i] \in Rows
    BY <1>4, <1>8
  <2>2. /\ SubSeq(t, m, n) \in Seq(Rows)
        /\ Len(SubSeq(t, m, n)) = IF m <= n THEN n - m + 1 ELSE 0
        /\ \A i \in 1..(n - m + 1) : SubSeq(t, m, n)[i] = t[m + i - 1]
    BY <2>1, SubSeqProperties
  <2>3. time' = SubSeq(t, m, n)
    BY <1>7, <1>8
  <2>4. n - m + 1 = n - d /\ (m <= n) /\ \A i \in 1..(n - d) : m + i - 1 = d + i
    BY <1>6, <1>8
  <2>5. QED
    BY <2>2, <2>3, <2>4
<1>10. TimeInv'
  <2>1. ASSUME NEW i \in 1..(n - d)
        PROVE  time'[i] = (written + 1) - (n - d) + i
    <3>1. d + i \in 1..n
      BY <1>6
    <3>2. t[d + i] = (written + 1) - n + (d + i)
      BY <1>4, <3>1
    <3>3. QED
      BY <1>1, <1>6, <1>9, <3>2
  <2>2. QED
    BY <1>1, <1>6, <1>9, <2>1 DEF TimeInv
<1>11. cursor' \in Nat /\ cursor' <= n - d
  BY <1>1, <1>3, <1>6, <1>7
<1>12. \/ Taken' = Taken /\ overflowed' = overflowed
       \/ Taken' = Taken + 1 /\ overflowed' = overflowed \union {Taken + 1}
  <2>1. Taken = written - Len(time) + cursor /\ Taken' = (written + 1) - (n - d) + cursor'
    BY <1>1, <1>9 DEF Taken
  <2>2. CASE d = 0 \/ cursor > 0
    <3>1. (cursor + 1)..d = {}
      BY <1>1, <1>6, <2>2
    <3>2. overflowed' = overflowed
      BY <1>7, <3>1
    <3>3. Taken' = Taken
      BY <1>1, <1>3, <1>6, <1>7, <2>1, <2>2
    <3>4. QED
      BY <3>2, <3>3
  <2>3. CASE d = 1 /\ cursor = 0
    <3>1. (cursor + 1)..d = {1} /\ 1 \in 1..n
      BY <1>6, <2>3
    <3>2. t[1] = (written + 1) - n + 1
      BY <1>4, <3>1
    <3>3. (written + 1) - n + 1 = Taken + 1 /\ Taken' = Taken + 1
      BY <1>1, <1>3, <1>7, <2>1, <2>3
    <3>4. overflowed' = overflowed \union {Taken + 1}
      <4>1. PICK x : x = t[1]
        OBVIOUS
      <4>2. {t[i] : i \in (cursor + 1)..d} = {x}
        BY <3>1, <4>1
      <4>3. x = Taken + 1
        BY <3>2, <3>3, <4>1
      <4>4. QED
        BY <1>7, <4>2, <4>3, Zenon
    <3>5. QED
      BY <3>3, <3>4
  <2>4. QED
    BY <1>1, <1>6, <2>2, <2>3
<1>13. DOMAIN values' = DOMAIN values /\ \A k \in DOMAIN values' : values'[k] = time'
  <2>1. \A k \in DOMAIN values : values[k] = time
    BY DEF LiveInv, ColsInv
  <2>2. ASSUME NEW k \in DOMAIN values
        PROVE  Append(values[k], written + 1) = t
    BY <1>2, <2>1
  <2>3. Len(t) = n /\ n >= d
    BY <1>4, <1>6
  <2>4. \A k \in DOMAIN values : values'[k] = SubSeq(t, d + 1, n)
    BY <1>7, <2>2, <2>3
  <2>5. QED
    BY <1>7, <2>4
<1>14. QED
  BY <1>1, <1>6, <1>9, <1>10, <1>11, <1>12, <1>13

LEMMA LiveInitInv == LiveInit => LiveInv
<1> SUFFICES ASSUME LiveInit
             PROVE  LiveInv
  OBVIOUS
<1>1. PICK e : e = <<>>
  OBVIOUS
<1>2. /\ ipc = "compile" /\ names \in NameLists /\ snap = FALSE /\ cols = e /\ written = 0
      /\ time = e /\ values = e /\ cursor = 0 /\ overflowed = {}
      /\ hpc = "wait" /\ sawSnap = FALSE /\ delta = e /\ missed = {}
      /\ channel = e /\ responded = FALSE /\ plot = e
  BY <1>1 DEF LiveInit
<1>3. Len(e) = 0 /\ e \in Seq(Rows) /\ e \in Seq(Seq(Rows)) /\ e \in Seq(Nat)
  BY <1>1, EmptySeq
<1>4. Range(e) = {} /\ DOMAIN e = {}
  <2>1. DOMAIN e = {}
    BY <1>3, LenProperties
  <2>2. QED
    BY <2>1 DEF Range
<1>5. LiveTypeOK
  <2>1. /\ time \in Seq(Rows) /\ delta \in Seq(Rows) /\ plot \in Seq(Rows)
        /\ channel \in Seq(Seq(Rows))
    BY <1>2, <1>3
  <2>2. /\ Len(time) = 0 /\ Len(cols) = 0 /\ Len(values) = 0 /\ cursor = 0 /\ written = 0
        /\ PointCap \in Nat /\ SeriesCap \in Nat /\ MaxRows \in Nat
    BY <1>2, <1>3, CapsAssumption
  <2>3. /\ Len(time) <= PointCap /\ cursor \in 0..Len(time)
        /\ Len(cols) <= SeriesCap /\ Len(values) = Len(cols) /\ written \in 0..MaxRows
    BY <2>2
  <2>4. /\ ipc \in {"compile", "poll", "row", "done", "failed"}
        /\ hpc \in {"wait", "take", "emit", "joined"}
        /\ snap \in BOOLEAN /\ sawSnap \in BOOLEAN /\ responded \in BOOLEAN
        /\ overflowed \subseteq 1..MaxRows /\ missed \subseteq 1..MaxRows
    BY <1>2
  <2>5. QED
    BY <2>1, <2>3, <2>4, Zenon DEF LiveTypeOK, Rows
<1>6. TimeInv /\ PhaseInv /\ ResultIsComplete /\ SeenInv /\ ColsInv
  BY <1>1, <1>2, <1>3, <1>4 DEF TimeInv, PhaseInv, ResultIsComplete, SeenInv, ColsInv
<1>7. SentInv
  <2>1. Sent = e
    <3>1. FlattenSeq(e) = e
      BY <1>3 DEF FlattenSeq
    <3>2. Cat(e, e) = e
      BY <1>1, <1>3, ConcatEmptySeq DEF Cat
    <3>3. QED
      BY <1>2, <3>1, <3>2 DEF Sent
  <2>2. Taken = 0
    BY <1>2, <1>3 DEF Taken
  <2>3. Sorted(e)
    BY <1>3 DEF Sorted
  <2>4. QED
    BY <1>2, <1>4, <2>1, <2>2, <2>3 DEF SentInv
<1>8. QED
  BY <1>5, <1>6, <1>7 DEF LiveInv

\* A step that touches neither the buffer nor what is on its way.
LEMMA SentSame ==
  ASSUME LiveInv,
         UNCHANGED <<plot, channel, delta, time, written, cursor, overflowed, missed, responded>>
  PROVE  SentInv' /\ TimeInv'
<1>1. Sent' = Sent /\ Taken' = Taken
  BY DEF Sent, Taken
<1>2. SentInv'
  BY <1>1 DEF LiveInv, SentInv
<1>3. TimeInv'
  BY DEF LiveInv, TimeInv
<1>4. QED
  BY <1>2, <1>3

LEMMA BindInv == LiveInv /\ Bind => LiveInv'
<1> SUFFICES ASSUME LiveInv, Bind
             PROVE  LiveInv'
  OBVIOUS
<1>1. /\ ipc = "compile" /\ ipc' = "poll" /\ cols' = ColumnsOf(names)
      /\ values' = [k \in 1..Len(cols') |-> <<>>]
      /\ UNCHANGED <<names, snap, written, time, cursor, overflowed>>
      /\ UNCHANGED <<hpc, sawSnap, delta, missed, channel, responded, plot>>
  BY DEF Bind, heartbeat, panel
<1>2. names \in [out : Seq(STRING), state : Seq(STRING), disc : Seq(STRING)]
  BY NamesAssumption DEF LiveInv, ColsInv
<1>3. cols' \in Seq(Column) /\ Len(cols') <= SeriesCap
  BY <1>1, <1>2, OfferedColumns, ColumnsKeep DEF Kept
<1>4. Len(cols') \in Nat /\ Len(values') = Len(cols')
  BY <1>1, <1>3, LenProperties
<1>5. time = <<>>
  <2>1. written = 0 /\ Len(time) \in Nat /\ Len(time) <= written
    BY <1>1, TypeFacts DEF LiveInv, ColsInv, TimeInv
  <2>2. QED
    BY <2>1, TypeFacts, EmptySeq DEF LiveInv
<1>6. LiveTypeOK'
  BY <1>1, <1>3, <1>4 DEF LiveInv, LiveTypeOK
<1>7. SentInv' /\ TimeInv'
  BY <1>1, SentSame
<1>8. PhaseInv' /\ SeenInv' /\ ResultIsComplete'
  BY <1>1 DEF LiveInv, PhaseInv, SeenInv, ResultIsComplete
<1>9. ColsInv'
  BY <1>1, <1>5 DEF LiveInv, ColsInv
<1>10. QED
  BY <1>6, <1>7, <1>8, <1>9 DEF LiveInv

LEMMA IdleInv ==
  ASSUME LiveInv, Poll \/ SkipRow \/ EndRun \/ ReadSnap \/ Join
  PROVE  LiveInv'
<1>1. UNCHANGED <<names, cols, values, time, written, cursor, overflowed, delta, missed, channel,
                  responded, plot>>
  BY DEF Poll, SkipRow, EndRun, ReadSnap, Join, integrator, buffer, heartbeat, panel
<1>2. SentInv' /\ TimeInv'
  BY <1>1, SentSame
<1>3. LiveTypeOK'
  BY <1>1 DEF LiveInv, LiveTypeOK, Poll, SkipRow, EndRun, ReadSnap, Join, integrator, heartbeat
<1>4. PhaseInv'
  BY <1>1 DEF LiveInv, LiveTypeOK, PhaseInv, Poll, SkipRow, EndRun, ReadSnap, Join, integrator,
              heartbeat
<1>5. SeenInv'
  BY <1>1 DEF LiveInv, LiveTypeOK, PhaseInv, SeenInv, Poll, SkipRow, EndRun, ReadSnap, Join,
              integrator, heartbeat
<1>6. ColsInv'
  BY <1>1 DEF LiveInv, ColsInv, Poll, SkipRow, EndRun, ReadSnap, Join, integrator
<1>7. ResultIsComplete'
  <2>1. AllRows' = AllRows
    BY <1>1 DEF AllRows
  <2>2. responded => UNCHANGED ipc
    BY DEF LiveInv, PhaseInv, Poll, SkipRow, EndRun, ReadSnap, Join, integrator
  <2>3. QED
    BY <1>1, <2>1, <2>2 DEF LiveInv, ResultIsComplete
<1>8. QED
  BY <1>2, <1>3, <1>4, <1>5, <1>6, <1>7 DEF LiveInv

LEMMA WriteRowInv == LiveInv /\ WriteRow => LiveInv'
<1> SUFFICES ASSUME LiveInv, WriteRow
             PROVE  LiveInv'
  OBVIOUS
<1>1. /\ ipc = "row" /\ ipc' = "poll" /\ written' = written + 1
      /\ UNCHANGED <<names, snap, cols, hpc, sawSnap, delta, missed, channel, responded, plot>>
  BY DEF WriteRow, heartbeat, panel
<1>2. /\ time' \in Seq(Rows) /\ Len(time') \in Nat /\ Len(time') <= PointCap
      /\ TimeInv'
      /\ written' \in Nat /\ written' <= MaxRows
      /\ cursor' \in Nat /\ cursor' <= Len(time')
      /\ \/ Taken' = Taken /\ overflowed' = overflowed
         \/ Taken' = Taken + 1 /\ overflowed' = overflowed \union {Taken + 1}
      /\ DOMAIN values' = DOMAIN values /\ \A k \in DOMAIN values' : values'[k] = time'
  BY PushFacts
<1>3. Taken \in Nat /\ Taken <= written /\ written \in Nat /\ written < MaxRows
  BY UnreadFacts, TypeFacts DEF LiveInv, WriteRow
<1>4. SentInv'
  <2>1. Sent' = Sent
    BY <1>1 DEF Sent
  <2>2. SentInv
    BY DEF LiveInv
  <2>3. CASE Taken' = Taken /\ overflowed' = overflowed
    BY <1>1, <2>1, <2>2, <2>3 DEF SentInv
  <2>4. CASE Taken' = Taken + 1 /\ overflowed' = overflowed \union {Taken + 1}
    <3>1. 1..(Taken + 1) = (1..Taken) \union {Taken + 1} /\ Taken + 1 \notin 1..Taken
      BY <1>3
    <3>2. QED
      BY <1>1, <2>1, <2>2, <2>4, <3>1 DEF SentInv
  <2>5. QED
    BY <1>2, <2>3, <2>4
<1>5. LiveTypeOK'
  <2>1. Len(values') = Len(values)
    BY <1>2 DEF WriteRow, Push, LiveInv, ColsInv
  <2>2. overflowed' \subseteq 1..MaxRows
    <3>1. overflowed \subseteq 1..MaxRows /\ Taken + 1 \in 1..MaxRows
      BY <1>3, CapsAssumption DEF LiveInv, LiveTypeOK
    <3>2. QED
      BY <1>2, <3>1
  <2>3. cursor' \in 0..Len(time') /\ written' \in 0..MaxRows
    BY <1>2, CapsAssumption
  <2>4. QED
    BY <1>1, <1>2, <2>1, <2>2, <2>3 DEF LiveInv, LiveTypeOK, Rows
<1>6. ColsInv'
  BY <1>1, <1>2 DEF LiveInv, ColsInv
<1>7. PhaseInv' /\ SeenInv' /\ ResultIsComplete'
  BY <1>1 DEF LiveInv, PhaseInv, SeenInv, ResultIsComplete
<1>8. QED
  BY <1>2, <1>4, <1>5, <1>6, <1>7 DEF LiveInv

LEMMA CatFacts ==
  ASSUME NEW S
  PROVE  /\ <<>> \in Seq(S) /\ Range(<<>>) = {} /\ FlattenSeq(<<>>) = <<>>
         /\ \A a \in Seq(S) : Cat(a, <<>>) = a /\ Cat(<<>>, a) = a
         /\ \A a, b \in Seq(S) : Cat(a, b) \in Seq(S) /\ Range(Cat(a, b)) = Range(a) \union Range(b)
<1>1. <<>> \in Seq(S) /\ Len(<<>>) = 0
  BY EmptySeq
<1>2. Range(<<>>) = {}
  <2>1. PICK e \in Seq(S) : e = <<>> /\ Len(e) = 0
    BY <1>1
  <2>2. DOMAIN e = {}
    BY <2>1, LenProperties
  <2>3. QED
    BY <2>1, <2>2 DEF Range
<1>3. FlattenSeq(<<>>) = <<>>
  BY <1>1 DEF FlattenSeq
<1>4. ASSUME NEW a \in Seq(S)
      PROVE  Cat(a, <<>>) = a /\ Cat(<<>>, a) = a
  BY ConcatEmptySeq DEF Cat
<1>5. ASSUME NEW a \in Seq(S), NEW b \in Seq(S)
      PROVE  Cat(a, b) \in Seq(S) /\ Range(Cat(a, b)) = Range(a) \union Range(b)
  BY ConcatProperties, RangeConcatenation DEF Cat
<1>6. QED
  BY <1>1, <1>2, <1>3, <1>4, <1>5

LEMMA TakeDeltaInv == LiveInv /\ TakeDelta => LiveInv'
<1> SUFFICES ASSUME LiveInv, TakeDelta
             PROVE  LiveInv'
  OBVIOUS
<1>1. /\ hpc = "take" /\ hpc' = "emit"
      /\ UNCHANGED <<sawSnap, missed, time, values, overflowed, ipc, names, snap, cols, written,
                     channel, responded, plot>>
      /\ \/ cursor >= Len(time) /\ delta' = <<>> /\ cursor' = cursor
         \/ ~(cursor >= Len(time)) /\ delta' = Unread /\ cursor' = Len(time)
  BY DEF TakeDelta, integrator, panel
<1>2. LiveTypeOK /\ TimeInv /\ PhaseInv /\ SentInv
  BY DEF LiveInv
<1>3. /\ Unread \in Seq(Rows) /\ Sorted(Unread) /\ Range(Unread) = (Taken + 1)..written
      /\ Taken \in Nat /\ Taken <= written
      /\ cursor \in Nat /\ cursor <= Len(time) /\ Len(time) \in Nat /\ written \in Nat
  BY <1>2, UnreadFacts, TypeFacts
<1>4. PICK b \in Seq(Rows) : b = Cat(plot, FlattenSeq(channel))
  BY <1>2, TypeFacts
<1>5. delta = <<>> /\ Sent = b /\ Sent' = Cat(b, delta')
  <2>1. delta = <<>>
    BY <1>1, <1>2 DEF PhaseInv
  <2>2. Sent = b
    BY <1>4, <2>1, CatFacts DEF Sent
  <2>3. Sent' = Cat(b, delta')
    BY <1>1, <1>4 DEF Sent
  <2>4. QED
    BY <2>1, <2>2, <2>3
<1>6. delta' \in Seq(Rows) /\ cursor' \in 0..Len(time')
  <2>1. <<>> \in Seq(Rows)
    BY EmptySeq
  <2>2. delta' \in Seq(Rows)
    BY <1>1, <1>3, <2>1
  <2>3. cursor' \in 0..Len(time)
    BY <1>1, <1>3
  <2>4. QED
    BY <1>1, <2>2, <2>3
<1>7. LiveTypeOK'
  BY <1>1, <1>2, <1>6 DEF LiveTypeOK, Rows
<1>8. TimeInv'
  BY <1>1, <1>2 DEF TimeInv
<1>9. SentInv'
  <2>1. CASE delta' = <<>> /\ cursor' = cursor
    <3>1. Sent' = Sent
      BY <1>4, <1>5, <2>1, CatFacts
    <3>2. Taken' = Taken
      BY <1>1, <2>1 DEF Taken
    <3>3. QED
      BY <1>1, <1>2, <3>1, <3>2 DEF SentInv
  <2>2. CASE delta' = Unread /\ cursor' = Len(time)
    <3>1. Taken' = written
      BY <1>1, <1>3, <2>2 DEF Taken
    <3>2. 1..Taken \subseteq 1..written
      BY <1>3
    <3>3. overflowed \union missed \subseteq 1..Taken
      BY <1>2 DEF SentInv
    <3>4. ASSUME ~responded
          PROVE  /\ Sorted(Cat(b, Unread))
                 /\ Range(Cat(b, Unread)) = (1..written) \ (overflowed \union missed)
      <4>1. Sorted(b) /\ Range(b) = (1..Taken) \ (overflowed \union missed)
        BY <1>2, <1>5, <3>4 DEF SentInv
      <4>2. \A x \in Range(b), y \in Range(Unread) : x < y
        BY <1>3, <4>1
      <4>3. b \in Seq(Nat) /\ Unread \in Seq(Nat)
        BY <1>3, RowsAreNat
      <4>4. Sorted(Cat(b, Unread))
        BY <1>3, <4>1, <4>2, <4>3, SortedConcat DEF Cat
      <4>5. Range(Cat(b, Unread)) = Range(b) \union Range(Unread)
        BY <1>3, CatFacts
      <4>6. 1..written = (1..Taken) \union (Taken + 1)..written
        BY <1>3
      <4>7. ((Taken + 1)..written) \intersect (1..Taken) = {}
        BY <1>3
      <4>8. QED
        BY <1>3, <3>3, <4>1, <4>4, <4>5, <4>6, <4>7
    <3>5. QED
      BY <1>1, <1>5, <2>2, <3>1, <3>2, <3>3, <3>4 DEF SentInv
  <2>3. QED
    BY <1>1, <2>1, <2>2
<1>10. PhaseInv' /\ SeenInv' /\ ResultIsComplete' /\ ColsInv'
  BY <1>1 DEF LiveInv, PhaseInv, SeenInv, ResultIsComplete, AllRows, ColsInv
<1>11. QED
  BY <1>7, <1>8, <1>9, <1>10 DEF LiveInv

LEMMA EmitRunningInv == LiveInv /\ EmitRunning => LiveInv'
<1> SUFFICES ASSUME LiveInv, EmitRunning
             PROVE  LiveInv'
  OBVIOUS
<1>1. /\ hpc = "emit" /\ hpc' = "wait" /\ delta' = <<>>
      /\ UNCHANGED <<sawSnap, ipc, names, snap, cols, written, time, values, cursor, overflowed,
                     responded, plot>>
      /\ \/ sawSnap /\ delta = <<>> /\ channel' = channel /\ missed' = missed
         \/ sawSnap /\ delta # <<>> /\ channel' = Append(channel, delta) /\ missed' = missed
         \/ ~sawSnap /\ channel' = channel /\ missed' = missed \union Range(delta)
  BY DEF EmitRunning, integrator, buffer
<1>2. /\ LiveTypeOK /\ TimeInv /\ PhaseInv /\ SentInv /\ SeenInv
      /\ ~responded
  BY <1>1 DEF LiveInv, PhaseInv
<1>3. /\ delta \in Seq(Rows) /\ plot \in Seq(Rows) /\ channel \in Seq(Seq(Rows))
      /\ FlattenSeq(channel) \in Seq(Rows) /\ Range(delta) \subseteq Rows
  BY <1>2, TypeFacts, RangeOfSeq
<1>4. Taken' = Taken
  BY <1>1 DEF Taken
<1>5. channel' \in Seq(Seq(Rows)) /\ <<>> \in Seq(Rows)
  <2>1. Append(channel, delta) \in Seq(Seq(Rows))
    BY <1>3, AppendProperties
  <2>2. QED
    BY <1>1, <1>3, <2>1, EmptySeq
<1>6. LiveTypeOK'
  BY <1>1, <1>2, <1>3, <1>5 DEF LiveTypeOK, Rows
<1>7. TimeInv'
  BY <1>1, <1>2 DEF TimeInv
<1>8. SentInv'
  <2>1. CASE sawSnap /\ delta = <<>> /\ channel' = channel /\ missed' = missed
    <3>1. Sent' = Sent
      BY <1>1, <2>1 DEF Sent
    <3>2. QED
      BY <1>1, <1>2, <1>4, <2>1, <3>1 DEF SentInv
  <2>2. CASE sawSnap /\ delta # <<>> /\ channel' = Append(channel, delta) /\ missed' = missed
    <3>1. FlattenSeq(channel') = Cat(FlattenSeq(channel), delta)
      BY <1>3, <2>2, FlattenAppend DEF Cat
    <3>2. Cat(plot, Cat(FlattenSeq(channel), delta)) = Sent
      BY <1>3, CatAssociative DEF Sent
    <3>3. Sent \in Seq(Rows)
      BY <1>2, TypeFacts
    <3>4. Sent' = Sent
      BY <1>1, <3>1, <3>2, <3>3, CatFacts DEF Sent
    <3>5. QED
      BY <1>1, <1>2, <1>4, <2>2, <3>4 DEF SentInv
  <2>3. CASE ~sawSnap /\ channel' = channel /\ missed' = missed \union Range(delta)
    <3>1. plot = <<>> /\ channel = <<>>
      BY <1>2, <2>3 DEF SeenInv
    <3>2. Sent = delta /\ Sent' = <<>> /\ Range(<<>>) = {}
      BY <1>1, <1>3, <2>3, <3>1, CatFacts DEF Sent
    <3>3. Sorted(<<>>)
      BY EmptySeq DEF Sorted
    <3>4. /\ overflowed \union missed \subseteq 1..Taken
          /\ Range(delta) = (1..Taken) \ (overflowed \union missed)
      BY <1>2, <3>2 DEF SentInv
    <3>5. overflowed' \union missed' = 1..Taken
      BY <1>1, <2>3, <3>4
    <3>6. QED
      BY <1>4, <3>2, <3>3, <3>5 DEF SentInv
  <2>4. QED
    BY <1>1, <2>1, <2>2, <2>3
<1>9. PhaseInv' /\ SeenInv' /\ ResultIsComplete' /\ ColsInv'
  BY <1>1, <1>2 DEF LiveInv, PhaseInv, SeenInv, ResultIsComplete, AllRows, ColsInv
<1>10. QED
  BY <1>6, <1>7, <1>8, <1>9 DEF LiveInv

LEMMA ReceiveRunningInv == LiveInv /\ ReceiveRunning => LiveInv'
<1> SUFFICES ASSUME LiveInv, ReceiveRunning
             PROVE  LiveInv'
  OBVIOUS
<1>1. /\ channel # <<>> /\ plot' = Cat(plot, Head(channel)) /\ channel' = Tail(channel)
      /\ UNCHANGED <<responded, ipc, names, snap, cols, written, time, values, cursor, overflowed,
                     hpc, sawSnap, delta, missed>>
  BY DEF ReceiveRunning, integrator, buffer, heartbeat, Cat
<1>2. /\ LiveTypeOK /\ TimeInv /\ PhaseInv /\ SentInv /\ SeenInv
  BY DEF LiveInv
<1>3. /\ delta \in Seq(Rows) /\ plot \in Seq(Rows) /\ channel \in Seq(Seq(Rows))
      /\ Head(channel) \in Seq(Rows) /\ channel' \in Seq(Seq(Rows))
  BY <1>1, <1>2, TypeFacts, HeadTailProperties
<1>4. PICK h \in Seq(Rows), f \in Seq(Rows) : h = Head(channel) /\ f = FlattenSeq(channel')
  BY <1>3, FlattenType
<1>5. Cat(plot, h) \in Seq(Rows)
  BY <1>3, CatFacts
<1>6. LiveTypeOK'
  BY <1>1, <1>2, <1>3, <1>4, <1>5 DEF LiveTypeOK, Rows
<1>7. TimeInv'
  BY <1>1, <1>2 DEF TimeInv
<1>8. SentInv'
  <2>1. FlattenSeq(channel) = Cat(h, f)
    BY <1>1, <1>3, <1>4, FlattenHead DEF Cat
  <2>2. Cat(plot, Cat(h, f)) = Cat(Cat(plot, h), f)
    BY <1>3, CatAssociative
  <2>3. Sent' = Sent
    BY <1>1, <1>4, <2>1, <2>2 DEF Sent
  <2>4. Taken' = Taken
    BY <1>1 DEF Taken
  <2>5. QED
    BY <1>1, <1>2, <2>3, <2>4 DEF SentInv
<1>9. PhaseInv' /\ ResultIsComplete'
  BY <1>1, <1>2 DEF LiveInv, PhaseInv, ResultIsComplete
<1>10. SeenInv' /\ ColsInv'
  BY <1>1 DEF LiveInv, SeenInv, ColsInv
<1>11. QED
  BY <1>6, <1>7, <1>8, <1>9, <1>10 DEF LiveInv

LEMMA ReceiveAnswerInv == LiveInv /\ ReceiveAnswer => LiveInv'
<1> SUFFICES ASSUME LiveInv, ReceiveAnswer
             PROVE  LiveInv'
  OBVIOUS
<1>1. /\ hpc = "joined" /\ ~responded /\ (InOrderIpc => channel = <<>>) /\ responded' = TRUE
      /\ plot' = IF ipc = "done" THEN AllRows ELSE plot
      /\ UNCHANGED <<ipc, names, snap, cols, written, time, values, cursor, overflowed,
                     hpc, sawSnap, delta, missed, channel>>
  BY DEF ReceiveAnswer, integrator, buffer, heartbeat
<1>2. /\ LiveTypeOK /\ PhaseInv /\ SentInv
  BY DEF LiveInv
<1>3. AllRows \in Seq(Rows) /\ plot \in Seq(Rows)
  <2>1. written \in Nat /\ written <= MaxRows /\ plot \in Seq(Rows)
    BY <1>2, TypeFacts
  <2>2. \A i \in 1..written : i \in Rows
    BY <2>1, CapsAssumption DEF Rows
  <2>3. AllRows \in Seq(Rows)
    BY <2>1, <2>2 DEF AllRows
  <2>4. QED
    BY <2>1, <2>3
<1>4. LiveTypeOK'
  BY <1>1, <1>2, <1>3 DEF LiveTypeOK, Rows
<1>5. TimeInv' /\ ColsInv' /\ SeenInv'
  BY <1>1 DEF LiveInv, TimeInv, ColsInv, SeenInv
<1>6. PhaseInv'
  BY <1>1, <1>2 DEF PhaseInv
<1>7. SentInv'
  <2>1. Taken' = Taken
    BY <1>1 DEF Taken
  <2>2. QED
    BY <1>1, <1>2, <2>1 DEF SentInv
<1>8. ResultIsComplete'
  BY <1>1 DEF ResultIsComplete, AllRows
<1>9. QED
  BY <1>4, <1>5, <1>6, <1>7, <1>8 DEF LiveInv

LEMMA LiveNextInv == LiveInv /\ [LiveNext]_liveVars => LiveInv'
<1> SUFFICES ASSUME LiveInv, [LiveNext]_liveVars
             PROVE  LiveInv'
  OBVIOUS
<1>1. CASE UNCHANGED liveVars
  BY <1>1 DEF liveVars, integrator, buffer, heartbeat, panel, LiveInv, LiveTypeOK, TimeInv,
              PhaseInv, SentInv, Sent, Taken, ResultIsComplete, AllRows, SeenInv, ColsInv
<1>2. CASE Sample
  BY <1>2, BindInv, WriteRowInv, IdleInv DEF Sample
<1>3. CASE Beat
  BY <1>3, TakeDeltaInv, EmitRunningInv, IdleInv DEF Beat
<1>4. CASE Display
  BY <1>4, ReceiveRunningInv, ReceiveAnswerInv DEF Display
<1>5. QED
  BY <1>1, <1>2, <1>3, <1>4 DEF LiveNext, LiveDone

LEMMA LiveInvariant == LiveSpec => []LiveInv
<1>1. QED
  BY LiveInitInv, LiveNextInv, PTL DEF LiveSpec

-----------------------------------------------------------------------------
(* What the invariant says of the pipeline.                                *)

LEMMA PipelineInOrder ==
  ASSUME LiveInv, ~responded
  PROVE  /\ Increasing(Pipeline)
         /\ Range(Pipeline) = Range(AllRows) \ (overflowed \union missed)
<1>1. /\ Unread \in Seq(Rows) /\ Sorted(Unread) /\ Range(Unread) = (Taken + 1)..written
      /\ Taken \in Nat /\ Taken <= written /\ written \in Nat
      /\ Sent \in Seq(Rows)
  BY UnreadFacts, TypeFacts DEF LiveInv
<1>2. /\ overflowed \union missed \subseteq 1..Taken
      /\ Sorted(Sent) /\ Range(Sent) = (1..Taken) \ (overflowed \union missed)
  BY DEF LiveInv, SentInv
<1>3. Pipeline = Cat(Sent, Unread)
  BY DEF Pipeline, Sent, Cat
<1>4. Sorted(Pipeline) /\ Pipeline \in Seq(Nat)
  <2>1. \A x \in Range(Sent), y \in Range(Unread) : x < y
    BY <1>1, <1>2
  <2>2. Sent \in Seq(Nat) /\ Unread \in Seq(Nat)
    BY <1>1, RowsAreNat
  <2>3. QED
    BY <1>2, <1>1, <1>3, <2>1, <2>2, SortedConcat, CatFacts DEF Cat
<1>5. Increasing(Pipeline)
  <2>1. Len(Pipeline) \in Nat
    BY <1>4, LenProperties
  <2>2. \A i \in 1..(Len(Pipeline) - 1) : /\ i \in 1..Len(Pipeline) /\ i + 1 \in 1..Len(Pipeline)
                                          /\ i < i + 1
    BY <2>1
  <2>3. QED
    BY <1>4, <2>2 DEF Increasing, Sorted
<1>6. Range(Pipeline) = Range(AllRows) \ (overflowed \union missed)
  <2>1. Range(Pipeline) = Range(Sent) \union Range(Unread)
    BY <1>1, <1>3, CatFacts
  <2>2. Range(AllRows) = 1..written
    BY <1>1 DEF AllRows, Range
  <2>3. 1..written = (1..Taken) \union (Taken + 1)..written
    BY <1>1
  <2>4. ((Taken + 1)..written) \intersect (1..Taken) = {}
    BY <1>1
  <2>5. QED
    BY <1>1, <1>2, <2>1, <2>2, <2>3, <2>4
<1>7. QED
  BY <1>5, <1>6

(***************************************************************************)
(* Whatever the buffer drops and however late the beats and the panel are, *)
(* every live row is shown once and in order, or was dropped unread, or    *)
(* was taken by a beat that had no snapshot; and the plot ends complete.   *)
(***************************************************************************)
THEOREM RowsKept == LiveSpec => []RowsAreKept
<1>1. LiveInv => RowsAreKept
  BY PipelineInOrder DEF RowsAreKept, InOrder, Conserved, LiveInv
<1>2. QED
  BY <1>1, LiveInvariant, PTL

(***************************************************************************)
(* A beat discards rows only before the first event has been sent.         *)
(***************************************************************************)
THEOREM MissesAtTheStart == LiveSpec => MissesOnlyAtTheStart
<1>1. ASSUME LiveInv, [LiveNext]_liveVars
      PROVE  [missed' # missed => plot = <<>> /\ channel = <<>>]_liveVars
  <2>1. SUFFICES ASSUME missed' # missed
                 PROVE  plot = <<>> /\ channel = <<>>
    OBVIOUS
  <2>2. EmitRunning
    BY <1>1, <2>1 DEF LiveNext, Sample, Bind, Poll, WriteRow, SkipRow, EndRun, Beat, ReadSnap,
       TakeDelta, Join, Display, ReceiveRunning, ReceiveAnswer, LiveDone, liveVars, heartbeat
  <2>3. ~sawSnap /\ ~responded
    BY <1>1, <2>1, <2>2 DEF EmitRunning, LiveInv, PhaseInv
  <2>4. QED
    BY <1>1, <2>3 DEF LiveInv, SeenInv
<1>2. QED
  BY <1>1, LiveInvariant, PTL DEF LiveSpec, MissesOnlyAtTheStart

(***************************************************************************)
(* A column shows the variable it is named after, in step with the time    *)
(* axis, no name twice, and none is left out while there is room.          *)
(***************************************************************************)
THEOREM ColumnsAreFaithful == LiveSpec => []ColumnsFaithful
<1>1. ASSUME LiveInv, ipc \notin {"compile", "failed"}
      PROVE  LET AllNames == UNION {Range(names[kind]) : kind \in DOMAIN names}
                 Shown == {cols[k].name : k \in 1..Len(cols)}
             IN  /\ \A k \in 1..Len(cols) :
                      /\ cols[k].index \in 1..Len(names[cols[k].kind])
                      /\ names[cols[k].kind][cols[k].index] = cols[k].name
                      /\ values[k] = time
                 /\ Cardinality(Shown) = Len(cols)
                 /\ Len(cols) < SeriesCap => Shown = AllNames
  <2>1. /\ names \in [out : Seq(STRING), state : Seq(STRING), disc : Seq(STRING)]
        /\ cols = ColumnsOf(names)
        /\ \A k \in 1..Len(cols) : values[k] = time
    BY <1>1, NamesAssumption DEF LiveInv, ColsInv
  <2>2. PICK s : s = Offered(names)
    OBVIOUS
  <2>3. /\ s \in Seq(Column)
        /\ \A c \in Range(s) : /\ c.index \in 1..Len(names[c.kind])
                               /\ names[c.kind][c.index] = c.name
        /\ UNION {Range(names[kind]) : kind \in DOMAIN names} = {c.name : c \in Range(s)}
    BY <2>1, <2>2, OfferedColumns
  <2>4. Kept(cols, s, Len(s))
    BY <2>1, <2>2, <2>3, ColumnsKeep
  <2>5. Range(s) = {s[i] : i \in 1..Len(s)}
    BY <2>3, RangeEquality
  <2>6. /\ cols \in Seq(Column) /\ Len(cols) \in Nat
        /\ \A j \in 1..Len(cols) : cols[j] \in Range(s)
        /\ \A i, j \in 1..Len(cols) : cols[i].name = cols[j].name => i = j
        /\ Len(cols) < SeriesCap =>
             \A c \in Range(s) : \E j \in 1..Len(cols) : cols[j].name = c.name
    <3>1. /\ cols \in Seq(Column)
          /\ \A j \in 1..Len(cols) : \E i \in 1..Len(s) : cols[j] = s[i]
          /\ \A i, j \in 1..Len(cols) : cols[i].name = cols[j].name => i = j
          /\ Len(cols) < SeriesCap =>
               \A i \in 1..Len(s) : \E j \in 1..Len(cols) : cols[j].name = s[i].name
      BY <2>4 DEF Kept
    <3>2. Len(cols) \in Nat
      BY <3>1, LenProperties
    <3>3. \A j \in 1..Len(cols) : cols[j] \in Range(s)
      BY <2>5, <3>1, Zenon
    <3>4. Len(cols) < SeriesCap =>
            \A c \in Range(s) : \E j \in 1..Len(cols) : cols[j].name = c.name
      <4>1. SUFFICES ASSUME Len(cols) < SeriesCap, NEW c \in Range(s)
                     PROVE  \E j \in 1..Len(cols) : cols[j].name = c.name
        OBVIOUS
      <4>2. PICK i \in 1..Len(s) : c = s[i]
        BY <2>5
      <4>3. QED
        BY <3>1, <4>1, <4>2
    <3>5. QED
      BY <3>1, <3>2, <3>3, <3>4
  <2> DEFINE Shown == {cols[k].name : k \in 1..Len(cols)}
  <2>7. Cardinality(Shown) = Len(cols)
    <3> DEFINE g == [k \in 1..Len(cols) |-> cols[k].name]
    <3>1. g \in Bijection(1..Len(cols), Shown)
      BY <2>6 DEF Bijection, Injection, Surjection, IsInjective
    <3>2. QED
      BY <2>6, <3>1, FS_CountingElements DEF ExistsBijection
  <2>8. Len(cols) < SeriesCap => Shown = {c.name : c \in Range(s)}
    BY <2>6
  <2>9. \A k \in 1..Len(cols) : /\ cols[k].index \in 1..Len(names[cols[k].kind])
                                /\ names[cols[k].kind][cols[k].index] = cols[k].name
    BY <2>3, <2>6
  <2>10. Len(cols) < SeriesCap =>
           Shown = UNION {Range(names[kind]) : kind \in DOMAIN names}
    BY <2>3, <2>8
  <2>11. QED
    BY <2>1, <2>7, <2>9, <2>10
<1>2. LiveInv => ColumnsFaithful
  BY <1>1 DEF ColumnsFaithful
<1>3. QED
  BY <1>2, LiveInvariant, PTL

-----------------------------------------------------------------------------
(***************************************************************************)
(* RUN CONTROL                                                             *)
(***************************************************************************)

Owed == (IF stepOnce THEN 1 ELSE 0)
        + (IF rpc = "recheck" /\ grant = "token" THEN 1 ELSE 0)

(***************************************************************************)
(* The inductive invariant.  A token is up only while pause is set or      *)
(* about to be; every token, up or already taken by the poll in flight, is *)
(* covered by a Step request; and while pause is set the one boundary that *)
(* may slip past it is the one whose poll had read the flag before.        *)
(***************************************************************************)

TokenInv ==
  /\ ui \in {"cancelPause", "cancelStep"} => cancel
  /\ ui = "resumePause" => ~stepOnce
  /\ ~cancel /\ stepOnce => pause \/ ui = "stepPause"

PaidInv ==
  /\ stepEntries <= stepRequests
  /\ ~cancel => stepEntries + Owed <= stepRequests

SlipInv ==
  /\ slipped <= 1
  /\ ~pause => slipped = 0
  /\ rpc = "recheck" /\ grant = "free" => slipped = 0

IInv == TypeOK /\ TokenInv /\ PaidInv /\ SlipInv

-----------------------------------------------------------------------------

USE DEF flags, history, UiLabels, Polling, Stopped, IntegratorLabels

LEMMA InitInv == Init => IInv
<1> SUFFICES ASSUME Init
             PROVE  IInv
  OBVIOUS
<1> USE DEF Init
<1>1. TypeOK
  BY DEF TypeOK
<1>2. TokenInv
  BY DEF TokenInv
<1>3. PaidInv
  BY DEF PaidInv, Owed
<1>4. SlipInv
  BY DEF SlipInv
<1>5. QED
  BY <1>1, <1>2, <1>3, <1>4 DEF IInv

LEMMA NextType == TypeOK /\ [Next]_vars => TypeOK'
<1> SUFFICES ASSUME TypeOK, [Next]_vars
             PROVE  TypeOK'
  OBVIOUS
<1> USE DEF TypeOK, Begin, ContinueAt, ClearPause, UiUnchanged
<1>1. CASE NewRequest
  <2>1. CASE RequestCancel
    BY <2>1 DEF RequestCancel
  <2>2. CASE RequestPause
    BY <2>2 DEF RequestPause
  <2>3. CASE RequestResume
    <3>1. requests' \in Nat
      BY <2>3 DEF RequestResume
    <3>2. QED
      BY <2>3, <3>1 DEF RequestResume
  <2>4. CASE RequestStep
    BY <2>4 DEF RequestStep
  <2>5. QED
    BY <1>1, <2>1, <2>2, <2>3, <2>4 DEF NewRequest
<1>2. CASE FinishRequest
  <2>1. CASE CancelClearPause
    BY <2>1 DEF CancelClearPause
  <2>2. CASE CancelSetStep
    BY <2>2 DEF CancelSetStep
  <2>3. CASE ResumeClearPause
    BY <2>3 DEF ResumeClearPause
  <2>4. CASE StepSetPause
    BY <2>4 DEF StepSetPause
  <2>5. QED
    BY <1>2, <2>1, <2>2, <2>3, <2>4 DEF FinishRequest
<1>3. CASE Integrate
  <2>1. CASE BeginPoll
    BY <2>1 DEF BeginPoll
  <2>2. CASE Finish
    BY <2>2 DEF Finish
  <2>3. CASE CheckCancel
    BY <2>3 DEF CheckCancel
  <2>4. CASE CheckPause
    BY <2>4 DEF CheckPause
  <2>5. CASE SwapStep
    BY <2>5 DEF SwapStep
  <2>6. CASE Recheck
    BY <2>6 DEF Recheck
  <2>7. QED
    BY <1>3, <2>1, <2>2, <2>3, <2>4, <2>5, <2>6 DEF Integrate
<1>4. CASE Done
  BY <1>4 DEF Done, vars
<1>5. CASE UNCHANGED vars
  BY <1>5 DEF vars
<1>6. QED
  BY <1>1, <1>2, <1>3, <1>4, <1>5 DEF Next

LEMMA NextInv == IInv /\ [Next]_vars => IInv'
<1> SUFFICES ASSUME IInv, [Next]_vars
             PROVE  IInv'
  OBVIOUS
<1>t. TypeOK'
  BY NextType DEF IInv
<1>i. TypeOK /\ TokenInv /\ PaidInv /\ SlipInv
  BY DEF IInv
<1> USE <1>i DEF TypeOK, TokenInv, PaidInv, SlipInv, Owed,
                 Begin, ContinueAt, ClearPause, UiUnchanged
<1>1. CASE RequestCancel
  BY <1>1, <1>t DEF RequestCancel, IInv
<1>2. CASE RequestPause
  BY <1>2, <1>t DEF RequestPause, IInv
<1>3. CASE RequestResume
  BY <1>3, <1>t DEF RequestResume, IInv
<1>4. CASE RequestStep
  BY <1>4, <1>t DEF RequestStep, IInv
<1>5. CASE CancelClearPause
  BY <1>5, <1>t DEF CancelClearPause, IInv
<1>6. CASE CancelSetStep
  BY <1>6, <1>t DEF CancelSetStep, IInv
<1>7. CASE ResumeClearPause
  BY <1>7, <1>t DEF ResumeClearPause, IInv
<1>8. CASE StepSetPause
  BY <1>8, <1>t DEF StepSetPause, IInv
<1>9. CASE BeginPoll
  BY <1>9, <1>t DEF BeginPoll, IInv
<1>10. CASE Finish
  BY <1>10, <1>t DEF Finish, IInv
<1>11. CASE CheckCancel
  BY <1>11, <1>t DEF CheckCancel, IInv
<1>12. CASE CheckPause
  BY <1>12, <1>t DEF CheckPause, IInv
<1>13. CASE SwapStep
  BY <1>13, <1>t DEF SwapStep, IInv
<1>14. CASE Recheck
  <2>1. TokenInv'
    BY <1>14 DEF Recheck
  <2>2. PaidInv'
    BY <1>14 DEF Recheck
  <2>3. SlipInv'
    BY <1>14 DEF Recheck
  <2>4. QED
    BY <1>t, <2>1, <2>2, <2>3 DEF IInv
<1>15. CASE UNCHANGED vars
  BY <1>15, <1>t DEF vars, IInv
<1>16. QED
  BY <1>1, <1>2, <1>3, <1>4, <1>5, <1>6, <1>7, <1>8, <1>9, <1>10, <1>11, <1>12,
     <1>13, <1>14, <1>15
     DEF Next, NewRequest, FinishRequest, Integrate, Done

\* The inductive invariant holds in every reachable state of run control.
THEOREM Invariance == Spec => []IInv
BY InitInv, NextInv, PTL DEF Spec

\* Every variable stays in its type, whatever the interleaving.
THEOREM TypeCorrect == Spec => []TypeOK
<1>1. IInv => TypeOK
  BY DEF IInv
<1>2. QED
  BY <1>1, Invariance, PTL

\* A live run that is not paused carries no step token between requests.
THEOREM TokensAreFresh == Spec => []NoStaleToken
<1>1. IInv => NoStaleToken
  BY DEF IInv, TokenInv, NoStaleToken
<1>2. QED
  BY <1>1, Invariance, PTL

\* Stepping crosses at most one boundary per Step request.
THEOREM StepsPaid == Spec => []StepsArePaidFor
<1>1. IInv => StepsArePaidFor
  BY DEF IInv, PaidInv, StepsArePaidFor
<1>2. QED
  BY <1>1, Invariance, PTL

\* A Pause lets at most one boundary slip by without a token.
THEOREM PauseIsHeld == Spec => []PauseHolds
<1>1. IInv => PauseHolds
  BY DEF IInv, SlipInv, PauseHolds
<1>2. QED
  BY <1>1, Invariance, PTL

\* No boundary is crossed after the cancel flag is set.
THEOREM CancelFinal == Spec => CancelIsFinal
<1>1. IInv /\ [Next]_vars => [rpc = "recheck" /\ rpc' = "work" => ~cancel]_vars
  <2> SUFFICES ASSUME IInv, Next, rpc = "recheck", rpc' = "work"
               PROVE  ~cancel
    BY DEF vars
  <2>1. CASE Integrate
    BY <2>1 DEF Integrate, BeginPoll, Finish, CheckCancel, CheckPause, SwapStep, Recheck
  <2>2. CASE NewRequest \/ FinishRequest
    BY <2>2 DEF NewRequest, FinishRequest, RequestCancel, RequestPause,
                RequestResume, RequestStep, CancelClearPause, CancelSetStep,
                ResumeClearPause, StepSetPause
  <2>3. CASE Done
    BY <2>3 DEF Done
  <2>4. QED
    BY <2>1, <2>2, <2>3 DEF Next
<1>2. QED
  BY <1>1, Invariance, PTL DEF Spec, CancelIsFinal

-----------------------------------------------------------------------------
(* Refinement: every step of the flag protocol is a step of the gate or a  *)
(* stutter.                                                                *)

LEMMA GateStep == IInv /\ IInv' /\ [Next]_vars => [Gate!GateNext]_(Gate!gateVars)
<1> SUFFICES ASSUME IInv, IInv', [Next]_vars
             PROVE  [Gate!GateNext]_(Gate!gateVars)
  OBVIOUS
<1> USE DEF IInv, TypeOK, TokenInv, Gate!gateVars, Gate!GateNext, gateHeld, gateCredit,
            gatePhase, Begin, ContinueAt, ClearPause, UiUnchanged
<1>1. CASE RequestCancel
  BY <1>1 DEF RequestCancel, Gate!Cancel
<1>2. CASE RequestPause
  BY <1>2 DEF RequestPause, Gate!Pause
<1>3. CASE RequestResume
  BY <1>3 DEF RequestResume, Gate!Resume
<1>4. CASE RequestStep
  BY <1>4 DEF RequestStep, Gate!Step
<1>5. CASE CancelClearPause
  BY <1>5 DEF CancelClearPause
<1>6. CASE CancelSetStep
  BY <1>6 DEF CancelSetStep
<1>7. CASE ResumeClearPause
  BY <1>7 DEF ResumeClearPause
<1>8. CASE StepSetPause
  BY <1>8 DEF StepSetPause, Gate!Step, Gate!Pause
<1>9. CASE BeginPoll
  BY <1>9 DEF BeginPoll, Gate!Ask
<1>10. CASE Finish
  BY <1>10 DEF Finish, Gate!Leave
<1>11. CASE CheckCancel
  BY <1>11 DEF CheckCancel, Gate!TurnAway
<1>12. CASE CheckPause
  BY <1>12 DEF CheckPause, Gate!Grant
<1>13. CASE SwapStep
  BY <1>13 DEF SwapStep, Gate!Grant
<1>14. CASE Recheck
  BY <1>14 DEF Recheck, Gate!Enter, Gate!TurnAway
<1>15. CASE UNCHANGED vars
  BY <1>15 DEF vars
<1>16. QED
  BY <1>1, <1>2, <1>3, <1>4, <1>5, <1>6, <1>7, <1>8, <1>9, <1>10, <1>11, <1>12,
     <1>13, <1>14, <1>15
     DEF Next, NewRequest, FinishRequest, Integrate, Done

\* The three-flag protocol implements the indivisible gate of StepGate.
THEOREM Refinement == Spec => ImplementsGate
<1>1. Init => Gate!GateInit
  BY DEF Init, Gate!GateInit, gateHeld, gateCredit, gatePhase
<1>2. QED
  BY <1>1, GateStep, Invariance, PTL DEF Spec, ImplementsGate, Gate!GateSpec

=============================================================================
