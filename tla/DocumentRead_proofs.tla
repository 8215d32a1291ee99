------------------------ MODULE DocumentRead_proofs ------------------------
(***************************************************************************)
(* What an answer of ReadDocumentWithActor says of the document holds for  *)
(* every document, however the platform pages it, and for every limit.     *)
(*                                                                         *)
(* The answer is compared with Preorder, a recursion over the levels in    *)
(* which FlattenSeq recurses over the children.  The equations by which    *)
(* the two are used come first, from one lemma on recursion over a range   *)
(* of numbers; then what a frame of the walk has collected is compared     *)
(* with the part of the document it has been through, step by step.        *)
(***************************************************************************)
EXTENDS DocumentRead, SequenceTheorems, WellFoundedInduction, TLAPS

-----------------------------------------------------------------------------
\* Induction over the numbers, as a statement about a set.
LEMMA NatByInduction ==
    ASSUME NEW T, 0 \in T, \A n \in Nat : n \in T => n + 1 \in T
    PROVE  Nat \subseteq T
<1> DEFINE R == OpToRel(<, Nat)
           C == Nat \ T
<1> SUFFICES ASSUME C # {} PROVE FALSE
  OBVIOUS
<1>1. IsWellFoundedOn(R, Nat)
  BY NatLessThanWellFounded
<1>2. C \subseteq Nat
  OBVIOUS
<1>3. PICK x \in C : \A y \in C : <<y, x>> \notin R
  <2> HIDE DEF R, C
  <2> QED
    BY <1>1, <1>2, WFMin
<1>4. \A y \in C : ~(y < x)
  BY <1>3 DEF OpToRel
<1>5. x \in Nat /\ x # 0 /\ x = (x - 1) + 1
  OBVIOUS
<1>6. x - 1 \in T
  BY <1>4, <1>5
<1> QED
  BY <1>5, <1>6

\* f is defined by recursion on 0..n, from c, by the steps D[1], ..., D[n].
Recursion(f, n, c, D) == f[0] = c /\ \A k \in 1..n : f[k] = D[k][f[k - 1]]

\* There is a function that a recursion over 0..n defines.
LEMMA RecursionExists ==
    ASSUME NEW S, NEW c \in S, NEW n \in Nat, NEW D \in [1..n -> [S -> S]]
    PROVE  \E f \in [0..n -> S] : Recursion(f, n, c, D)
<1> DEFINE Upto(m) == \E f \in [0..m -> S] : Recursion(f, m, c, D)
           T == {m \in Nat : m <= n => Upto(m)}
<1>1. 0 \in T
  <2>1. Recursion([k \in 0..0 |-> c], 0, c, D)
    BY DEF Recursion
  <2> QED
    BY <2>1
<1>2. ASSUME NEW m \in Nat, m \in T PROVE m + 1 \in T
  <2> SUFFICES ASSUME m + 1 <= n PROVE Upto(m + 1)
    OBVIOUS
  <2>1. PICK f \in [0..m -> S] : Recursion(f, m, c, D)
    BY <1>2
  <2> DEFINE g == [k \in 0..(m + 1) |-> IF k <= m THEN f[k]
                                        ELSE D[m + 1][f[m]]]
  <2>2. D[m + 1][f[m]] \in S
    <3>1. f[m] \in S /\ m + 1 \in 1..n
      OBVIOUS
    <3> QED
      BY <3>1
  <2>3. g \in [0..(m + 1) -> S]
    <3>1. \A k \in 0..(m + 1) : k <= m => f[k] \in S
      OBVIOUS
    <3> QED
      BY <2>2, <3>1
  <2>4. g[0] = c
    BY <2>1 DEF Recursion
  <2>5. ASSUME NEW k \in 1..(m + 1) PROVE g[k] = D[k][g[k - 1]]
    <3>1. CASE k <= m
      BY <2>1, <3>1 DEF Recursion
    <3>2. CASE k = m + 1
      BY <3>2
    <3> QED
      BY <3>1, <3>2
  <2> QED
    BY <2>3, <2>4, <2>5 DEF Recursion
<1>3. Nat \subseteq T
  <2>1. \A m \in Nat : m \in T => m + 1 \in T
    BY <1>2
  <2> HIDE DEF T
  <2> QED
    BY <1>1, <2>1, NatByInduction
<1> QED
  BY <1>3

\* There is only one: a step that takes equals to equals does so n times.
LEMMA RecursionUnique ==
    ASSUME NEW n \in Nat, NEW f, NEW g, f[0] = g[0],
           \A k \in 1..n : f[k - 1] = g[k - 1] => f[k] = g[k]
    PROVE  f[n] = g[n]
<1> DEFINE T == {m \in Nat : m <= n => f[m] = g[m]}
<1>1. 0 \in T
  OBVIOUS
<1>2. ASSUME NEW m \in Nat, m \in T PROVE m + 1 \in T
  <2> SUFFICES ASSUME m + 1 <= n PROVE f[m + 1] = g[m + 1]
    OBVIOUS
  <2>1. m + 1 \in 1..n /\ (m + 1) - 1 = m /\ f[m] = g[m]
    BY <1>2
  <2> QED
    BY <2>1
<1>3. Nat \subseteq T
  <2>1. \A m \in Nat : m \in T => m + 1 \in T
    BY <1>2
  <2> HIDE DEF T
  <2> QED
    BY <1>1, <2>1, NatByInduction
<1> QED
  BY <1>3

-----------------------------------------------------------------------------
\* FlattenSeq joins the sequences of a sequence one after the other.
LEMMA FlattenRecursion ==
    ASSUME NEW S, NEW ss \in Seq(Seq(S))
    PROVE  \E f \in [0..Len(ss) -> Seq(S)] :
              /\ f[0] = <<>>
              /\ \A k \in 1..Len(ss) : f[k] = f[k - 1] \o ss[k]
              /\ FlattenSeq(ss) = f[Len(ss)]
<1> DEFINE n == Len(ss)
           D == [k \in 1..n |-> [t \in Seq(S) |-> t \o ss[k]]]
<1>1. /\ n \in Nat /\ <<>> \in Seq(S)
      /\ \A k \in 1..n : ss[k] \in Seq(S)
  BY EmptySeq, LenProperties, ElementOfSeq
<1>2. D \in [1..n -> [Seq(S) -> Seq(S)]]
  <2>1. ASSUME NEW k \in 1..n, NEW t \in Seq(S) PROVE t \o ss[k] \in Seq(S)
    BY <1>1, ConcatProperties
  <2> QED
    BY <2>1
<1> HIDE DEF n
<1>3. PICK f \in [0..n -> Seq(S)] : Recursion(f, n, <<>>, D)
  <2> HIDE DEF D
  <2> QED
    BY <1>1, <1>2, RecursionExists
<1>4. f[0] = <<>> /\ \A k \in 1..n : f[k] = f[k - 1] \o ss[k]
  <2>1. ASSUME NEW k \in 1..n PROVE f[k] = f[k - 1] \o ss[k]
    <3>1. f[k - 1] \in Seq(S)
      <4>1. k - 1 \in 0..n
        BY <1>1
      <4> QED
        BY <1>3, <4>1
    <3> QED
      BY <1>3, <3>1 DEF Recursion
  <2> QED
    BY <1>3, <2>1 DEF Recursion
<1>5. FlattenSeq(ss) = f[n]
  <2>1. CASE n = 0
    <3>1. ss = <<>>
      BY <2>1, EmptySeq DEF n
    <3> QED
      BY <1>4, <2>1, <3>1 DEF FlattenSeq, n
  <2>2. CASE n # 0
    <3> DEFINE Rec(h) == [i \in 1..n |->
                            IF i = 1 THEN ss[i] ELSE h[i - 1] \o ss[i]]
               h == CHOOSE h : h = Rec(h)
    <3>1. \E g : g = Rec(g)
      <4> DEFINE g == [i \in 1..n |-> f[i]]
      <4>1. ASSUME NEW i \in 1..n
            PROVE  f[i] = IF i = 1 THEN ss[i] ELSE g[i - 1] \o ss[i]
        <5>1. CASE i = 1
          <6>1. ss[1] \in Seq(S) /\ f[1] = f[0] \o ss[1]
            <7>1. 1 \in 1..n /\ 1 - 1 = 0
              BY <5>1
            <7> QED
              BY <1>1, <1>4, <7>1
          <6>2. <<>> \o ss[1] = ss[1]
            BY <6>1, ConcatEmptySeq
          <6> QED
            BY <1>4, <5>1, <6>1, <6>2
        <5>2. CASE i # 1
          <6>1. i - 1 \in 1..n
            BY <1>1, <5>2
          <6> QED
            BY <1>4, <5>2, <6>1
        <5> QED
          BY <5>1, <5>2
      <4>2. g = Rec(g)
        BY <4>1
      <4> QED
        BY <4>2
    <3>2. h = Rec(h)
      <4> HIDE DEF Rec
      <4> QED
        BY <3>1
    <3>3. FlattenSeq(ss) = h[n]
      BY <2>2 DEF FlattenSeq, n
    <3>4. \A k \in 1..n : h[k] = IF k = 1 THEN ss[k] ELSE h[k - 1] \o ss[k]
      <4> HIDE DEF h
      <4> QED
        BY <3>2
    <3> HIDE DEF h
    <3> DEFINE g == [k \in 0..n |-> IF k = 0 THEN <<>> ELSE h[k]]
    <3>5. f[0] = g[0]
      BY <1>1, <1>4
    <3>6. ASSUME NEW k \in 1..n, f[k - 1] = g[k - 1] PROVE f[k] = g[k]
      <4>1. /\ k \in 0..n /\ k # 0 /\ k - 1 \in 0..n
            /\ f[k] = f[k - 1] \o ss[k]
        <5>1. f[k] = f[k - 1] \o ss[k]
          BY <1>4
        <5> QED
          BY <1>1, <5>1
      <4>2. CASE k = 1
        <5>1. f[1] = <<>> \o ss[1] /\ <<>> \o ss[1] = ss[1]
          <6>1. <<>> \o ss[1] = ss[1]
            BY <1>1, <4>2, ConcatEmptySeq
          <6>2. 1 - 1 = 0
            OBVIOUS
          <6> QED
            BY <1>4, <4>1, <4>2, <6>1, <6>2
        <5>2. g[1] = h[1] /\ h[1] = ss[1]
          BY <3>4, <4>1, <4>2
        <5> QED
          BY <4>2, <5>1, <5>2
      <4>3. CASE k # 1
        <5>1. g[k] = h[k] /\ g[k - 1] = h[k - 1]
          BY <4>1, <4>3
        <5>2. h[k] = h[k - 1] \o ss[k]
          BY <3>4, <4>3
        <5> QED
          BY <3>6, <4>1, <5>1, <5>2
      <4> QED
        BY <4>2, <4>3
    <3>7. f[n] = g[n]
      <4> HIDE DEF g
      <4> QED
        BY <1>1, <3>5, <3>6, RecursionUnique
    <3>8. g[n] = h[n]
      BY <1>1, <2>2
    <3> QED
      BY <3>3, <3>7, <3>8
  <2> QED
    BY <2>1, <2>2
<1> QED
  BY <1>3, <1>4, <1>5 DEF n

\* A part of the sequences is joined as one joined the part before the last
\* of them, and then that one.
LEMMA FlattenNext ==
    ASSUME NEW S, NEW ss \in Seq(Seq(S)), NEW k \in 1..Len(ss)
    PROVE  /\ FlattenSeq(SubSeq(ss, 1, k - 1)) \in Seq(S)
           /\ FlattenSeq(SubSeq(ss, 1, k)) =
                  FlattenSeq(SubSeq(ss, 1, k - 1)) \o ss[k]
<1> DEFINE s == SubSeq(ss, 1, k - 1)
           t == SubSeq(ss, 1, k)
           V == Seq(S)
<1>1. /\ Len(ss) \in Nat /\ k \in Nat /\ k - 1 \in Nat
      /\ \A i \in 1..Len(ss) : ss[i] \in Seq(S)
  BY LenProperties, ElementOfSeq
<1>2. /\ s \in Seq(Seq(S)) /\ Len(s) = k - 1
      /\ t \in Seq(Seq(S)) /\ Len(t) = k
      /\ \A i \in 1..(k - 1) : s[i] = ss[i]
      /\ \A i \in 1..k : t[i] = ss[i]
  <2>1. ASSUME NEW m \in 0..Len(ss)
        PROVE  /\ SubSeq(ss, 1, m) \in Seq(Seq(S))
               /\ Len(SubSeq(ss, 1, m)) = m
               /\ \A i \in 1..m : SubSeq(ss, 1, m)[i] = ss[i]
    <3>1. \A i \in 1..m : ss[i] \in Seq(S)
      BY <1>1
    <3>2. /\ SubSeq(ss, 1, m) \in Seq(Seq(S))
          /\ Len(SubSeq(ss, 1, m)) = IF 1 <= m THEN m - 1 + 1 ELSE 0
          /\ \A i \in 1..(m - 1 + 1) : SubSeq(ss, 1, m)[i] = ss[1 + i - 1]
      BY <1>1, <3>1, SubSeqProperties
    <3> QED
      BY <1>1, <3>2
  <2>2. k - 1 \in 0..Len(ss) /\ k \in 0..Len(ss)
    BY <1>1
  <2> QED
    BY <2>1, <2>2
<1>3. PICK f :
         /\ f \in [0..(k - 1) -> V]
         /\ f[0] = <<>> /\ \A i \in 1..(k - 1) : f[i] = f[i - 1] \o s[i]
         /\ FlattenSeq(s) = f[k - 1]
  <2> HIDE DEF s
  <2>1. \E f \in [0..Len(s) -> Seq(S)] :
           /\ f[0] = <<>> /\ \A i \in 1..Len(s) : f[i] = f[i - 1] \o s[i]
           /\ FlattenSeq(s) = f[Len(s)]
    BY <1>2, FlattenRecursion
  <2> QED
    BY <1>2, <2>1
<1>4. PICK g :
         /\ g \in [0..k -> V]
         /\ g[0] = <<>> /\ \A i \in 1..k : g[i] = g[i - 1] \o t[i]
         /\ FlattenSeq(t) = g[k]
  <2> HIDE DEF t
  <2>1. \E g \in [0..Len(t) -> Seq(S)] :
           /\ g[0] = <<>> /\ \A i \in 1..Len(t) : g[i] = g[i - 1] \o t[i]
           /\ FlattenSeq(t) = g[Len(t)]
    BY <1>2, FlattenRecursion
  <2> QED
    BY <1>2, <2>1
<1> HIDE DEF s, t, V
<1>5. f[k - 1] = g[k - 1]
  <2>1. PICK n \in Nat : n = k - 1
    BY <1>1
  <2>2. ASSUME NEW i \in 1..n, f[i - 1] = g[i - 1] PROVE f[i] = g[i]
    <3>1. i \in 1..(k - 1) /\ i \in 1..k
      BY <1>1, <2>1
    <3>2. f[i] = f[i - 1] \o ss[i]
      BY <1>2, <1>3, <3>1
    <3>3. g[i] = g[i - 1] \o ss[i]
      BY <1>2, <1>4, <3>1
    <3> QED
      BY <2>2, <3>2, <3>3
  <2>3. f[0] = g[0]
    BY <1>3, <1>4
  <2>4. f[n] = g[n]
    BY <2>2, <2>3, RecursionUnique
  <2> QED
    BY <2>1, <2>4
<1>6. g[k] = g[k - 1] \o ss[k]
  <2>1. k \in 1..k
    BY <1>1
  <2> QED
    BY <1>2, <1>4, <2>1
<1>7. f[k - 1] \in V
  <2>1. k - 1 \in 0..(k - 1)
    BY <1>1
  <2> QED
    BY <1>3, <2>1
<1> QED
  BY <1>3, <1>4, <1>5, <1>6, <1>7 DEF s, t, V

LEMMA FlattenNone == FlattenSeq(<<>>) = <<>>
<1>1. Len(<<>>) = 0
  BY EmptySeq
<1> QED
  BY <1>1 DEF FlattenSeq

-----------------------------------------------------------------------------
Nodes == Blocks \cup {Root}

MaxLevels == DocMaxDepth + 1

Lists == [Nodes -> Seq(Blocks)]

\* The children of a block, each with the blocks that t puts under it.
Entries(tree, t, b) == [i \in DOMAIN tree[b] |-> <<tree[b][i]>> \o t[tree[b][i]]]

\* The blocks under the first k children of a block.
Part(tree, l, b, k) ==
    FlattenSeq(SubSeq(Entries(tree, Preorder(tree)[l - 1], b), 1, k))

LEMMA TreeProperties ==
    ASSUME NEW tree \in Trees, NEW b \in Nodes
    PROVE  /\ tree[b] \in Seq(Blocks) /\ Len(tree[b]) \in Nat
           /\ DOMAIN tree[b] = 1..Len(tree[b])
           /\ \A i \in 1..Len(tree[b]) : /\ tree[b][i] \in Blocks
                                         /\ tree[b][i] \in Nodes
<1>1. tree[b] \in Seq(Blocks)
  BY TreeAssumption DEF Nodes
<1>2. \A i \in 1..Len(tree[b]) : tree[b][i] \in Blocks
  BY <1>1, ElementOfSeq
<1> QED
  BY <1>1, <1>2, LenProperties DEF Nodes

LEMMA EntriesType ==
    ASSUME NEW tree \in Trees, NEW t \in Lists, NEW b \in Nodes
    PROVE  /\ Entries(tree, t, b) \in Seq(Seq(Blocks))
           /\ Len(Entries(tree, t, b)) = Len(tree[b])
           /\ \A i \in 1..Len(tree[b]) :
                 /\ Entries(tree, t, b)[i] = <<tree[b][i]>> \o t[tree[b][i]]
                 /\ Entries(tree, t, b)[i] \in Seq(Blocks)
<1> DEFINE n == Len(tree[b])
           e == Entries(tree, t, b)
<1>1. /\ n \in Nat /\ DOMAIN tree[b] = 1..n
      /\ \A i \in 1..n : tree[b][i] \in Blocks /\ tree[b][i] \in Nodes
  BY TreeProperties
<1>2. e = [i \in 1..n |-> <<tree[b][i]>> \o t[tree[b][i]]]
  BY <1>1 DEF Entries
<1>3. ASSUME NEW i \in 1..n
      PROVE  <<tree[b][i]>> \o t[tree[b][i]] \in Seq(Blocks)
  <2>1. <<tree[b][i]>> \in Seq(Blocks) /\ t[tree[b][i]] \in Seq(Blocks)
    BY <1>1 DEF Lists
  <2> QED
    BY <2>1, ConcatProperties
<1>4. e \in [1..n -> Seq(Blocks)]
  BY <1>2, <1>3
<1>5. \A i \in 1..n : e[i] = <<tree[b][i]>> \o t[tree[b][i]]
  BY <1>2
<1> HIDE DEF n, e
<1>6. e \in Seq(Seq(Blocks)) /\ Len(e) = n
  BY <1>1, <1>4
<1> QED
  BY <1>3, <1>5, <1>6 DEF n, e

LEMMA FlattenType ==
    ASSUME NEW S, NEW ss \in Seq(Seq(S))
    PROVE  FlattenSeq(ss) \in Seq(S)
<1>1. PICK f : /\ f \in [0..Len(ss) -> Seq(S)]
               /\ FlattenSeq(ss) = f[Len(ss)]
  BY FlattenRecursion
<1>2. Len(ss) \in 0..Len(ss)
  BY LenProperties
<1> QED
  BY <1>1, <1>2

\* The equations of Preorder.
LEMMA PreorderEquations ==
    ASSUME NEW tree \in Trees
    PROVE  /\ \A l \in 0..MaxLevels : Preorder(tree)[l] \in Lists
           /\ \A b \in Nodes : Preorder(tree)[0][b] = <<>>
           /\ \A l \in 1..MaxLevels, b \in Nodes :
                 Preorder(tree)[l][b] =
                     FlattenSeq(Entries(tree, Preorder(tree)[l - 1], b))
<1> DEFINE Next1(t) == [b \in Nodes |-> FlattenSeq(Entries(tree, t, b))]
           D == [l \in 1..MaxLevels |-> [t \in Lists |-> Next1(t)]]
           c == [b \in Nodes |-> <<>>]
           Rec(h) == [l \in 0..MaxLevels |-> [b \in Nodes |->
                        IF l = 0 THEN <<>>
                        ELSE FlattenSeq(Entries(tree, h[l - 1], b))]]
           h == CHOOSE g : g = Rec(g)
<1>1. MaxLevels \in Nat
  BY LimitsAssumption DEF MaxLevels
<1>2. c \in Lists
  <2>1. <<>> \in Seq(Blocks)
    BY EmptySeq
  <2> QED
    BY <2>1 DEF Lists
<1>3. ASSUME NEW t \in Lists PROVE Next1(t) \in Lists
  <2>1. \A b \in Nodes : FlattenSeq(Entries(tree, t, b)) \in Seq(Blocks)
    BY EntriesType, FlattenType
  <2> QED
    BY <2>1 DEF Lists
<1>4. D \in [1..MaxLevels -> [Lists -> Lists]]
  <2> HIDE DEF Next1
  <2> QED
    BY <1>3
<1>5. PICK g : g \in [0..MaxLevels -> Lists] /\ Recursion(g, MaxLevels, c, D)
  <2> HIDE DEF c, D
  <2> QED
    BY <1>1, <1>2, <1>4, RecursionExists
<1>6. /\ g[0] = c
      /\ \A l \in 1..MaxLevels : /\ g[l - 1] \in Lists
                                 /\ g[l] = Next1(g[l - 1])
  <2>1. ASSUME NEW l \in 1..MaxLevels
        PROVE  g[l - 1] \in Lists /\ g[l] = D[l][g[l - 1]]
    <3>1. l - 1 \in 0..MaxLevels
      BY <1>1
    <3> HIDE DEF D
    <3> QED
      BY <1>5, <3>1 DEF Recursion
  <2>2. g[0] = c
    BY <1>5 DEF Recursion
  <2> HIDE DEF Next1, c
  <2> QED
    BY <2>1, <2>2
<1>7. g = Rec(g)
  <2>1. ASSUME NEW l \in 0..MaxLevels
        PROVE  g[l] = [b \in Nodes |-> IF l = 0 THEN <<>>
                                 ELSE FlattenSeq(Entries(tree, g[l - 1], b))]
    <3>1. CASE l = 0
      BY <1>6, <3>1
    <3>2. CASE l # 0
      <4>1. l \in 1..MaxLevels
        BY <1>1, <3>2
      <4> QED
        BY <1>6, <3>2, <4>1
    <3> QED
      BY <3>1, <3>2
  <2>2. g = [l \in 0..MaxLevels |-> g[l]]
    BY <1>5
  <2> QED
    BY <2>1, <2>2, Zenon
<1>8. h = Rec(h)
  <2> HIDE DEF Rec
  <2> QED
    BY <1>7
<1>9. Preorder(tree) = h
  BY DEF Preorder, Nodes, MaxLevels, Entries
<1> HIDE DEF h
<1>10. ASSUME NEW l \in 0..MaxLevels PROVE h[l] = g[l]
  <2>1. h[0] = g[0]
    BY <1>1, <1>6, <1>8
  <2>2. ASSUME NEW k \in 1..l, h[k - 1] = g[k - 1] PROVE h[k] = g[k]
    <3>1. k \in 1..MaxLevels /\ k \in 0..MaxLevels /\ k # 0
      BY <1>1
    <3>2. h[k] = [b \in Nodes |-> FlattenSeq(Entries(tree, h[k - 1], b))]
      BY <1>8, <3>1
    <3>3. g[k] = [b \in Nodes |-> FlattenSeq(Entries(tree, g[k - 1], b))]
      BY <1>6, <3>1
    <3> QED
      BY <2>2, <3>2, <3>3
  <2>3. l \in Nat
    BY <1>1
  <2> QED
    BY <2>1, <2>2, <2>3, RecursionUnique
<1>11. \A l \in 0..MaxLevels : h[l] \in Lists
  BY <1>5, <1>10
<1>12. \A b \in Nodes : h[0][b] = <<>>
  BY <1>1, <1>6, <1>10
<1>13. ASSUME NEW l \in 1..MaxLevels, NEW b \in Nodes
       PROVE  h[l][b] = FlattenSeq(Entries(tree, h[l - 1], b))
  <2>1. l \in 0..MaxLevels /\ l # 0
    BY <1>1
  <2>2. h[l] = [x \in Nodes |-> FlattenSeq(Entries(tree, h[l - 1], x))]
    BY <1>8, <2>1
  <2> QED
    BY <2>2
<1> QED
  BY <1>9, <1>11, <1>12, <1>13

\* Part grows by a child and what is under it, from nothing to the list.
LEMMA PartEquations ==
    ASSUME NEW tree \in Trees, NEW b \in Nodes, NEW l \in 1..MaxLevels
    PROVE  /\ Part(tree, l, b, 0) = <<>>
           /\ \A k \in 1..Len(tree[b]) :
                 /\ Part(tree, l, b, k - 1) \in Seq(Blocks)
                 /\ Preorder(tree)[l - 1][tree[b][k]] \in Seq(Blocks)
                 /\ Part(tree, l, b, k) = Part(tree, l, b, k - 1) \o
                       (<<tree[b][k]>> \o Preorder(tree)[l - 1][tree[b][k]])
           /\ Part(tree, l, b, Len(tree[b])) = Preorder(tree)[l][b]
           /\ Preorder(tree)[l][b] \in Seq(Blocks)
<1> DEFINE t == Preorder(tree)[l - 1]
           e == Entries(tree, t, b)
           n == Len(tree[b])
<1>1. /\ l \in 0..MaxLevels /\ l - 1 \in 0..MaxLevels /\ MaxLevels \in Nat
  BY LimitsAssumption DEF MaxLevels
<1>2. t \in Lists
  BY <1>1, PreorderEquations
<1>3. /\ n \in Nat /\ \A i \in 1..n : tree[b][i] \in Nodes
  BY TreeProperties
<1>4. /\ e \in Seq(Seq(Blocks)) /\ Len(e) = n
      /\ \A i \in 1..n : e[i] = <<tree[b][i]>> \o t[tree[b][i]]
  <2> HIDE DEF t
  <2> QED
    BY <1>2, EntriesType
<1>5. Part(tree, l, b, 0) = <<>>
  <2>1. SubSeq(e, 1, 0) = <<>>
    BY SubSeqEmpty
  <2> QED
    BY <2>1, FlattenNone DEF Part
<1>6. ASSUME NEW k \in 1..n
      PROVE  /\ Part(tree, l, b, k - 1) \in Seq(Blocks)
             /\ t[tree[b][k]] \in Seq(Blocks)
             /\ Part(tree, l, b, k) = Part(tree, l, b, k - 1) \o
                   (<<tree[b][k]>> \o t[tree[b][k]])
  <2>1. /\ FlattenSeq(SubSeq(e, 1, k - 1)) \in Seq(Blocks)
        /\ FlattenSeq(SubSeq(e, 1, k)) =
              FlattenSeq(SubSeq(e, 1, k - 1)) \o e[k]
    <3> HIDE DEF e
    <3> QED
      BY <1>4, FlattenNext
  <2>2. t[tree[b][k]] \in Seq(Blocks)
    BY <1>2, <1>3 DEF Lists
  <2>3. e[k] = <<tree[b][k]>> \o t[tree[b][k]]
    BY <1>4
  <2>4. /\ Part(tree, l, b, k - 1) = FlattenSeq(SubSeq(e, 1, k - 1))
        /\ Part(tree, l, b, k) = FlattenSeq(SubSeq(e, 1, k))
    BY DEF Part
  <2> HIDE DEF e, t
  <2> QED
    BY <2>1, <2>2, <2>3, <2>4
<1>7. Part(tree, l, b, n) = Preorder(tree)[l][b]
  <2>1. SubSeq(e, 1, n) = e
    <3> HIDE DEF e
    <3> QED
      BY <1>4, SubSeqFull
  <2>2. Preorder(tree)[l][b] = FlattenSeq(e)
    BY PreorderEquations
  <2> QED
    BY <2>1, <2>2 DEF Part
<1>8. Preorder(tree)[l][b] \in Seq(Blocks)
  <2>1. Preorder(tree)[l] \in Lists
    BY <1>1, PreorderEquations
  <2> QED
    BY <2>1 DEF Lists
<1> QED
  BY <1>5, <1>6, <1>7, <1>8

\* IsPrefix, element by element.
LEMMA PrefixElements ==
    ASSUME NEW S, NEW s \in Seq(S), NEW t \in Seq(S)
    PROVE  IsPrefix(s, t) <=> /\ Len(s) <= Len(t)
                              /\ \A i \in 1..Len(s) : s[i] = t[i]
<1> DEFINE n == Len(s)
<1>1. n \in Nat /\ Len(t) \in Nat
  BY LenProperties
<1>2. SubSeq(s, 1, n) = s
  BY SubSeqFull
<1> SUFFICES ASSUME n <= Len(t)
             PROVE  SubSeq(s, 1, n) = SubSeq(t, 1, n) <=>
                        \A i \in 1..n : s[i] = t[i]
  BY DEF IsPrefix
<1>3. \A i \in 1..n : t[i] \in S
  BY <1>1, ElementOfSeq
<1>4. /\ SubSeq(t, 1, n) \in Seq(S)
      /\ Len(SubSeq(t, 1, n)) = n
      /\ \A i \in 1..n : SubSeq(t, 1, n)[i] = t[i]
  <2>1. /\ SubSeq(t, 1, n) \in Seq(S)
        /\ Len(SubSeq(t, 1, n)) = IF 1 <= n THEN n - 1 + 1 ELSE 0
        /\ \A i \in 1..(n - 1 + 1) : SubSeq(t, 1, n)[i] = t[1 + i - 1]
    BY <1>1, <1>3, SubSeqProperties
  <2> QED
    BY <1>1, <2>1
<1>5. (\A i \in 1..n : s[i] = t[i]) => s = SubSeq(t, 1, n)
  BY <1>4, SeqEqual
<1>6. s = SubSeq(t, 1, n) => \A i \in 1..n : s[i] = t[i]
  BY <1>4
<1> QED
  BY <1>2, <1>5, <1>6

\* A part is where the list begins, and shorter unless it is all of it.
LEMMA PartIsPrefix ==
    ASSUME NEW tree \in Trees, NEW b \in Nodes, NEW l \in 1..MaxLevels,
           NEW k \in 0..Len(tree[b])
    PROVE  /\ Part(tree, l, b, k) \in Seq(Blocks)
           /\ IsPrefix(Part(tree, l, b, k), Preorder(tree)[l][b])
           /\ Len(Part(tree, l, b, k)) + (Len(tree[b]) - k) <=
                 Len(Preorder(tree)[l][b])
<1> DEFINE n == Len(tree[b])
           P(i) == Part(tree, l, b, i)
           Begins(s, t) == /\ Len(s) <= Len(t)
                           /\ \A i \in 1..Len(s) : s[i] = t[i]
           T == {m \in Nat : k + m <= n => /\ Begins(P(k), P(k + m))
                                           /\ Len(P(k)) + m <= Len(P(k + m))}
<1>1. n \in Nat /\ k \in Nat /\ k <= n
  BY TreeProperties
<1>2. \A i \in 0..n : P(i) \in Seq(Blocks)
  <2>1. \A i \in 1..n : P(i - 1) \in Seq(Blocks)
    BY PartEquations
  <2>2. P(n) \in Seq(Blocks)
    <3>1. /\ Part(tree, l, b, Len(tree[b])) = Preorder(tree)[l][b]
          /\ Preorder(tree)[l][b] \in Seq(Blocks)
      BY PartEquations
    <3> QED
      BY <3>1
  <2> HIDE DEF P
  <2>3. ASSUME NEW i \in 0..n, i # n PROVE P(i) \in Seq(Blocks)
    <3>1. i + 1 \in 1..n /\ (i + 1) - 1 = i
      BY <1>1, <2>3
    <3> QED
      BY <2>1, <3>1
  <2> QED
    BY <2>2, <2>3
<1>3. \A i \in 0..n : Len(P(i)) \in Nat
  BY <1>2, LenProperties
<1> HIDE DEF P
<1>4. 0 \in T
  BY <1>1, <1>3
<1>5. ASSUME NEW m \in Nat, m \in T PROVE m + 1 \in T
  <2> SUFFICES ASSUME k + (m + 1) <= n
               PROVE  /\ Begins(P(k), P(k + (m + 1)))
                      /\ Len(P(k)) + (m + 1) <= Len(P(k + (m + 1)))
    OBVIOUS
  <2> DEFINE j == k + (m + 1)
  <2>1. /\ j \in 1..n /\ j - 1 \in 0..n /\ k + m = j - 1 /\ k \in 0..n
        /\ j \in 0..n
    BY <1>1
  <2>2. Begins(P(k), P(j - 1)) /\ Len(P(k)) + m <= Len(P(j - 1))
    BY <1>1, <1>5, <2>1
  <2> HIDE DEF j
  <2> DEFINE x == <<tree[b][j]>>
             u == Preorder(tree)[l - 1][tree[b][j]]
  <2>3. /\ x \in Seq(Blocks) /\ u \in Seq(Blocks) /\ Len(x) = 1
        /\ P(j) = P(j - 1) \o (x \o u)
    <3>1. x \in Seq(Blocks) /\ Len(x) = 1
      BY <2>1, TreeProperties
    <3> QED
      BY <2>1, <3>1, PartEquations DEF P
  <2> HIDE DEF x, u
  <2>4. /\ x \o u \in Seq(Blocks) /\ Len(x \o u) = 1 + Len(u)
        /\ Len(u) \in Nat
    <3>1. /\ x \o u \in Seq(Blocks) /\ Len(x \o u) = Len(x) + Len(u)
      BY <2>3, ConcatProperties
    <3>2. Len(u) \in Nat
      BY <2>3, LenProperties
    <3> QED
      BY <2>3, <3>1, <3>2
  <2> DEFINE v == x \o u
  <2> HIDE DEF v
  <2>5. /\ v \in Seq(Blocks) /\ Len(v) \in Nat /\ Len(v) >= 1
        /\ P(j) = P(j - 1) \o v /\ P(j - 1) \in Seq(Blocks)
    BY <1>2, <2>1, <2>3, <2>4 DEF v
  <2>6. /\ Len(P(j)) = Len(P(j - 1)) + Len(v)
        /\ \A i \in 1..(Len(P(j - 1)) + Len(v)) :
              P(j)[i] = IF i <= Len(P(j - 1)) THEN P(j - 1)[i]
                        ELSE v[i - Len(P(j - 1))]
    BY <2>5, ConcatProperties
  <2>7. /\ Len(P(k)) \in Nat /\ Len(P(j - 1)) \in Nat
    BY <1>3, <2>1
  <2>8. Len(P(k)) <= Len(P(j)) /\ Len(P(k)) + (m + 1) <= Len(P(j))
    BY <2>2, <2>5, <2>6, <2>7
  <2>9. ASSUME NEW i \in 1..Len(P(k)) PROVE P(k)[i] = P(j)[i]
    <3>1. i \in 1..Len(P(j - 1)) /\ i \in 1..(Len(P(j - 1)) + Len(v))
      BY <2>2, <2>5, <2>7
    <3> QED
      BY <2>2, <2>6, <3>1
  <2> QED
    BY <2>8, <2>9 DEF j
<1>6. Nat \subseteq T
  <2>1. \A m \in Nat : m \in T => m + 1 \in T
    BY <1>5
  <2> HIDE DEF T
  <2> QED
    BY <1>4, <2>1, NatByInduction
<1>7. n - k \in Nat /\ k + (n - k) = n /\ n \in 0..n /\ k \in 0..n
  BY <1>1
<1>8. n - k \in T
  <2> HIDE DEF T
  <2> QED
    BY <1>6, <1>7
<1>9. Begins(P(k), P(n)) /\ Len(P(k)) + (n - k) <= Len(P(n))
  BY <1>7, <1>8
<1>10. P(n) = Preorder(tree)[l][b]
  BY PartEquations DEF P
<1>11. IsPrefix(P(k), P(n))
  <2> HIDE DEF n
  <2> QED
    BY <1>2, <1>7, <1>9, PrefixElements
<1> QED
  BY <1>2, <1>7, <1>9, <1>10, <1>11 DEF P

LEMMA MembersOfConcat ==
    ASSUME NEW S, NEW s \in Seq(S), NEW t \in Seq(S)
    PROVE  ToSet(s \o t) = ToSet(s) \cup ToSet(t)
<1>1. \A u : ToSet(u) = Range(u)
  BY DEF ToSet, Range
<1>2. Range(s \o t) = Range(s) \cup Range(t)
  BY RangeConcatenation
<1> QED
  BY <1>1, <1>2

LEMMA MembersOfOne ==
    ASSUME NEW x PROVE ToSet(<<x>>) = {x}
<1>1. DOMAIN <<x>> = 1..1 /\ <<x>>[1] = x
  OBVIOUS
<1> QED
  BY <1>1 DEF ToSet

LEMMA MembersOfNone == ToSet(<<>>) = {}
BY DEF ToSet

-----------------------------------------------------------------------------
\* The blocks so many levels under a block, as Under puts them together.
Reach(tree, b) ==
    LET reach[levels \in 0..(DocMaxDepth + 1)] ==
            IF levels = 0 THEN {b}
            ELSE UNION {ToSet(tree[x]) : x \in reach[levels - 1]}
    IN  reach

Children(tree, t) == UNION {ToSet(tree[x]) : x \in t}

LEMMA ReachEquations ==
    ASSUME NEW tree \in Trees, NEW b \in Nodes
    PROVE  /\ Reach(tree, b)[0] = {b}
           /\ \A l \in 1..MaxLevels :
                 Reach(tree, b)[l] = Children(tree, Reach(tree, b)[l - 1])
           /\ Under(tree, b) = UNION {Reach(tree, b)[l] : l \in 1..MaxLevels}
<1> DEFINE D == [l \in 1..MaxLevels |->
                    [t \in SUBSET Nodes |-> Children(tree, t)]]
           Rec(h) == [l \in 0..MaxLevels |->
                        IF l = 0 THEN {b} ELSE Children(tree, h[l - 1])]
           h == CHOOSE g : g = Rec(g)
           c == {b}
           S == SUBSET Nodes
<1>1. MaxLevels \in Nat /\ c \in S
  BY LimitsAssumption DEF MaxLevels
<1>2. D \in [1..MaxLevels -> [S -> S]]
  <2>1. ASSUME NEW t \in S PROVE Children(tree, t) \in S
    <3>1. ASSUME NEW x \in t PROVE ToSet(tree[x]) \subseteq Nodes
      <4>1. x \in Nodes
        OBVIOUS
      <4> QED
        BY <4>1, TreeProperties DEF ToSet
    <3> QED
      BY <3>1 DEF Children
  <2> QED
    BY <2>1
<1>3. PICK g : g \in [0..MaxLevels -> S] /\ Recursion(g, MaxLevels, c, D)
  <2> HIDE DEF c, D, S
  <2> QED
    BY <1>1, <1>2, RecursionExists
<1>4. ASSUME NEW l \in 1..MaxLevels PROVE g[l] = Children(tree, g[l - 1])
  <2>1. l - 1 \in 0..MaxLevels
    BY <1>1
  <2>2. g[l - 1] \in S
    BY <1>3, <2>1
  <2>3. g[l] = D[l][g[l - 1]]
    BY <1>3 DEF Recursion
  <2> QED
    BY <2>2, <2>3
<1>5. g = Rec(g)
  <2>1. ASSUME NEW l \in 0..MaxLevels
        PROVE  g[l] = IF l = 0 THEN {b} ELSE Children(tree, g[l - 1])
    <3>1. g[0] = {b}
      BY <1>3 DEF Recursion
    <3>2. l # 0 => l \in 1..MaxLevels
      BY <1>1
    <3> QED
      BY <1>4, <3>1, <3>2
  <2>2. g = [l \in 0..MaxLevels |-> g[l]]
    BY <1>3
  <2> QED
    BY <2>1, <2>2, Zenon
<1>6. h = Rec(h)
  <2> HIDE DEF Rec
  <2> QED
    BY <1>5
<1>7. Reach(tree, b) = h
  BY DEF Reach, MaxLevels, Children
<1>8. Under(tree, b) = UNION {Reach(tree, b)[l] : l \in 1..MaxLevels}
  BY DEF Under, Reach, MaxLevels
<1> HIDE DEF h
<1>9. h[0] = {b} /\ \A l \in 1..MaxLevels : h[l] = Children(tree, h[l - 1])
  <2>1. ASSUME NEW l \in 1..MaxLevels PROVE h[l] = Children(tree, h[l - 1])
    <3>1. l \in 0..MaxLevels /\ l # 0
      BY <1>1
    <3> QED
      BY <1>6, <3>1
  <2>2. h[0] = {b}
    BY <1>1, <1>6
  <2> QED
    BY <2>1, <2>2
<1> QED
  BY <1>7, <1>8, <1>9

\* What is under a child is under its parent.
LEMMA ReachOfChild ==
    ASSUME NEW tree \in Trees, NEW b \in Nodes, NEW c \in ToSet(tree[b]),
           NEW l \in 1..MaxLevels
    PROVE  Reach(tree, c)[l - 1] \subseteq Reach(tree, b)[l]
<1> DEFINE f == Reach(tree, b)
           g == Reach(tree, c)
           T == {m \in Nat : m + 1 <= MaxLevels => g[m] \subseteq f[m + 1]}
<1>1. MaxLevels \in Nat
  BY LimitsAssumption DEF MaxLevels
<1>2. c \in Nodes
  BY TreeProperties DEF ToSet
<1>3. /\ f[0] = {b} /\ \A k \in 1..MaxLevels : f[k] = Children(tree, f[k - 1])
      /\ g[0] = {c} /\ \A k \in 1..MaxLevels : g[k] = Children(tree, g[k - 1])
  BY <1>2, ReachEquations
<1> HIDE DEF f, g
<1>4. 0 \in T
  <2> SUFFICES ASSUME 1 <= MaxLevels PROVE g[0] \subseteq f[0 + 1]
    BY <1>1
  <2>1. f[1] = Children(tree, f[0])
    <3>1. 1 \in 1..MaxLevels /\ 1 - 1 = 0
      BY <1>1
    <3> QED
      BY <1>3, <3>1
  <2> QED
    BY <1>3, <2>1 DEF Children
<1>5. ASSUME NEW m \in Nat, m \in T PROVE m + 1 \in T
  <2> SUFFICES ASSUME (m + 1) + 1 <= MaxLevels
               PROVE  g[m + 1] \subseteq f[(m + 1) + 1]
    OBVIOUS
  <2>1. /\ m + 1 \in 1..MaxLevels /\ (m + 1) + 1 \in 1..MaxLevels
        /\ (m + 1) - 1 = m /\ ((m + 1) + 1) - 1 = m + 1
    BY <1>1
  <2>2. g[m + 1] = Children(tree, g[m])
    BY <1>3, <2>1
  <2>3. f[(m + 1) + 1] = Children(tree, f[m + 1])
    BY <1>3, <2>1
  <2>4. g[m] \subseteq f[m + 1]
    BY <1>1, <1>5
  <2> QED
    BY <2>2, <2>3, <2>4 DEF Children
<1>6. Nat \subseteq T
  <2>1. \A m \in Nat : m \in T => m + 1 \in T
    BY <1>5
  <2> HIDE DEF T
  <2> QED
    BY <1>4, <2>1, NatByInduction
<1>7. l - 1 \in T /\ (l - 1) + 1 = l /\ l <= MaxLevels
  <2>1. l - 1 \in Nat
    BY <1>1
  <2> HIDE DEF T
  <2> QED
    BY <1>1, <1>6, <2>1
<1>8. g[l - 1] \subseteq f[l]
  BY <1>7
<1> QED
  BY <1>8 DEF f, g

\* The blocks of a part are its children, and what is under those.
LEMMA MembersOfPart ==
    ASSUME NEW tree \in Trees, NEW b \in Nodes, NEW l \in 1..MaxLevels
    PROVE  \A k \in 0..Len(tree[b]) : \A x \in ToSet(Part(tree, l, b, k)) :
              \E i \in 1..Len(tree[b]) :
                 \/ x = tree[b][i]
                 \/ x \in ToSet(Preorder(tree)[l - 1][tree[b][i]])
<1> DEFINE n == Len(tree[b])
           Found(x) == \E i \in 1..n :
                          \/ x = tree[b][i]
                          \/ x \in ToSet(Preorder(tree)[l - 1][tree[b][i]])
           P(k) == Part(tree, l, b, k)
           T == {m \in Nat : m <= n => \A x \in ToSet(P(m)) : Found(x)}
<1>1. n \in Nat
  BY TreeProperties
<1>2. 0 \in T
  <2>1. P(0) = <<>> /\ ToSet(<<>>) = {}
    BY PartEquations, MembersOfNone
  <2> HIDE DEF P, Found
  <2> QED
    BY <2>1
<1>3. ASSUME NEW m \in Nat, m \in T PROVE m + 1 \in T
  <2> SUFFICES ASSUME m + 1 <= n, NEW x \in ToSet(P(m + 1)) PROVE Found(x)
    OBVIOUS
  <2> DEFINE c == tree[b][m + 1]
             u == Preorder(tree)[l - 1][c]
  <2>1. m + 1 \in 1..n /\ (m + 1) - 1 = m
    BY <1>1
  <2>2. /\ P(m) \in Seq(Blocks) /\ u \in Seq(Blocks) /\ <<c>> \in Seq(Blocks)
        /\ P(m + 1) = P(m) \o (<<c>> \o u)
    <3>1. <<c>> \in Seq(Blocks)
      BY <2>1, TreeProperties
    <3>2. /\ Part(tree, l, b, (m + 1) - 1) \in Seq(Blocks) /\ u \in Seq(Blocks)
          /\ Part(tree, l, b, m + 1) =
                Part(tree, l, b, (m + 1) - 1) \o (<<c>> \o u)
      BY <2>1, PartEquations
    <3> QED
      BY <2>1, <3>1, <3>2
  <2>3. ToSet(P(m + 1)) = ToSet(P(m)) \cup ({c} \cup ToSet(u))
    <3> HIDE DEF P, c, u
    <3>1. <<c>> \o u \in Seq(Blocks)
      BY <2>2, ConcatProperties
    <3>2. ToSet(P(m) \o (<<c>> \o u)) = ToSet(P(m)) \cup ToSet(<<c>> \o u)
      <4> DEFINE p == P(m)
                 v == <<c>> \o u
      <4>1. p \in Seq(Blocks) /\ v \in Seq(Blocks)
        BY <2>2, <3>1
      <4> HIDE DEF p, v
      <4>2. ToSet(p \o v) = ToSet(p) \cup ToSet(v)
        BY <4>1, MembersOfConcat
      <4> QED
        BY <4>2 DEF p, v
    <3>3. ToSet(<<c>> \o u) = ToSet(<<c>>) \cup ToSet(u)
      <4> DEFINE x1 == <<c>>
      <4>1. x1 \in Seq(Blocks) /\ u \in Seq(Blocks)
        BY <2>2
      <4> HIDE DEF x1
      <4>2. ToSet(x1 \o u) = ToSet(x1) \cup ToSet(u)
        BY <4>1, MembersOfConcat
      <4> QED
        BY <4>2 DEF x1
    <3>4. ToSet(<<c>>) = {c}
      BY MembersOfOne
    <3> QED
      BY <2>2, <3>2, <3>3, <3>4
  <2>4. CASE x \in ToSet(P(m))
    BY <1>1, <1>3, <2>4
  <2>5. CASE x = c \/ x \in ToSet(u)
    BY <2>1, <2>5
  <2> HIDE DEF P, Found, c, u
  <2> QED
    BY <2>3, <2>4, <2>5
<1>4. Nat \subseteq T
  <2>1. \A m \in Nat : m \in T => m + 1 \in T
    BY <1>3
  <2> HIDE DEF T
  <2> QED
    BY <1>2, <2>1, NatByInduction
<1>5. ASSUME NEW k \in 0..n PROVE \A x \in ToSet(P(k)) : Found(x)
  <2>1. k \in Nat /\ k <= n
    BY <1>1
  <2>2. k \in T
    <3> HIDE DEF T
    <3> QED
      BY <1>4, <2>1
  <2> HIDE DEF P, Found
  <2> QED
    BY <2>1, <2>2
<1> QED
  BY <1>5

\* What Preorder puts under a block is under it.
LEMMA ListedIsUnder ==
    ASSUME NEW tree \in Trees, NEW b \in Nodes, NEW l \in 0..MaxLevels
    PROVE  ToSet(Preorder(tree)[l][b]) \subseteq Under(tree, b)
<1> DEFINE Within(x, a, m) == \E e \in 1..m : x \in Reach(tree, a)[e]
           Listed(m) == \A a \in Nodes : \A x \in ToSet(Preorder(tree)[m][a]) :
                            Within(x, a, m)
           T == {m \in Nat : m <= MaxLevels => Listed(m)}
<1>1. MaxLevels \in Nat
  BY LimitsAssumption DEF MaxLevels
<1>2. 0 \in T
  <2>1. \A a \in Nodes : ToSet(Preorder(tree)[0][a]) = {}
    BY PreorderEquations, MembersOfNone
  <2> QED
    BY <2>1
<1>3. ASSUME NEW m \in Nat, m \in T PROVE m + 1 \in T
  <2> SUFFICES ASSUME m + 1 <= MaxLevels, NEW a \in Nodes,
                      NEW x \in ToSet(Preorder(tree)[m + 1][a])
               PROVE  Within(x, a, m + 1)
    OBVIOUS
  <2>1. m + 1 \in 1..MaxLevels /\ (m + 1) - 1 = m
    BY <1>1
  <2>2. PICK i \in 1..Len(tree[a]) :
           x = tree[a][i] \/ x \in ToSet(Preorder(tree)[m][tree[a][i]])
    <3>1. Part(tree, m + 1, a, Len(tree[a])) = Preorder(tree)[m + 1][a]
      BY <2>1, PartEquations
    <3>2. Len(tree[a]) \in 0..Len(tree[a])
      BY TreeProperties
    <3>3. \E i \in 1..Len(tree[a]) :
             \/ x = tree[a][i]
             \/ x \in ToSet(Preorder(tree)[(m + 1) - 1][tree[a][i]])
      BY <2>1, <3>1, <3>2, MembersOfPart
    <3> QED
      BY <2>1, <3>3
  <2> DEFINE c == tree[a][i]
  <2>3. c \in Nodes /\ c \in ToSet(tree[a])
    BY TreeProperties DEF ToSet
  <2>4. CASE x = c
    <3>1. Reach(tree, c)[0] = {c}
      BY <2>3, ReachEquations
    <3>2. 1 \in 1..MaxLevels /\ 1 - 1 = 0 /\ 1 \in 1..(m + 1)
      BY <1>1, <2>1
    <3>3. Reach(tree, c)[1 - 1] \subseteq Reach(tree, a)[1]
      BY <2>3, <3>2, ReachOfChild
    <3>4. x \in Reach(tree, a)[1]
      BY <2>4, <3>1, <3>2, <3>3
    <3> QED
      BY <3>2, <3>4
  <2>5. CASE x \in ToSet(Preorder(tree)[m][c])
    <3>1. PICK e \in 1..m : x \in Reach(tree, c)[e]
      <4>1. Listed(m)
        BY <1>1, <1>3
      <4> QED
        BY <2>3, <2>5, <4>1
    <3>2. e + 1 \in 1..MaxLevels /\ (e + 1) - 1 = e /\ e + 1 \in 1..(m + 1)
      BY <1>1
    <3>3. Reach(tree, c)[(e + 1) - 1] \subseteq Reach(tree, a)[e + 1]
      BY <2>3, <3>2, ReachOfChild
    <3>4. x \in Reach(tree, a)[e + 1]
      BY <3>1, <3>2, <3>3
    <3> QED
      BY <3>2, <3>4
  <2> QED
    BY <2>2, <2>4, <2>5
<1>4. Nat \subseteq T
  <2>1. \A m \in Nat : m \in T => m + 1 \in T
    BY <1>3
  <2> HIDE DEF T
  <2> QED
    BY <1>2, <2>1, NatByInduction
<1>5. Listed(l)
  <2>1. l \in Nat /\ l <= MaxLevels
    BY <1>1
  <2>2. l \in T
    <3> HIDE DEF T
    <3> QED
      BY <1>4, <2>1
  <2> HIDE DEF Listed
  <2> QED
    BY <2>1, <2>2
<1>6. ASSUME NEW x \in ToSet(Preorder(tree)[l][b]) PROVE x \in Under(tree, b)
  <2>1. PICK e \in 1..l : x \in Reach(tree, b)[e]
    BY <1>5
  <2>2. e \in 1..MaxLevels
    BY <1>1
  <2> QED
    BY <2>1, <2>2, ReachEquations
<1> QED
  BY <1>6

-----------------------------------------------------------------------------
\* The children of its block that a frame has been through.
Taken(f) == f.from - 1 - Len(f.page)

\* The page of a frame is the next of the children, and there are more pages
\* as long as there are more children, unless the read was cut.
FrameOK(tree, cut, met, f) ==
    LET all == tree[f.block]
    IN  /\ Len(f.page) < f.from /\ f.from <= Len(all) + 1
        /\ \A j \in 1..Len(f.page) : f.page[j] = all[Taken(f) + j]
        /\ f.more => f.from <= Len(all) \/ all = <<>>
        /\ ~f.more /\ ~cut => f.from = Len(all) + 1
        /\ all = <<>> => met = 0

\* g reads the children of the block that f came to last.
Calls(tree, f, g) == Taken(f) >= 1 /\ g.block = tree[f.block][Taken(f)]

\* How out stands to what a read without a limit and without errors has.
Whole(tree, ws, out, want) ==
    /\ ws = {} => out = want
    /\ Len(out) <= Len(want)
    /\ \A b \in ToSet(want) \ ToSet(out) : \E w \in ws : b \in Under(tree, w)

CutOff(ws, max, out, want) ==
    /\ ws = {} => IsPrefix(out, want)
    /\ Len(out) <= Len(want)
    /\ Len(out) < Len(want) \/ max = 0

\* The levels that the frame with this number reads.
Levels(i) == maxDepth + 2 - i

Shape ==
    /\ stack # <<>> => stack[1].block = Root
    /\ \A i \in 1..Len(stack) : FrameOK(children, truncated, seen, stack[i])
    /\ \A i \in 1..(Len(stack) - 1) : Calls(children, stack[i], stack[i + 1])

Phases ==
    /\ answer # "none" => stack = <<>>
    /\ stack = <<>> /\ answer = "none" =>
           seen = 0 /\ ~truncated /\ warnings = {}
    /\ truncated => seen = maxBlocks

\* The frames that wait for a call have all that they have been through.
CallersHave ==
    \A i \in 1..(Len(stack) - 1) :
        Whole(children, warnings, stack[i].out,
              Part(children, Levels(i), stack[i].block, Taken(stack[i]) - 1))

TopHas ==
    stack # <<>> =>
        IF truncated
        THEN CutOff(warnings, maxBlocks, top.out,
                    Preorder(children)[Levels(Len(stack))][top.block])
        ELSE Whole(children, warnings, top.out,
                   Part(children, Levels(Len(stack)), top.block, Taken(top)))

AnswerHas ==
    answer = "ok" =>
        IF truncated
        THEN CutOff(warnings, maxBlocks, result, DocumentOrder)
        ELSE Whole(children, warnings, result, DocumentOrder)

\* before[i] blocks were met before the children that frame i reads.
Counts(before, n) ==
    /\ before \in [1..n -> Nat]
    /\ before[1] = 0
    /\ \A i \in 1..(n - 1) : before[i + 1] = before[i] + Len(stack[i].out) + 1
    /\ seen = before[n] + Len(stack[n].out)

Counted ==
    warnings = {} =>
        /\ answer = "ok" => Len(result) = seen
        /\ stack # <<>> => \E before : Counts(before, Len(stack))

Inv == TypeOK /\ Shape /\ Phases /\ CallersHave /\ TopHas /\ AnswerHas /\ Counted

-----------------------------------------------------------------------------
\* A list with a block, and the list under that block, after it.
Joined(s, b, t) == s \o <<b>> \o t

LEMMA JoinProperties ==
    ASSUME NEW b \in Blocks, NEW s \in Seq(Blocks), NEW t \in Seq(Blocks)
    PROVE  /\ Joined(s, b, t) \in Seq(Blocks)
           /\ Len(Joined(s, b, t)) = Len(s) + 1 + Len(t)
           /\ \A i \in 1..(Len(s) + 1 + Len(t)) :
                 Joined(s, b, t)[i] = IF i <= Len(s) THEN s[i]
                                        ELSE IF i = Len(s) + 1 THEN b
                                        ELSE t[i - (Len(s) + 1)]
           /\ Len(s) \in Nat /\ Len(t) \in Nat
<1> DEFINE x == <<b>>
           u == s \o x
           v == u \o t
<1>1. x \in Seq(Blocks) /\ Len(x) = 1 /\ x[1] = b
  OBVIOUS
<1>2. Len(s) \in Nat /\ Len(t) \in Nat
  BY LenProperties
<1> HIDE DEF x
<1>3. /\ u \in Seq(Blocks) /\ Len(u) = Len(s) + 1
      /\ \A i \in 1..(Len(s) + 1) :
            u[i] = IF i <= Len(s) THEN s[i] ELSE x[i - Len(s)]
  <2>1. /\ u \in Seq(Blocks) /\ Len(u) = Len(s) + Len(x)
        /\ \A i \in 1..(Len(s) + Len(x)) :
              u[i] = IF i <= Len(s) THEN s[i] ELSE x[i - Len(s)]
    BY <1>1, ConcatProperties
  <2> HIDE DEF u
  <2> QED
    BY <1>1, <2>1
<1> HIDE DEF u
<1>4. /\ v \in Seq(Blocks) /\ Len(v) = Len(u) + Len(t)
      /\ \A i \in 1..(Len(u) + Len(t)) :
            v[i] = IF i <= Len(u) THEN u[i] ELSE t[i - Len(u)]
  <2>1. /\ v \in Seq(Blocks) /\ Len(v) = Len(u) + Len(t)
        /\ \A i \in 1..(Len(u) + Len(t)) :
              v[i] = IF i <= Len(u) THEN u[i] ELSE t[i - Len(u)]
    <3>1. u \in Seq(Blocks)
      BY <1>3
    <3> QED
      BY <3>1, ConcatProperties
  <2> HIDE DEF v
  <2> QED
    BY <2>1
<1>5. Joined(s, b, t) = v
  BY DEF Joined, x, u
<1>6. Len(v) = Len(s) + 1 + Len(t)
  <2> HIDE DEF v
  <2> QED
    BY <1>1, <1>2, <1>3, <1>4
<1>7. ASSUME NEW i \in 1..(Len(s) + 1 + Len(t))
      PROVE  v[i] = IF i <= Len(s) THEN s[i]
                    ELSE IF i = Len(s) + 1 THEN b
                    ELSE t[i - (Len(s) + 1)]
  <2> HIDE DEF v
  <2>1. v[i] = IF i <= Len(s) + 1 THEN u[i] ELSE t[i - (Len(s) + 1)]
    BY <1>2, <1>3, <1>4
  <2>2. i <= Len(s) + 1 => u[i] = IF i <= Len(s) THEN s[i] ELSE x[i - Len(s)]
    BY <1>2, <1>3
  <2>3. i = Len(s) + 1 => i - Len(s) = 1
    BY <1>2
  <2> QED
    BY <1>1, <1>2, <2>1, <2>2, <2>3
<1>8. v \in Seq(Blocks)
  BY <1>4
<1> HIDE DEF v
<1> QED
  BY <1>2, <1>5, <1>6, <1>7, <1>8

LEMMA JoinedLen ==
    ASSUME NEW b \in Blocks, NEW s \in Seq(Blocks), NEW t \in Seq(Blocks)
    PROVE  /\ Joined(s, b, t) \in Seq(Blocks)
           /\ Len(Joined(s, b, t)) = Len(s) + 1 + Len(t)
           /\ Len(s) \in Nat /\ Len(t) \in Nat
BY JoinProperties

LEMMA JoinedMembers ==
    ASSUME NEW b \in Blocks, NEW s \in Seq(Blocks), NEW t \in Seq(Blocks)
    PROVE  ToSet(Joined(s, b, t)) = ToSet(s) \cup {b} \cup ToSet(t)
<1> DEFINE x == <<b>>
           u == s \o x
<1>1. x \in Seq(Blocks) /\ ToSet(x) = {b}
  BY MembersOfOne
<1> HIDE DEF x
<1>2. u \in Seq(Blocks)
  BY <1>1, ConcatProperties
<1>3. ToSet(u) = ToSet(s) \cup ToSet(x)
  BY <1>1, MembersOfConcat
<1> HIDE DEF u
<1>4. ToSet(u \o t) = ToSet(u) \cup ToSet(t)
  BY <1>2, MembersOfConcat
<1>5. Joined(s, b, t) = u \o t
  BY DEF Joined, x, u
<1> QED
  BY <1>1, <1>3, <1>4, <1>5

LEMMA JoinedRight ==
    ASSUME NEW b \in Blocks, NEW s \in Seq(Blocks), NEW t \in Seq(Blocks)
    PROVE  s \o (<<b>> \o t) = Joined(s, b, t)
<1>1. <<b>> \in Seq(Blocks)
  OBVIOUS
<1>2. (s \o <<b>>) \o t = s \o (<<b>> \o t)
  BY <1>1, ConcatAssociative
<1> QED
  BY <1>2 DEF Joined

LEMMA WholeNone ==
    ASSUME NEW tree, NEW ws PROVE Whole(tree, ws, <<>>, <<>>)
BY MembersOfNone, EmptySeq DEF Whole

LEMMA WholeJoin ==
    ASSUME NEW tree, NEW ws, NEW b \in Blocks,
           NEW s \in Seq(Blocks), NEW t \in Seq(Blocks),
           NEW u \in Seq(Blocks), NEW v \in Seq(Blocks),
           Whole(tree, ws, s, u), Whole(tree, ws, t, v)
    PROVE  Whole(tree, ws, Joined(s, b, t), Joined(u, b, v))
<1> DEFINE st == Joined(s, b, t)
           uv == Joined(u, b, v)
<1>1. /\ Len(st) = Len(s) + 1 + Len(t) /\ Len(uv) = Len(u) + 1 + Len(v)
      /\ ToSet(st) = ToSet(s) \cup {b} \cup ToSet(t)
      /\ ToSet(uv) = ToSet(u) \cup {b} \cup ToSet(v)
      /\ Len(s) \in Nat /\ Len(t) \in Nat /\ Len(u) \in Nat /\ Len(v) \in Nat
  BY JoinedLen, JoinedMembers
<1>2. ws = {} => st = uv
  BY DEF Whole
<1> HIDE DEF st, uv
<1>3. Whole(tree, ws, st, uv)
  <2>1. Len(st) <= Len(uv)
    BY <1>1 DEF Whole
  <2>2. \A x \in ToSet(uv) \ ToSet(st) : \E w \in ws : x \in Under(tree, w)
    BY <1>1 DEF Whole
  <2> QED
    BY <1>2, <2>1, <2>2 DEF Whole
<1> QED
  BY <1>1, <1>3 DEF st, uv

\* A list that failed is explained by its warning.
LEMMA WholeFails ==
    ASSUME NEW tree, NEW ws, NEW b \in Blocks,
           NEW s \in Seq(Blocks), NEW u \in Seq(Blocks), NEW v \in Seq(Blocks),
           Whole(tree, ws, s, u), ToSet(v) \subseteq Under(tree, b)
    PROVE  Whole(tree, ws \cup {b}, Joined(s, b, <<>>), Joined(u, b, v))
<1> DEFINE e == <<>>
           st == Joined(s, b, e)
           uv == Joined(u, b, v)
<1>1. e \in Seq(Blocks) /\ Len(e) = 0 /\ ToSet(e) = {}
  BY EmptySeq, MembersOfNone
<1>2. /\ Len(st) = Len(s) + 1 + 0 /\ Len(uv) = Len(u) + 1 + Len(v)
      /\ ToSet(st) = ToSet(s) \cup {b}
      /\ ToSet(uv) = ToSet(u) \cup {b} \cup ToSet(v)
      /\ Len(s) \in Nat /\ Len(u) \in Nat /\ Len(v) \in Nat
  <2>1. Len(st) = Len(s) + 1 + Len(e) /\ Len(s) \in Nat
    <3> HIDE DEF e
    <3> QED
      BY <1>1, JoinedLen
  <2>2. ToSet(st) = ToSet(s) \cup {b} \cup ToSet(e)
    <3>1. e \in Seq(Blocks)
      BY <1>1
    <3> HIDE DEF e, uv
    <3> QED
      BY <3>1, JoinedMembers
  <2>3. /\ Len(uv) = Len(u) + 1 + Len(v)
        /\ Len(u) \in Nat /\ Len(v) \in Nat
    BY JoinedLen
  <2>4. ToSet(uv) = ToSet(u) \cup {b} \cup ToSet(v)
    BY JoinedMembers
  <2> HIDE DEF e, st, uv
  <2> QED
    BY <1>1, <2>1, <2>2, <2>3, <2>4
<1> HIDE DEF e, st, uv
<1>3. Whole(tree, ws \cup {b}, st, uv)
  <2>1. Len(st) <= Len(uv)
    BY <1>2 DEF Whole
  <2>2. \A x \in ToSet(uv) \ ToSet(st) :
           \E w \in ws \cup {b} : x \in Under(tree, w)
    BY <1>2 DEF Whole
  <2> QED
    BY <2>1, <2>2 DEF Whole
<1> QED
  BY <1>2, <1>3 DEF e, st, uv

LEMMA WholeWarned ==
    ASSUME NEW tree, NEW ws, NEW more, ws \subseteq more, NEW s, NEW u,
           Whole(tree, ws, s, u)
    PROVE  Whole(tree, more, s, u)
BY DEF Whole

LEMMA CutJoin ==
    ASSUME NEW tree, NEW ws, NEW max, NEW b \in Blocks,
           NEW s \in Seq(Blocks), NEW t \in Seq(Blocks),
           NEW u \in Seq(Blocks), NEW v \in Seq(Blocks),
           Whole(tree, ws, s, u), CutOff(ws, max, t, v)
    PROVE  CutOff(ws, max, Joined(s, b, t), Joined(u, b, v))
<1> DEFINE st == Joined(s, b, t)
           uv == Joined(u, b, v)
<1>1. /\ st \in Seq(Blocks) /\ uv \in Seq(Blocks)
      /\ Len(st) = Len(s) + 1 + Len(t) /\ Len(uv) = Len(u) + 1 + Len(v)
      /\ Len(s) \in Nat /\ Len(t) \in Nat /\ Len(u) \in Nat /\ Len(v) \in Nat
  BY JoinedLen
<1>2. ASSUME ws = {} PROVE IsPrefix(st, uv)
  <2>1. s = u /\ IsPrefix(t, v)
    BY <1>2 DEF Whole, CutOff
  <2>2. Len(t) <= Len(v) /\ \A i \in 1..Len(t) : t[i] = v[i]
    BY <2>1, PrefixElements
  <2>3. \A i \in 1..Len(st) : st[i] = uv[i]
    <3> TAKE i \in 1..Len(st)
    <3> DEFINE j == i - (Len(s) + 1)
    <3>1. i \in 1..(Len(s) + 1 + Len(t)) /\ i \in 1..(Len(u) + 1 + Len(v))
      <4> HIDE DEF st
      <4> QED
        BY <1>1, <2>1, <2>2
    <3>2. st[i] = IF i <= Len(s) THEN s[i]
                  ELSE IF i = Len(s) + 1 THEN b ELSE t[j]
      BY <3>1, JoinProperties
    <3>3. uv[i] = IF i <= Len(u) THEN u[i]
                  ELSE IF i = Len(u) + 1 THEN b ELSE v[i - (Len(u) + 1)]
      BY <3>1, JoinProperties
    <3>4. i > Len(s) + 1 => j \in 1..Len(t)
      BY <1>1, <3>1
    <3>5. i > Len(s) + 1 => t[j] = v[j]
      BY <2>2, <3>4
    <3> HIDE DEF st, uv
    <3> QED
      BY <1>1, <2>1, <3>1, <3>2, <3>3, <3>5
  <2> HIDE DEF st, uv
  <2>4. Len(st) <= Len(uv)
    BY <1>1, <2>1, <2>2
  <2> QED
    BY <1>1, <2>3, <2>4, PrefixElements
<1> HIDE DEF st, uv
<1>3. CutOff(ws, max, st, uv)
  BY <1>1, <1>2 DEF Whole, CutOff
<1> QED
  BY <1>1, <1>3 DEF st, uv

\* The same in a longer list.
LEMMA CutLonger ==
    ASSUME NEW ws, NEW max, NEW s \in Seq(Blocks), NEW t \in Seq(Blocks),
           NEW u \in Seq(Blocks), CutOff(ws, max, s, t), IsPrefix(t, u)
    PROVE  CutOff(ws, max, s, u)
<1>1. Len(s) \in Nat /\ Len(t) \in Nat /\ Len(u) \in Nat
  BY LenProperties
<1>2. Len(t) <= Len(u) /\ \A i \in 1..Len(t) : t[i] = u[i]
  BY PrefixElements
<1>3. Len(s) <= Len(t) /\ (Len(s) < Len(t) \/ max = 0)
  BY DEF CutOff
<1>4. ASSUME ws = {} PROVE IsPrefix(s, u)
  <2>1. \A i \in 1..Len(s) : s[i] = t[i]
    BY <1>4, PrefixElements DEF CutOff
  <2>2. \A i \in 1..Len(s) : s[i] = u[i]
    BY <1>1, <1>2, <1>3, <2>1
  <2> QED
    BY <1>1, <1>2, <1>3, <2>2, PrefixElements
<1> QED
  BY <1>1, <1>2, <1>3, <1>4 DEF CutOff

\* A part of a list is the list cut off, if it is not all of it.
LEMMA WholeIsCut ==
    ASSUME NEW tree, NEW ws, NEW max, NEW s \in Seq(Blocks),
           NEW t \in Seq(Blocks), NEW u \in Seq(Blocks),
           Whole(tree, ws, s, t), IsPrefix(t, u), Len(t) < Len(u) \/ max = 0
    PROVE  CutOff(ws, max, s, u)
<1>1. Len(s) \in Nat /\ Len(t) \in Nat /\ Len(u) \in Nat
  BY LenProperties
<1>2. Len(t) <= Len(u)
  BY DEF IsPrefix
<1> QED
  BY <1>1, <1>2 DEF Whole, CutOff

-----------------------------------------------------------------------------
\* What the invariant says of a frame.
LEMMA FrameFields ==
    ASSUME NEW f \in Frames
    PROVE  /\ f.block \in Nodes /\ f.from \in Nat /\ f.more \in BOOLEAN
           /\ f.page \in Seq(Blocks) /\ f.out \in Seq(Blocks)
           /\ Len(f.page) \in Nat
<1>1. /\ f.block \in Nodes /\ f.from \in Nat /\ f.more \in BOOLEAN
      /\ f.page \in Seq(Blocks) /\ f.out \in Seq(Blocks)
  BY DEF Frames, Nodes
<1> QED
  BY <1>1, LenProperties

LEMMA FrameTaken ==
    ASSUME NEW tree \in Trees, NEW cut, NEW met, NEW f \in Frames,
           FrameOK(tree, cut, met, f)
    PROVE  /\ Taken(f) \in 0..Len(tree[f.block])
           /\ Len(tree[f.block]) \in Nat
           /\ f.page # <<>> =>
                 /\ Taken(f) + 1 \in 1..Len(tree[f.block])
                 /\ Head(f.page) = tree[f.block][Taken(f) + 1]
                 /\ Head(f.page) \in Blocks
                 /\ Tail(f.page) \in Seq(Blocks)
                 /\ Len(Tail(f.page)) = Len(f.page) - 1
                 /\ \A j \in 1..Len(Tail(f.page)) :
                       Tail(f.page)[j] = tree[f.block][Taken(f) + 1 + j]
           /\ f.page = <<>> => Taken(f) = f.from - 1
<1> DEFINE n == Len(tree[f.block])
<1>1. /\ f.block \in Nodes /\ f.from \in Nat /\ f.page \in Seq(Blocks)
      /\ Len(f.page) \in Nat
  BY FrameFields
<1>2. n \in Nat
  BY <1>1, TreeProperties
<1>3. /\ Len(f.page) < f.from /\ f.from <= n + 1
      /\ \A j \in 1..Len(f.page) : f.page[j] = tree[f.block][Taken(f) + j]
  BY DEF FrameOK
<1>4. Taken(f) = f.from - 1 - Len(f.page)
  BY DEF Taken
<1>5. Taken(f) \in 0..n
  <2> HIDE DEF n
  <2> QED
    BY <1>1, <1>2, <1>3, <1>4
<1>6. ASSUME f.page # <<>>
      PROVE  /\ Taken(f) + 1 \in 1..n
             /\ Head(f.page) = tree[f.block][Taken(f) + 1]
             /\ Head(f.page) \in Blocks
             /\ Tail(f.page) \in Seq(Blocks)
             /\ Len(Tail(f.page)) = Len(f.page) - 1
             /\ \A j \in 1..Len(Tail(f.page)) :
                   Tail(f.page)[j] = tree[f.block][Taken(f) + 1 + j]
  <2> DEFINE p == f.page
             t == Taken(f)
  <2>1. Len(p) >= 1
    BY <1>1, <1>6, EmptySeq
  <2>2. t + 1 \in 1..n
    <3> HIDE DEF n
    <3> QED
      BY <1>1, <1>2, <1>3, <1>4, <2>1
  <2>3. Head(p) = p[1]
    BY <1>1, <1>6, <2>1
  <2>4. Head(p) = tree[f.block][t + 1]
    BY <1>1, <1>3, <2>1, <2>3
  <2>5. /\ Head(p) \in Blocks /\ Tail(p) \in Seq(Blocks)
        /\ Len(Tail(p)) = Len(p) - 1
        /\ \A j \in 1..Len(Tail(p)) : Tail(p)[j] = p[j + 1]
    BY <1>1, <1>6, HeadTailProperties
  <2>6. ASSUME NEW j \in 1..Len(Tail(p))
        PROVE  Tail(p)[j] = tree[f.block][t + 1 + j]
    <3>1. j + 1 \in 1..Len(p) /\ t + (j + 1) = t + 1 + j
      BY <1>1, <1>5, <2>5
    <3>2. p[j + 1] = tree[f.block][t + (j + 1)]
      BY <1>3, <3>1
    <3> QED
      BY <2>5, <3>1, <3>2
  <2> QED
    BY <2>2, <2>4, <2>5, <2>6
<1>7. f.page = <<>> => Taken(f) = f.from - 1
  BY <1>1, <1>4, EmptySeq
<1> QED
  BY <1>2, <1>5, <1>6, <1>7

\* What it says of a read that goes on.
LEMMA ReadFacts ==
    ASSUME Inv, Running
    PROVE  /\ children \in Trees /\ answer = "none"
           /\ Len(stack) \in Nat /\ Len(stack) >= 1
           /\ Len(stack) <= maxDepth + 1
           /\ stack \in Seq(Frames)
           /\ top = stack[Len(stack)]
           /\ \A i \in 1..Len(stack) :
                 /\ stack[i] \in Frames /\ Levels(i) \in 1..MaxLevels
                 /\ FrameOK(children, truncated, seen, stack[i])
           /\ \A i \in 2..Len(stack) : stack[i].block \in Blocks
<1>1. /\ children \in Trees /\ stack \in Seq(Frames)
      /\ Len(stack) <= maxDepth + 1 /\ maxDepth \in 0..DocMaxDepth
  BY DEF Inv, TypeOK
<1>2. stack # <<>> /\ answer = "none"
  BY DEF Running
<1>3. Len(stack) \in Nat /\ Len(stack) >= 1
  BY <1>1, <1>2, EmptySeq
<1>4. \A i \in 1..Len(stack) : stack[i] \in Frames
  BY <1>1, ElementOfSeq
<1>5. \A i \in 1..Len(stack) : Levels(i) \in 1..MaxLevels
  <2>1. maxDepth \in Nat /\ DocMaxDepth \in Nat /\ maxDepth <= DocMaxDepth
    BY <1>1, LimitsAssumption
  <2> QED
    BY <1>1, <1>3, <2>1 DEF Levels, MaxLevels
<1>6. /\ \A i \in 1..Len(stack) : FrameOK(children, truncated, seen, stack[i])
      /\ \A i \in 1..(Len(stack) - 1) : Calls(children, stack[i], stack[i + 1])
  BY DEF Inv, Shape
<1>7. ASSUME NEW i \in 2..Len(stack) PROVE stack[i].block \in Blocks
  <2> DEFINE f == stack[i - 1]
  <2>1. /\ i - 1 \in 1..(Len(stack) - 1) /\ i - 1 \in 1..Len(stack)
        /\ (i - 1) + 1 = i
    BY <1>3
  <2>2. Taken(f) >= 1 /\ stack[i].block = children[f.block][Taken(f)]
    BY <1>6, <2>1 DEF Calls
  <2>3. f \in Frames /\ FrameOK(children, truncated, seen, f)
    BY <1>4, <1>6, <2>1
  <2> HIDE DEF f
  <2>4. Taken(f) \in 0..Len(children[f.block]) /\ Len(children[f.block]) \in Nat
    BY <1>1, <2>3, FrameTaken
  <2>5. Taken(f) \in 1..Len(children[f.block])
    BY <2>2, <2>4
  <2>6. f.block \in Nodes
    BY <2>3, FrameFields
  <2> QED
    BY <1>1, <2>2, <2>5, <2>6, TreeProperties
<1> QED
  BY <1>1, <1>2, <1>3, <1>4, <1>5, <1>6, <1>7 DEF top, Last

\* The innermost frame by itself.
LEMMA TopFacts ==
    ASSUME Inv, Running
    PROVE  /\ children \in Trees /\ answer = "none"
           /\ Len(stack) \in Nat /\ Len(stack) >= 1
           /\ Len(stack) <= maxDepth + 1
           /\ stack \in Seq(Frames) /\ top = stack[Len(stack)]
           /\ Levels(Len(stack)) \in 1..MaxLevels
           /\ top \in Frames /\ FrameOK(children, truncated, seen, top)
           /\ \A i \in 1..Len(stack) :
                 /\ stack[i] \in Frames
                 /\ FrameOK(children, truncated, seen, stack[i])
<1> DEFINE n == Len(stack)
<1>1. /\ children \in Trees /\ answer = "none" /\ stack \in Seq(Frames)
      /\ n \in Nat /\ n >= 1 /\ n <= maxDepth + 1 /\ top = stack[n]
  BY ReadFacts
<1>2. \A i \in 1..n : /\ stack[i] \in Frames /\ Levels(i) \in 1..MaxLevels
                      /\ FrameOK(children, truncated, seen, stack[i])
  BY ReadFacts
<1> HIDE DEF n
<1>3. n \in 1..n
  BY <1>1
<1>4. /\ stack[n] \in Frames /\ Levels(n) \in 1..MaxLevels
      /\ FrameOK(children, truncated, seen, stack[n])
  BY <1>2, <1>3
<1> QED
  BY <1>1, <1>2, <1>4 DEF n

LEMMA CallerOK ==
    ASSUME NEW tree \in Trees, NEW cut, NEW met, NEW cut2, NEW met2,
           NEW f \in Frames, FrameOK(tree, cut, met, f), Taken(f) >= 1,
           cut => cut2
    PROVE  FrameOK(tree, cut2, met2, f)
<1>1. Taken(f) \in 0..Len(tree[f.block]) /\ Len(tree[f.block]) \in Nat
  BY FrameTaken
<1>2. tree[f.block] # <<>>
  BY <1>1, EmptySeq
<1> QED
  BY <1>2 DEF FrameOK

\* The blocks met grow with the list.
Moved(met, met2, s, t) == met2 + Len(s) = met + Len(t)

LEMMA MovedByOne ==
    ASSUME NEW met \in Nat, NEW met2, met2 = met + 1,
           NEW s \in Seq(Blocks), NEW t \in Seq(Blocks), Len(t) = Len(s) + 1
    PROVE  Moved(met, met2, s, t)
BY LenProperties DEF Moved

LEMMA MovedCount ==
    ASSUME NEW met \in Nat, NEW met2 \in Nat, NEW c \in Nat,
           NEW s \in Seq(Blocks), NEW t \in Seq(Blocks),
           met = c + Len(s), Moved(met, met2, s, t)
    PROVE  met2 = c + Len(t)
BY LenProperties DEF Moved

\* The innermost frame goes on with its list.
LEMMA TopReplaced ==
    ASSUME Inv, Running, NEW f \in Frames, Become(f), f.block = top.block,
           UNCHANGED <<limits, warnings, result, answer>>,
           seen' \in 0..maxBlocks, truncated' \in BOOLEAN,
           truncated => truncated', truncated' => seen' = maxBlocks,
           FrameOK(children, truncated', seen', f),
           warnings = {} => Moved(seen, seen', top.out, f.out),
           IF truncated'
           THEN CutOff(warnings, maxBlocks, f.out,
                       Preorder(children)[Levels(Len(stack))][f.block])
           ELSE Whole(children, warnings, f.out,
                      Part(children, Levels(Len(stack)), f.block, Taken(f)))
    PROVE  Inv'
<1> DEFINE n == Len(stack)
<1>1. /\ children \in Trees /\ answer = "none" /\ n \in Nat /\ n >= 1
      /\ n <= maxDepth + 1 /\ stack \in Seq(Frames) /\ top = stack[n]
      /\ \A i \in 1..n : /\ stack[i] \in Frames
                         /\ FrameOK(children, truncated, seen, stack[i])
  BY ReadFacts
<1>2. /\ stack' \in Seq(Frames) /\ Len(stack') = n /\ stack'[n] = f
      /\ \A i \in 1..(n - 1) : stack'[i] = stack[i]
  <2>1. stack' = [stack EXCEPT ![n] = f] /\ n \in 1..n
    BY <1>1 DEF Become
  <2>2. /\ [stack EXCEPT ![n] = f] \in Seq(Frames)
        /\ Len([stack EXCEPT ![n] = f]) = n
        /\ \A j \in 1..n :
              [stack EXCEPT ![n] = f][j] = IF j = n THEN f ELSE stack[j]
    BY <1>1, <2>1, ExceptSeq
  <2> HIDE DEF n
  <2> QED
    BY <1>1, <2>1, <2>2
<1>3. /\ UNCHANGED <<children, maxBlocks, maxDepth>>
      /\ \A i : Levels(i)' = Levels(i)
  BY DEF limits, Levels
<1>4. TypeOK'
  BY <1>1, <1>2, <1>3 DEF Inv, TypeOK
<1>5. top' = f
  BY <1>2 DEF top, Last
<1> HIDE DEF n
<1>6. stack' # <<>> /\ stack # <<>>
  <2>1. Len(<<>>) = 0
    BY EmptySeq
  <2> QED
    BY <1>1, <1>2, <2>1 DEF Running
<1>7. \A i \in 1..(n - 1) : Calls(children, stack[i], stack[i + 1])
  BY DEF Inv, Shape, n
<1>8. Shape'
  <2>1. stack'[1].block = Root
    <3>1. stack[1].block = Root
      BY <1>6 DEF Inv, Shape
    <3> QED
      BY <1>1, <1>2, <3>1
  <2>2. ASSUME NEW i \in 1..n
        PROVE  FrameOK(children, truncated', seen', stack'[i])
    <3>1. CASE i = n
      BY <1>2, <3>1
    <3>2. CASE i # n
      <4>1. i \in 1..(n - 1)
        BY <1>1, <3>2
      <4>2. Taken(stack[i]) >= 1
        BY <1>7, <4>1 DEF Calls
      <4>3. FrameOK(children, truncated', seen', stack[i])
        BY <1>1, <4>2, CallerOK
      <4> QED
        BY <1>2, <4>1, <4>3
    <3> QED
      BY <3>1, <3>2
  <2>3. ASSUME NEW i \in 1..(n - 1)
        PROVE  Calls(children, stack'[i], stack'[i + 1])
    <3>1. Calls(children, stack[i], stack[i + 1]) /\ stack'[i] = stack[i]
      BY <1>2, <1>7
    <3>2. stack'[i + 1].block = stack[i + 1].block
      <4>1. CASE i + 1 = n
        BY <1>1, <1>2, <4>1
      <4>2. CASE i + 1 # n
        <5>1. i + 1 \in 1..(n - 1)
          BY <1>1, <4>2
        <5> QED
          BY <1>2, <5>1
      <4> QED
        BY <4>1, <4>2
    <3> QED
      BY <3>1, <3>2 DEF Calls
  <2> QED
    BY <1>2, <1>3, <2>1, <2>2, <2>3 DEF Shape
<1>9. Phases'
  BY <1>1, <1>3, <1>6 DEF Phases
<1>10. CallersHave'
  <2>1. ASSUME NEW i \in 1..(n - 1)
        PROVE  Whole(children, warnings, stack'[i].out,
                     Part(children, Levels(i), stack'[i].block,
                          Taken(stack'[i]) - 1))
    BY <1>2 DEF Inv, CallersHave, n
  <2> QED
    BY <1>2, <1>3, <2>1 DEF CallersHave
<1>11. TopHas'
  BY <1>2, <1>3, <1>5 DEF TopHas, n
<1>12. AnswerHas'
  BY <1>1 DEF AnswerHas
<1>13. Counted'
  <2> SUFFICES ASSUME warnings = {}
               PROVE  \E before : Counts(before, Len(stack))'
    BY <1>1 DEF Counted
  <2>1. PICK before : Counts(before, n)
    BY <1>6 DEF Inv, Counted, n
  <2>2. /\ before \in [1..n -> Nat] /\ before[1] = 0
        /\ \A i \in 1..(n - 1) :
              before[i + 1] = before[i] + Len(stack[i].out) + 1
        /\ seen = before[n] + Len(stack[n].out)
    BY <2>1 DEF Counts
  <2>3. \A i \in 1..(n - 1) :
           before[i + 1] = before[i] + Len(stack'[i].out) + 1
    BY <1>2, <2>2
  <2>4. seen' = before[n] + Len(stack'[n].out)
    <3>1. f.out \in Seq(Blocks) /\ stack[n].out \in Seq(Blocks)
      <4>1. stack[n] \in Frames
        BY <1>1
      <4> QED
        BY <4>1, FrameFields
    <3>2. seen \in Nat /\ seen' \in Nat
      BY LimitsAssumption DEF Inv, TypeOK
    <3>3. before[n] \in Nat
      BY <1>1, <2>2
    <3>4. seen = before[n] + Len(stack[n].out)
      BY <2>2
    <3>5. Moved(seen, seen', stack[n].out, f.out)
      BY <1>1
    <3>6. seen' = before[n] + Len(f.out)
      BY <3>1, <3>2, <3>3, <3>4, <3>5, MovedCount
    <3> QED
      BY <1>2, <3>6
  <2> QED
    BY <1>2, <2>2, <2>3, <2>4 DEF Counts
<1> QED
  BY <1>4, <1>8, <1>9, <1>10, <1>11, <1>12, <1>13 DEF Inv

-----------------------------------------------------------------------------
\* The steps in which the innermost list goes on.
LEMMA PageKeeps ==
    ASSUME Inv, NEW count \in 0..PageSize, Page(count)
    PROVE  Inv'
<1> DEFINE n == Len(stack)
           all == children[top.block]
           to == top.from + count - 1
           f == [top EXCEPT !.from = to + 1,
                            !.page = SubSeq(all, top.from, to),
                            !.more = to < Len(all)]
<1>1. /\ Running /\ top.page = <<>> /\ top.more /\ seen < maxBlocks
      /\ to <= Len(all) /\ (count = 0 => all = <<>>) /\ Become(f)
      /\ UNCHANGED <<limits, seen, truncated, warnings, result, answer>>
  <2>1. seen \in Nat /\ maxBlocks \in Nat
    BY LimitsAssumption DEF Inv, TypeOK
  <2> QED
    BY <2>1 DEF Page, Full
<1>2. /\ children \in Trees /\ n \in Nat /\ n >= 1 /\ top = stack[n]
      /\ top \in Frames /\ FrameOK(children, truncated, seen, top)
  <2>1. Running
    BY <1>1
  <2> QED
    BY <2>1, TopFacts
<1>3. /\ top.block \in Nodes /\ top.from \in Nat /\ top.out \in Seq(Blocks)
      /\ top \in Frames
  BY <1>2, FrameFields
<1>4. /\ all \in Seq(Blocks) /\ Len(all) \in Nat /\ count \in Nat
      /\ \A i \in 1..Len(all) : all[i] \in Blocks
  BY <1>2, <1>3, TreeProperties, LimitsAssumption
<1>5. /\ Taken(top) = top.from - 1 /\ top.from >= 1
      /\ top.from <= Len(all) + 1
      /\ top.from <= Len(all) \/ all = <<>>
      /\ all = <<>> => seen = 0
  <2>1. Taken(top) = top.from - 1
    BY <1>1, <1>2, FrameTaken
  <2>2. Len(top.page) = 0
    BY <1>1, EmptySeq
  <2>3. /\ Len(top.page) < top.from /\ top.from <= Len(all) + 1
        /\ top.from <= Len(all) \/ all = <<>>
        /\ all = <<>> => seen = 0
    BY <1>1, <1>2 DEF FrameOK
  <2> HIDE DEF all
  <2> QED
    BY <1>3, <2>1, <2>2, <2>3
<1>6. ~truncated
  <2>1. seen \in Nat /\ maxBlocks \in Nat
    BY LimitsAssumption DEF Inv, TypeOK
  <2> QED
    BY <1>1, <2>1 DEF Inv, Phases
<1>7. /\ SubSeq(all, top.from, to) \in Seq(Blocks)
      /\ Len(SubSeq(all, top.from, to)) = count
      /\ \A i \in 1..count :
            SubSeq(all, top.from, to)[i] = all[top.from + i - 1]
  <2> DEFINE a == top.from
  <2>1. \A i \in a..to : all[i] \in Blocks
    BY <1>1, <1>3, <1>4, <1>5
  <2>2. a \in Int /\ to \in Int /\ to = a + count - 1
    BY <1>3, <1>4
  <2> HIDE DEF a, to, all
  <2>3. /\ SubSeq(all, a, to) \in Seq(Blocks)
        /\ Len(SubSeq(all, a, to)) = IF a <= to THEN to - a + 1 ELSE 0
        /\ \A i \in 1..(to - a + 1) : SubSeq(all, a, to)[i] = all[a + i - 1]
    BY <2>1, <2>2, SubSeqProperties
  <2>4. count \in Nat
    BY LimitsAssumption
  <2>5. to - a + 1 = count /\ (IF a <= to THEN to - a + 1 ELSE 0) = count
    BY <2>2, <2>4
  <2>6. /\ SubSeq(all, a, to) \in Seq(Blocks)
        /\ Len(SubSeq(all, a, to)) = count
        /\ \A i \in 1..count : SubSeq(all, a, to)[i] = all[a + i - 1]
    BY <2>3, <2>5
  <2> QED
    BY <2>6 DEF a
<1> DEFINE page == SubSeq(all, top.from, to)
<1>8. /\ f.block = top.block /\ f.from = top.from + count /\ f.page = page
      /\ f.more = (to < Len(all)) /\ f.out = top.out
      /\ f \in Frames
  <2>1. to + 1 = top.from + count /\ top.from + count \in Nat
    <3> DEFINE a == top.from
    <3>1. a \in Nat /\ count \in Nat /\ to + 1 = (a + count - 1) + 1
      BY <1>3, <1>4
    <3>2. (a + count - 1) + 1 = a + count
      <4> HIDE DEF a
      <4> QED
        BY ONLY <3>1
    <3> QED
      BY <3>1, <3>2
  <2>2. page \in Seq(Blocks)
    BY <1>7
  <2>3. (to < Len(all)) \in BOOLEAN
    OBVIOUS
  <2> HIDE DEF page, to, all
  <2>4. f = [top EXCEPT !.from = to + 1, !.page = page,
                        !.more = (to < Len(all))]
    BY DEF page
  <2> QED
    BY <1>2, <1>3, <2>1, <2>2, <2>3, <2>4 DEF Frames
<1>9. Taken(f) = top.from - 1
  <2> HIDE DEF f
  <2> QED
    BY <1>3, <1>4, <1>7, <1>8 DEF Taken
<1>10. FrameOK(children, truncated', seen', f)
  <2> PICK a \in Nat : a = top.from
    BY <1>3
  <2> PICK m \in Nat : m = Len(all)
    BY <1>4
  <2>1. /\ f.from = a + count /\ Len(f.page) = count /\ Taken(f) = a - 1
        /\ to = a + count - 1
        /\ to <= m /\ a >= 1 /\ a <= m + 1 /\ count \in Nat
        /\ a <= m \/ all = <<>>
        /\ count = 0 => all = <<>>
    BY <1>1, <1>4, <1>5, <1>7, <1>8, <1>9
  <2>2. (f.more => to < m) /\ (~f.more => ~(to < m))
    <3>1. f.more = (to < Len(all))
      BY <1>8
    <3> HIDE DEF f, to, all
    <3> QED
      BY <3>1
  <2>3. \A j \in 1..count : f.page[j] = all[a + j - 1]
    BY <1>7, <1>8
  <2>4. all = <<>> => m = 0
    BY EmptySeq
  <2> HIDE DEF f, to, all, page
  <2>5. Len(f.page) < f.from /\ f.from <= m + 1
    BY <2>1
  <2>6. ASSUME NEW j \in 1..Len(f.page) PROVE f.page[j] = all[Taken(f) + j]
    <3>1. j \in 1..count /\ (a - 1) + j = a + j - 1
      BY <2>1
    <3> QED
      BY <2>1, <2>3, <3>1
  <2>7. f.more => f.from <= m
    BY <2>1, <2>2
  <2>8. ~f.more => f.from = m + 1
    BY <2>1, <2>2
  <2>9. children[f.block] = all
    BY <1>8 DEF all
  <2> QED
    BY <1>1, <1>5, <2>5, <2>6, <2>7, <2>8, <2>9 DEF FrameOK
<1>11. Whole(children, warnings, f.out,
             Part(children, Levels(Len(stack)), f.block, Taken(f)))
  <2> HIDE DEF f
  <2> QED
    BY <1>1, <1>5, <1>6, <1>8, <1>9 DEF Inv, TopHas, Running
<1> HIDE DEF f
<1>12. /\ seen' \in 0..maxBlocks /\ truncated' \in BOOLEAN
       /\ truncated' = truncated /\ seen' = seen
       /\ Moved(seen, seen', top.out, f.out)
  BY <1>1, <1>3, <1>8, LenProperties, LimitsAssumption DEF Inv, TypeOK, Moved
<1> QED
  BY <1>1, <1>6, <1>8, <1>10, <1>11, <1>12, TopReplaced

LEMMA TruncateKeeps ==
    ASSUME Inv, Truncate
    PROVE  Inv'
<1> DEFINE n == Len(stack)
           all == children[top.block]
           f == [top EXCEPT !.page = <<>>, !.more = FALSE]
           l == Levels(n)
           want == Preorder(children)[l][top.block]
<1>1. /\ Running /\ seen >= maxBlocks /\ (top.more \/ top.page # <<>>)
      /\ Become(f) /\ truncated'
      /\ UNCHANGED <<limits, seen, warnings, result, answer>>
  BY DEF Truncate, Full
<1>2. /\ children \in Trees /\ n \in Nat /\ n >= 1 /\ top = stack[n]
      /\ top \in Frames /\ FrameOK(children, truncated, seen, top)
      /\ l \in 1..MaxLevels
  <2>1. Running
    BY <1>1
  <2> QED
    BY <2>1, TopFacts
<1>3. /\ top.block \in Nodes /\ top.from \in Nat /\ top.out \in Seq(Blocks)
      /\ top.page \in Seq(Blocks) /\ Len(top.page) \in Nat
  BY <1>2, FrameFields
<1>4. f.block = top.block /\ f.from = top.from /\ f.page = <<>>
      /\ f.more = FALSE /\ f.out = top.out /\ f \in Frames
  <2>1. <<>> \in Seq(Blocks)
    BY EmptySeq
  <2> QED
    BY <1>2, <1>3, <2>1 DEF Frames
<1>5. Len(f.page) = 0
  BY <1>4, EmptySeq
<1> HIDE DEF f
<1>6. FrameOK(children, truncated', seen', f)
  BY <1>1, <1>2, <1>3, <1>4, <1>5 DEF FrameOK
<1>7. seen = maxBlocks /\ maxBlocks \in Nat
  BY <1>1, LimitsAssumption DEF Inv, TypeOK
<1>8. CutOff(warnings, maxBlocks, top.out, want)
  <2>1. CASE truncated
    BY <1>1, <2>1 DEF Inv, TopHas, Running
  <2>2. CASE ~truncated
    <3> DEFINE k == Taken(top)
               part == Part(children, l, top.block, k)
    <3>1. Whole(children, warnings, top.out, part)
      BY <1>1, <2>2 DEF Inv, TopHas, Running
    <3>2. k \in 0..Len(all) /\ Len(all) \in Nat
      BY <1>2, FrameTaken
    <3>3. /\ part \in Seq(Blocks) /\ IsPrefix(part, want)
          /\ Len(part) + (Len(all) - k) <= Len(want)
      BY <1>2, <1>3, <3>2, PartIsPrefix
    <3>4. k < Len(all) \/ maxBlocks = 0
      <4>1. CASE top.page # <<>>
        <5>1. k + 1 \in 1..Len(all)
          BY <1>2, <4>1, FrameTaken
        <5> QED
          BY <3>2, <5>1
      <4>2. CASE top.page = <<>>
        <5>1. k = top.from - 1 /\ (top.from <= Len(all) \/ all = <<>>)
          BY <1>1, <1>2, <4>2, FrameTaken DEF FrameOK
        <5>2. all = <<>> => seen = 0
          BY <1>2 DEF FrameOK
        <5> QED
          BY <1>3, <1>7, <3>2, <5>1, <5>2
      <4> QED
        BY <4>1, <4>2
    <3>5. want \in Seq(Blocks)
      BY <1>2, <1>3, PartEquations
    <3>6. Len(part) \in Nat /\ Len(want) \in Nat
      BY <3>3, <3>5, LenProperties
    <3> HIDE DEF k, part, want
    <3>7. Len(part) < Len(want) \/ maxBlocks = 0
      BY <3>2, <3>3, <3>4, <3>6
    <3> QED
      BY <1>3, <3>1, <3>3, <3>5, <3>7, WholeIsCut
  <2> QED
    BY <2>1, <2>2
<1>9. /\ seen' \in 0..maxBlocks /\ truncated' \in BOOLEAN /\ seen' = maxBlocks
      /\ truncated'
      /\ Moved(seen, seen', top.out, f.out)
  <2>1. truncated' \in BOOLEAN
    BY DEF Truncate
  <2> QED
    BY <1>1, <1>3, <1>4, <1>7, <2>1, LenProperties DEF Moved
<1>10. CutOff(warnings, maxBlocks, f.out,
              Preorder(children)[Levels(Len(stack))][f.block])
  BY <1>4, <1>8
<1> QED
  BY <1>1, <1>4, <1>6, <1>9, <1>10, TopReplaced

\* One more child, and what is under it.
LEMMA PartNext ==
    ASSUME NEW tree \in Trees, NEW b \in Nodes, NEW l \in 1..MaxLevels,
           NEW k \in 1..Len(tree[b])
    PROVE  /\ Part(tree, l, b, k - 1) \in Seq(Blocks)
           /\ tree[b][k] \in Blocks
           /\ Preorder(tree)[l - 1][tree[b][k]] \in Seq(Blocks)
           /\ Part(tree, l, b, k) =
                 Joined(Part(tree, l, b, k - 1), tree[b][k],
                        Preorder(tree)[l - 1][tree[b][k]])
<1> DEFINE s == Part(tree, l, b, k - 1)
           c == tree[b][k]
           t == Preorder(tree)[l - 1][c]
<1>1. s \in Seq(Blocks) /\ t \in Seq(Blocks)
  BY PartEquations
<1>2. Part(tree, l, b, k) = s \o (<<c>> \o t)
  BY PartEquations
<1>3. c \in Blocks
  BY TreeProperties
<1>4. s \o (<<c>> \o t) = Joined(s, c, t)
  <2> HIDE DEF s, c, t
  <2> QED
    BY <1>1, <1>3, JoinedRight
<1> HIDE DEF s, t
<1>5. Part(tree, l, b, k) = Joined(s, c, t)
  BY <1>2, <1>4
<1> QED
  BY <1>1, <1>3, <1>5 DEF s, t

\* Nothing is listed under a leaf, or below the depth limit.
LEMMA LeafList ==
    ASSUME NEW tree \in Trees, NEW c \in Nodes, NEW l \in 1..MaxLevels,
           l = 1 \/ tree[c] = <<>>
    PROVE  Preorder(tree)[l - 1][c] = <<>>
<1>1. CASE l = 1
  BY <1>1, PreorderEquations
<1>2. CASE l # 1
  <2>1. l - 1 \in 1..MaxLevels
    BY <1>2, LimitsAssumption DEF MaxLevels
  <2>2. Len(tree[c]) = 0
    BY <1>2, EmptySeq
  <2>3. Part(tree, l - 1, c, 0) = <<>>
    BY <2>1, PartEquations
  <2>4. Part(tree, l - 1, c, Len(tree[c])) = Preorder(tree)[l - 1][c]
    BY <2>1, PartEquations
  <2> QED
    BY <2>2, <2>3, <2>4
<1> QED
  BY <1>1, <1>2

LEMMA AppendJoined ==
    ASSUME NEW s \in Seq(Blocks), NEW b \in Blocks
    PROVE  Append(s, b) = Joined(s, b, <<>>)
<1> DEFINE u == s \o <<b>>
<1>1. Append(s, b) = u
  BY AppendIsConcat
<1>2. u \in Seq(Blocks)
  BY ConcatProperties
<1>3. u \o <<>> = u
  <2> HIDE DEF u
  <2> QED
    BY <1>2, ConcatEmptySeq
<1> QED
  BY <1>1, <1>3 DEF Joined

\* A frame after it took the next block of its page.
LEMMA FrameGoesOn ==
    ASSUME NEW tree \in Trees, NEW cut, NEW met, NEW met2, NEW f \in Frames,
           NEW g \in Frames, FrameOK(tree, cut, met, f), f.page # <<>>,
           g.block = f.block, g.from = f.from, g.more = f.more,
           g.page = Tail(f.page)
    PROVE  FrameOK(tree, cut, met2, g) /\ Taken(g) = Taken(f) + 1
<1> DEFINE all == tree[f.block]
<1>1. /\ Taken(f) + 1 \in 1..Len(all) /\ Len(all) \in Nat
      /\ Len(g.page) = Len(f.page) - 1
      /\ \A j \in 1..Len(g.page) : g.page[j] = all[Taken(f) + 1 + j]
  <2> DEFINE p == Tail(f.page)
  <2>1. /\ Taken(f) + 1 \in 1..Len(all) /\ Len(all) \in Nat
        /\ Len(p) = Len(f.page) - 1
        /\ \A j \in 1..Len(p) : p[j] = all[Taken(f) + 1 + j]
    BY FrameTaken
  <2>2. g.page = p
    OBVIOUS
  <2> HIDE DEF p, all
  <2> QED
    BY <2>1, <2>2
<1>2. f.from \in Nat /\ Len(f.page) \in Nat /\ Len(g.page) \in Nat
  BY FrameFields
<1>3. Taken(g) = Taken(f) + 1
  <2>1. Taken(g) = f.from - 1 - Len(g.page) /\ Taken(f) = f.from - 1 - Len(f.page)
    BY DEF Taken
  <2> QED
    BY <1>1, <1>2, <2>1
<1>4. all # <<>>
  BY <1>1, EmptySeq
<1>5. /\ Len(f.page) < f.from /\ f.from <= Len(all) + 1
      /\ f.more => f.from <= Len(all) \/ all = <<>>
      /\ ~f.more /\ ~cut => f.from = Len(all) + 1
  BY DEF FrameOK
<1>6. Len(g.page) < g.from
  BY <1>1, <1>2, <1>5
<1>7. \A j \in 1..Len(g.page) : g.page[j] = all[Taken(g) + j]
  BY <1>1, <1>3
<1> HIDE DEF all
<1>8. tree[g.block] = all
  BY DEF all
<1> QED
  BY <1>3, <1>4, <1>5, <1>6, <1>7, <1>8 DEF FrameOK

LEMMA TakeBlockKeeps ==
    ASSUME Inv, TakeBlock
    PROVE  Inv'
<1> DEFINE n == Len(stack)
           c == Head(top.page)
           f == [top EXCEPT !.page = Tail(@), !.out = Append(@, c)]
           l == Levels(n)
           k == Taken(top)
<1>1. /\ Running /\ top.page # <<>> /\ seen < maxBlocks /\ ~Descends(c)
      /\ seen' = seen + 1 /\ Become(f)
      /\ UNCHANGED <<limits, truncated, warnings, result, answer>>
      /\ seen \in Nat /\ maxBlocks \in Nat
  <2>1. seen \in Nat /\ maxBlocks \in Nat
    BY LimitsAssumption DEF Inv, TypeOK
  <2> QED
    BY <2>1 DEF TakeBlock, Full
<1>2. /\ children \in Trees /\ n \in Nat /\ n >= 1 /\ top = stack[n]
      /\ top \in Frames /\ FrameOK(children, truncated, seen, top)
      /\ l \in 1..MaxLevels /\ n <= maxDepth + 1
  <2>1. Running
    BY <1>1
  <2> QED
    BY <2>1, TopFacts
<1>3. /\ top.block \in Nodes /\ top.out \in Seq(Blocks)
  BY <1>2, FrameFields
<1>4. /\ k + 1 \in 1..Len(children[top.block]) /\ k \in Nat
      /\ c = children[top.block][k + 1]
      /\ c \in Blocks /\ Tail(top.page) \in Seq(Blocks)
  <2>1. top.page # <<>>
    BY <1>1
  <2>2. /\ children \in Trees /\ top \in Frames
        /\ FrameOK(children, truncated, seen, top)
    BY <1>2
  <2> QED
    BY <2>1, <2>2, FrameTaken
<1>5. ~truncated
  BY <1>1 DEF Inv, Phases
<1>6. Append(top.out, c) \in Seq(Blocks)
  BY <1>3, <1>4, AppendProperties
<1>7. /\ f.block = top.block /\ f.from = top.from /\ f.more = top.more
      /\ f.page = Tail(top.page) /\ f.out = Append(top.out, c)
      /\ f \in Frames
  <2> DEFINE p == Tail(top.page)
             o == Append(top.out, c)
  <2>1. f = [top EXCEPT !.page = p, !.out = o]
    OBVIOUS
  <2>2. p \in Seq(Blocks) /\ o \in Seq(Blocks)
    BY <1>4, <1>6
  <2> HIDE DEF p, o, f
  <2>3. /\ f.block = top.block /\ f.from = top.from /\ f.more = top.more
        /\ f.page = p /\ f.out = o /\ f \in Frames
    BY <1>2, <2>1, <2>2 DEF Frames
  <2> QED
    BY <2>3 DEF p, o
<1> HIDE DEF f
<1>8. FrameOK(children, truncated', seen', f) /\ Taken(f) = k + 1
  <2>1. /\ f.block = top.block /\ f.from = top.from /\ f.more = top.more
        /\ f.page = Tail(top.page) /\ f \in Frames
    BY <1>7
  <2>2. /\ top \in Frames /\ top.page # <<>> /\ children \in Trees
        /\ FrameOK(children, truncated, seen, top)
    BY <1>1, <1>2
  <2>3. FrameOK(children, truncated, seen', f) /\ Taken(f) = k + 1
    BY <2>1, <2>2, FrameGoesOn
  <2> QED
    BY <1>1, <2>3
<1>9. Whole(children, warnings, f.out, Part(children, l, f.block, Taken(f)))
  <2> DEFINE e == <<>>
             part == Part(children, l, top.block, k)
  <2>1. Preorder(children)[l - 1][c] = e
    <3>1. l = 1 \/ children[c] = <<>>
      <4>1. depth < maxDepth => children[c] = <<>>
        BY <1>1, <1>2, <1>4, TreeAssumption DEF Descends, HasChildren
      <4>2. ~(depth < maxDepth) => l = 1
        <5>1. maxDepth \in Nat
          BY LimitsAssumption DEF Inv, TypeOK
        <5> QED
          BY <1>2, <5>1 DEF depth, Levels
      <4> QED
        BY <4>1, <4>2
    <3>2. c \in Nodes
      BY <1>4 DEF Nodes
    <3> HIDE DEF c, l
    <3> QED
      BY <1>2, <3>1, <3>2, LeafList
  <2>2. part \in Seq(Blocks) /\ Part(children, l, top.block, k + 1) = Joined(part, c, e)
    <3>1. (k + 1) - 1 = k
      BY <1>4
    <3>2. /\ Part(children, l, top.block, (k + 1) - 1) \in Seq(Blocks)
          /\ Part(children, l, top.block, k + 1) =
                Joined(Part(children, l, top.block, (k + 1) - 1),
                       children[top.block][k + 1],
                       Preorder(children)[l - 1][children[top.block][k + 1]])
      BY <1>2, <1>3, <1>4, PartNext
    <3> HIDE DEF k, l, e, c
    <3> QED
      BY <1>4, <2>1, <3>1, <3>2
  <2>3. Whole(children, warnings, top.out, part)
    BY <1>1, <1>5 DEF Inv, TopHas, Running
  <2>4. Whole(children, warnings, e, e) /\ e \in Seq(Blocks)
    BY WholeNone, EmptySeq
  <2>5. f.out = Joined(top.out, c, e)
    BY <1>3, <1>4, <1>7, AppendJoined
  <2> HIDE DEF e, part, c, k, l
  <2>6. Whole(children, warnings, Joined(top.out, c, e), Joined(part, c, e))
    BY <1>3, <1>4, <2>2, <2>3, <2>4, WholeJoin
  <2> QED
    BY <1>7, <1>8, <2>2, <2>5, <2>6
<1>10. Moved(seen, seen', top.out, f.out)
  <2>1. f.out \in Seq(Blocks) /\ Len(f.out) = Len(top.out) + 1
    BY <1>3, <1>4, <1>6, <1>7, AppendProperties
  <2> QED
    BY <1>1, <1>3, <2>1, MovedByOne
<1>11. seen' \in 0..maxBlocks /\ truncated' \in BOOLEAN
  BY <1>1 DEF Inv, TypeOK
<1> QED
  BY <1>1, <1>5, <1>7, <1>8, <1>9, <1>10, <1>11, TopReplaced

LEMMA FrameStarts ==
    ASSUME NEW tree \in Trees, NEW cut, NEW met, NEW c \in Nodes,
           tree[c] = <<>> => met = 0
    PROVE  /\ Frame(c) \in Frames /\ Frame(c).block = c
           /\ Frame(c).out = <<>> /\ Taken(Frame(c)) = 0
           /\ FrameOK(tree, cut, met, Frame(c))
<1> DEFINE f == Frame(c)
           e == <<>>
           m == Len(tree[c])
<1>1. e \in Seq(Blocks) /\ Len(e) = 0
  BY EmptySeq
<1>2. m \in Nat /\ (m = 0 => tree[c] = <<>>)
  BY TreeProperties, EmptySeq
<1> HIDE DEF e
<1>3. /\ f.block = c /\ f.from = 1 /\ f.page = e /\ f.more = TRUE
      /\ f.out = e /\ f \in Frames
  BY <1>1 DEF Frame, Frames, Nodes, e
<1> HIDE DEF f, m
<1>4. Len(f.page) = 0 /\ f.from = 1
  BY <1>1, <1>3
<1>5. Taken(f) = 0
  BY <1>4 DEF Taken
<1>6. Len(f.page) < f.from /\ f.from <= m + 1 /\ (1 <= m \/ tree[c] = <<>>)
  BY <1>2, <1>4
<1>7. FrameOK(tree, cut, met, f)
  BY <1>3, <1>4, <1>6 DEF FrameOK, m
<1> QED
  BY <1>3, <1>5, <1>7 DEF e, f

\* The call for the children of a block.
LEMMA DescendKeeps ==
    ASSUME Inv, Descend
    PROVE  Inv'
<1> DEFINE n == Len(stack)
           c == Head(top.page)
           g == [top EXCEPT !.page = Tail(@)]
           h == Frame(c)
           l == Levels(n)
           k == Taken(top)
<1>0. stack' = Append([stack EXCEPT ![n].page = Tail(@)], h)
  BY DEF Descend
<1>1. /\ Running /\ top.page # <<>> /\ seen < maxBlocks
      /\ children[c] # <<>> /\ n - 1 < maxDepth
      /\ seen' = seen + 1
      /\ UNCHANGED <<limits, truncated, warnings, result, answer>>
      /\ seen \in Nat /\ maxBlocks \in Nat /\ maxDepth \in Nat
  <2>1. seen \in Nat /\ maxBlocks \in Nat /\ maxDepth \in Nat
    BY LimitsAssumption DEF Inv, TypeOK
  <2> QED
    BY <2>1 DEF Descend, Full, Descends, HasChildren, depth
<1>2. /\ children \in Trees /\ answer = "none" /\ n \in Nat /\ n >= 1
      /\ top = stack[n] /\ stack \in Seq(Frames) /\ l \in 1..MaxLevels
      /\ top \in Frames /\ FrameOK(children, truncated, seen, top)
      /\ \A i \in 1..n : /\ stack[i] \in Frames
                         /\ FrameOK(children, truncated, seen, stack[i])
  <2>1. Running
    BY <1>1
  <2> QED
    BY <2>1, TopFacts
<1>3. /\ top.block \in Nodes /\ top.out \in Seq(Blocks)
  BY <1>2, FrameFields
<1>4. /\ k + 1 \in 1..Len(children[top.block]) /\ k \in Nat
      /\ c = children[top.block][k + 1]
      /\ c \in Blocks /\ Tail(top.page) \in Seq(Blocks)
  <2>1. top.page # <<>>
    BY <1>1
  <2>2. /\ children \in Trees /\ top \in Frames
        /\ FrameOK(children, truncated, seen, top)
    BY <1>2
  <2> QED
    BY <2>1, <2>2, FrameTaken
<1>5. ~truncated
  BY <1>1 DEF Inv, Phases
<1>6. /\ g.block = top.block /\ g.from = top.from /\ g.more = top.more
      /\ g.page = Tail(top.page) /\ g.out = top.out /\ g \in Frames
  <2> DEFINE p == Tail(top.page)
  <2>1. g = [top EXCEPT !.page = p] /\ p \in Seq(Blocks)
    BY <1>4
  <2> HIDE DEF p, g
  <2>2. /\ g.block = top.block /\ g.from = top.from /\ g.more = top.more
        /\ g.page = p /\ g.out = top.out /\ g \in Frames
    BY <1>2, <2>1 DEF Frames
  <2> QED
    BY <2>2 DEF p
<1>7. /\ h \in Frames /\ h.block = c /\ h.out = <<>> /\ Taken(h) = 0
      /\ FrameOK(children, truncated', seen', h)
  <2>1. c \in Nodes
    BY <1>4 DEF Nodes
  <2> HIDE DEF c
  <2> QED
    BY <1>1, <1>2, <2>1, FrameStarts
<1>8. /\ stack' \in Seq(Frames) /\ Len(stack') = n + 1
      /\ stack'[n + 1] = h /\ stack'[n] = g
      /\ \A i \in 1..(n - 1) : stack'[i] = stack[i]
  <2> DEFINE mid == [stack EXCEPT ![n] = g]
  <2>1. n \in 1..n
    BY <1>2
  <2>2. stack' = Append(mid, h)
    BY <1>0, <1>2
  <2>3. /\ mid \in Seq(Frames) /\ Len(mid) = n
        /\ \A j \in 1..n : mid[j] = IF j = n THEN g ELSE stack[j]
    BY <1>2, <1>6, <2>1, ExceptSeq
  <2> HIDE DEF mid, g, h
  <2>4. /\ Append(mid, h) \in Seq(Frames) /\ Len(Append(mid, h)) = Len(mid) + 1
        /\ \A j \in 1..Len(mid) : Append(mid, h)[j] = mid[j]
        /\ Append(mid, h)[Len(mid) + 1] = h
    BY <1>7, <2>3, AppendProperties
  <2> HIDE DEF n
  <2> QED
    BY <1>2, <2>2, <2>3, <2>4
<1>9. FrameOK(children, truncated', seen', g) /\ Taken(g) = k + 1
  <2>1. /\ g.block = top.block /\ g.from = top.from /\ g.more = top.more
        /\ g.page = Tail(top.page) /\ g \in Frames
    BY <1>6
  <2>2. /\ top \in Frames /\ top.page # <<>> /\ children \in Trees
        /\ FrameOK(children, truncated, seen, top)
    BY <1>1, <1>2
  <2> HIDE DEF g
  <2>3. FrameOK(children, truncated, seen', g) /\ Taken(g) = k + 1
    BY <2>1, <2>2, FrameGoesOn
  <2> QED
    BY <1>1, <2>3
<1>10. /\ UNCHANGED <<children, maxBlocks, maxDepth>>
       /\ \A i : Levels(i)' = Levels(i)
  BY <1>1 DEF limits, Levels
<1> HIDE DEF n, c, g, h
<1>11. TypeOK'
  BY <1>1, <1>2, <1>8, <1>10 DEF Inv, TypeOK
<1>12. top' = h
  BY <1>8 DEF top, Last
<1>13. stack' # <<>> /\ stack # <<>>
  <2>1. Len(<<>>) = 0
    BY EmptySeq
  <2> QED
    BY <1>1, <1>2, <1>8, <2>1 DEF Running
<1>14. \A i \in 1..(n - 1) : Calls(children, stack[i], stack[i + 1])
  BY DEF Inv, Shape, n
<1>15. Shape'
  <2>1. stack'[1].block = Root
    <3>1. stack[1].block = Root
      BY <1>13 DEF Inv, Shape
    <3>2. CASE n = 1
      BY <1>2, <1>6, <1>8, <3>1, <3>2
    <3>3. CASE n # 1
      <4>1. 1 \in 1..(n - 1)
        BY <1>2, <3>3
      <4> QED
        BY <1>8, <3>1, <4>1
    <3> QED
      BY <3>2, <3>3
  <2>2. ASSUME NEW i \in 1..(n + 1)
        PROVE  FrameOK(children, truncated', seen', stack'[i])
    <3>1. CASE i = n + 1
      BY <1>7, <1>8, <3>1
    <3>2. CASE i = n
      BY <1>8, <1>9, <3>2
    <3>3. CASE i # n /\ i # n + 1
      <4>1. i \in 1..(n - 1) /\ i \in 1..n
        BY <1>2, <3>3
      <4>2. Taken(stack[i]) >= 1
        BY <1>14, <4>1 DEF Calls
      <4>3. FrameOK(children, truncated', seen', stack[i])
        BY <1>1, <1>2, <4>1, <4>2, CallerOK
      <4> QED
        BY <1>8, <4>1, <4>3
    <3> QED
      BY <3>1, <3>2, <3>3
  <2>3. ASSUME NEW i \in 1..n
        PROVE  Calls(children, stack'[i], stack'[i + 1])
    <3>1. CASE i = n
      BY <1>4, <1>6, <1>7, <1>8, <1>9, <3>1 DEF Calls
    <3>2. CASE i # n
      <4>1. i \in 1..(n - 1)
        BY <1>2, <3>2
      <4>2. Calls(children, stack[i], stack[i + 1]) /\ stack'[i] = stack[i]
        BY <1>8, <1>14, <4>1
      <4>3. stack'[i + 1].block = stack[i + 1].block
        <5>1. CASE i + 1 = n
          BY <1>2, <1>6, <1>8, <5>1
        <5>2. CASE i + 1 # n
          <6>1. i + 1 \in 1..(n - 1)
            BY <1>2, <4>1, <5>2
          <6> QED
            BY <1>8, <6>1
        <5> QED
          BY <5>1, <5>2
      <4> QED
        BY <4>2, <4>3 DEF Calls
    <3> QED
      BY <3>1, <3>2
  <2>4. Len(stack') - 1 = n
    BY <1>2, <1>8
  <2> QED
    BY <1>8, <1>10, <2>1, <2>2, <2>3, <2>4 DEF Shape
<1>16. Phases'
  BY <1>1, <1>2, <1>5, <1>13 DEF Phases
<1>17. CallersHave'
  <2>1. ASSUME NEW i \in 1..n
        PROVE  Whole(children, warnings, stack'[i].out,
                     Part(children, Levels(i), stack'[i].block,
                          Taken(stack'[i]) - 1))
    <3>1. CASE i = n
      <4>1. Whole(children, warnings, top.out,
                  Part(children, Levels(n), top.block, k))
        BY <1>5, <1>13 DEF Inv, TopHas, n
      <4>2. Taken(g) - 1 = k
        BY <1>4, <1>9
      <4> QED
        BY <1>6, <1>8, <3>1, <4>1, <4>2
    <3>2. CASE i # n
      <4>1. i \in 1..(n - 1)
        BY <1>2, <3>2
      <4> QED
        BY <1>8, <4>1 DEF Inv, CallersHave, n
    <3> QED
      BY <3>1, <3>2
  <2>2. Len(stack') - 1 = n
    BY <1>2, <1>8
  <2> QED
    BY <1>1, <1>10, <2>1, <2>2 DEF CallersHave
<1>18. TopHas'
  <2>1. Levels(n + 1) \in 1..MaxLevels
    <3>1. DocMaxDepth \in Nat /\ maxDepth <= DocMaxDepth
      BY LimitsAssumption DEF Inv, TypeOK
    <3> QED
      BY <1>1, <1>2, <3>1 DEF Levels, MaxLevels
  <2>2. Part(children, Levels(n + 1), c, 0) = <<>>
    <3>1. c \in Nodes
      BY <1>4 DEF Nodes
    <3> QED
      BY <1>2, <2>1, <3>1, PartEquations
  <2>3. Whole(children, warnings, h.out,
              Part(children, Levels(n + 1), h.block, Taken(h)))
    BY <1>7, <2>2, WholeNone
  <2> QED
    BY <1>1, <1>5, <1>8, <1>10, <1>12, <2>3 DEF TopHas
<1>19. AnswerHas'
  BY <1>1, <1>2 DEF AnswerHas
<1>20. Counted'
  <2> SUFFICES ASSUME warnings = {}
               PROVE  \E before : Counts(before, Len(stack))'
    BY <1>1, <1>2 DEF Counted
  <2>1. PICK before : Counts(before, n)
    BY <1>13 DEF Inv, Counted, n
  <2>2. /\ before \in [1..n -> Nat] /\ before[1] = 0
        /\ \A i \in 1..(n - 1) :
              before[i + 1] = before[i] + Len(stack[i].out) + 1
        /\ seen = before[n] + Len(top.out)
    BY <1>2, <2>1 DEF Counts
  <2>3. before[n] \in Nat /\ Len(top.out) \in Nat
    BY <1>2, <1>3, <2>2, LenProperties
  <2> DEFINE after == [i \in 1..(n + 1) |-> IF i = n + 1 THEN seen'
                                            ELSE before[i]]
  <2>4. after \in [1..(n + 1) -> Nat]
    <3>1. seen' \in Nat
      BY <1>1
    <3>2. ASSUME NEW i \in 1..(n + 1), i # n + 1 PROVE before[i] \in Nat
      <4>1. i \in 1..n
        BY <1>2, <3>2
      <4> QED
        BY <2>2, <4>1
    <3> QED
      BY <3>1, <3>2
  <2>5. /\ after[1] = 0 /\ after[n + 1] = seen' /\ after[n] = before[n]
        /\ \A i \in 1..n : after[i] = before[i]
    BY <1>2, <2>2
  <2> HIDE DEF after
  <2>6. ASSUME NEW i \in 1..n
        PROVE  after[i + 1] = after[i] + Len(stack'[i].out) + 1
    <3>1. CASE i = n
      BY <1>1, <1>6, <1>8, <2>2, <2>3, <2>5, <3>1
    <3>2. CASE i # n
      <4>1. i \in 1..(n - 1) /\ i + 1 \in 1..n
        BY <1>2, <3>2
      <4> QED
        BY <1>8, <2>2, <2>5, <4>1
    <3> QED
      BY <3>1, <3>2
  <2>7. seen' = after[n + 1] + Len(stack'[n + 1].out)
    <3>1. Len(stack'[n + 1].out) = 0
      BY <1>7, <1>8, EmptySeq
    <3> QED
      BY <1>1, <2>5, <3>1
  <2>8. (n + 1) - 1 = n
    BY <1>2
  <2> QED
    BY <1>8, <2>4, <2>5, <2>6, <2>7, <2>8 DEF Counts
<1> QED
  BY <1>11, <1>15, <1>16, <1>17, <1>18, <1>19, <1>20 DEF Inv

LEMMA SumOfThree ==
    ASSUME NEW a \in Nat, NEW b \in Nat, NEW c \in Nat
    PROVE  a + b + 1 + c = a + (b + 1 + c)
OBVIOUS

LEMMA FrontFacts ==
    ASSUME NEW S, NEW s \in Seq(S), Len(s) >= 1
    PROVE  /\ Front(s) \in Seq(S) /\ Len(Front(s)) = Len(s) - 1
           /\ \A i \in 1..(Len(s) - 1) : Front(s)[i] = s[i]
<1> PICK n \in Nat : n = Len(s) - 1
  BY LenProperties
<1>1. \A i \in 1..n : s[i] \in S
  BY LenProperties, ElementOfSeq
<1>2. /\ SubSeq(s, 1, n) \in Seq(S)
      /\ Len(SubSeq(s, 1, n)) = IF 1 <= n THEN n - 1 + 1 ELSE 0
      /\ \A i \in 1..(n - 1 + 1) : SubSeq(s, 1, n)[i] = s[1 + i - 1]
  BY <1>1, SubSeqProperties
<1>3. Front(s) = SubSeq(s, 1, n)
  BY DEF Front
<1> QED
  BY <1>2, <1>3

\* The innermost call ends and hands its list to the caller.
LEMMA PopKeeps ==
    ASSUME Inv, Running, NEW m \in Nat, Len(stack) = m + 1, m >= 1,
           NEW out \in Seq(Blocks), PopWith(out),
           UNCHANGED <<limits, seen, truncated, result, answer>>,
           warnings \subseteq warnings', warnings' \subseteq Blocks,
           warnings' = {} => out = top.out,
           NEW o, o = Joined(stack[m].out, top.block, out),
           IF truncated
           THEN CutOff(warnings', maxBlocks, o,
                       Preorder(children)[Levels(m)][stack[m].block])
           ELSE Whole(children, warnings', o,
                      Part(children, Levels(m), stack[m].block,
                           Taken(stack[m])))
    PROVE  Inv'
<1> DEFINE n == Len(stack)
           f == stack[m]
           g == [f EXCEPT !.out = o]
<1>1. /\ children \in Trees /\ answer = "none" /\ n \in Nat /\ n >= 1
      /\ n <= maxDepth + 1
      /\ top = stack[n] /\ stack \in Seq(Frames)
      /\ \A i \in 1..n : /\ stack[i] \in Frames
                         /\ FrameOK(children, truncated, seen, stack[i])
      /\ \A i \in 2..n : stack[i].block \in Blocks
  BY ReadFacts
<1>2. /\ m \in Nat /\ m \in 1..n /\ n = m + 1 /\ n \in 1..n /\ n \in 2..n
  OBVIOUS
<1>3. top.block \in Blocks /\ top.out \in Seq(Blocks)
  <2>1. top \in Frames
    BY <1>1, <1>2
  <2> QED
    BY <1>1, <1>2, <2>1, FrameFields
<1>4. f \in Frames /\ f.out \in Seq(Blocks) /\ FrameOK(children, truncated, seen, f)
  <2>1. f \in Frames /\ FrameOK(children, truncated, seen, f)
    BY <1>1, <1>2
  <2> QED
    BY <2>1, FrameFields
<1>5. o \in Seq(Blocks)
  BY <1>3, <1>4, JoinedLen
<1>6. /\ g.block = f.block /\ g.from = f.from /\ g.page = f.page
      /\ g.more = f.more /\ g.out = o /\ g \in Frames
  <2> HIDE DEF f
  <2> QED
    BY <1>4, <1>5 DEF Frames
<1>7. /\ stack' \in Seq(Frames) /\ Len(stack') = m /\ stack'[m] = g
      /\ \A i \in 1..(m - 1) : stack'[i] = stack[i]
  <2> DEFINE rest == Front(stack)
  <2>1. /\ rest \in Seq(Frames) /\ Len(rest) = m
        /\ \A i \in 1..m : rest[i] = stack[i]
    <3>1. n >= 1
      BY <1>1
    <3> QED
      BY <1>1, <3>1, FrontFacts
  <2>2. stack' = [rest EXCEPT ![m].out = @ \o <<top.block>> \o out]
    <3>1. stack' = [rest EXCEPT ![Len(rest)].out = @ \o <<top.block>> \o out]
      BY DEF PopWith
    <3> HIDE DEF rest
    <3> QED
      BY <2>1, <3>1
  <2>3. rest[m] = f
    BY <1>2, <2>1
  <2>4. o = rest[m].out \o <<top.block>> \o out
    BY <2>3 DEF Joined
  <2> HIDE DEF rest
  <2>5. stack' = [rest EXCEPT ![m] = g]
    BY <2>2, <2>3, <2>4
  <2> HIDE DEF f, g
  <2>6. m \in 1..Len(rest)
    BY <1>2, <2>1
  <2>7. /\ [rest EXCEPT ![m] = g] \in Seq(Frames)
        /\ Len([rest EXCEPT ![m] = g]) = Len(rest)
        /\ \A j \in 1..Len(rest) :
              [rest EXCEPT ![m] = g][j] = IF j = m THEN g ELSE rest[j]
    BY <1>6, <2>1, <2>6, ExceptSeq
  <2>8. \A i \in 1..(m - 1) : stack'[i] = stack[i]
    BY <1>2, <2>1, <2>5, <2>7
  <2> QED
    BY <1>2, <2>1, <2>5, <2>7, <2>8
<1>8. /\ UNCHANGED <<children, maxBlocks, maxDepth>>
      /\ \A i : Levels(i)' = Levels(i)
  BY DEF limits, Levels
<1>9. /\ \A i \in 1..(n - 1) : Calls(children, stack[i], stack[i + 1])
      /\ stack[1].block = Root
  BY DEF Inv, Shape, Running
<1>10. /\ Taken(g) = Taken(f) /\ Calls(children, f, top)
       /\ FrameOK(children, truncated, seen, g)
  <2>1. Calls(children, f, top)
    BY <1>1, <1>2, <1>9
  <2>2. Taken(g) = Taken(f)
    BY <1>6 DEF Taken
  <2> HIDE DEF f, g
  <2> QED
    BY <1>4, <1>6, <2>1, <2>2 DEF FrameOK
<1> HIDE DEF n, f, g
<1>11. TypeOK'
  <2>1. maxDepth \in Nat
    BY LimitsAssumption DEF Inv, TypeOK
  <2>2. Len(stack') <= maxDepth + 1
    BY <1>1, <1>2, <1>7, <2>1
  <2> QED
    BY <1>1, <1>7, <1>8, <2>2 DEF Inv, TypeOK
<1>12. top' = g /\ stack' # <<>>
  <2>1. Len(<<>>) = 0
    BY EmptySeq
  <2> QED
    BY <1>2, <1>7, <2>1 DEF top, Last
<1>13. Shape'
  <2>1. stack'[1].block = Root
    <3>1. CASE m = 1
      BY <1>6, <1>7, <1>9, <3>1 DEF f
    <3>2. CASE m # 1
      <4>1. 1 \in 1..(m - 1)
        BY <1>2, <3>2
      <4> QED
        BY <1>7, <1>9, <4>1
    <3> QED
      BY <3>1, <3>2
  <2>2. ASSUME NEW i \in 1..m
        PROVE  FrameOK(children, truncated, seen, stack'[i])
    <3>1. CASE i = m
      BY <1>7, <1>10, <3>1
    <3>2. CASE i # m
      <4>1. i \in 1..(m - 1) /\ i \in 1..n
        BY <1>2, <3>2
      <4> QED
        BY <1>1, <1>7, <4>1
    <3> QED
      BY <3>1, <3>2
  <2>3. ASSUME NEW i \in 1..(m - 1)
        PROVE  Calls(children, stack'[i], stack'[i + 1])
    <3>1. i \in 1..(n - 1) /\ i + 1 \in 1..m
      BY <1>2
    <3>2. Calls(children, stack[i], stack[i + 1]) /\ stack'[i] = stack[i]
      BY <1>7, <1>9, <3>1
    <3>3. stack'[i + 1].block = stack[i + 1].block
      <4>1. CASE i + 1 = m
        BY <1>6, <1>7, <4>1 DEF f
      <4>2. CASE i + 1 # m
        <5>1. i + 1 \in 1..(m - 1)
          BY <1>2, <3>1, <4>2
        <5> QED
          BY <1>7, <5>1
      <4> QED
        BY <4>1, <4>2
    <3> QED
      BY <3>2, <3>3 DEF Calls
  <2> QED
    BY <1>7, <1>8, <2>1, <2>2, <2>3 DEF Shape
<1>14. Phases'
  BY <1>1, <1>8, <1>12 DEF Inv, Phases
<1>15. CallersHave'
  <2>1. ASSUME NEW i \in 1..(m - 1)
        PROVE  Whole(children, warnings', stack'[i].out,
                     Part(children, Levels(i), stack'[i].block,
                          Taken(stack'[i]) - 1))
    <3>1. i \in 1..(n - 1) /\ stack'[i] = stack[i]
      BY <1>2, <1>7
    <3>2. Whole(children, warnings, stack[i].out,
                Part(children, Levels(i), stack[i].block, Taken(stack[i]) - 1))
      BY <3>1 DEF Inv, CallersHave, n
    <3>3. Whole(children, warnings', stack[i].out,
                Part(children, Levels(i), stack[i].block, Taken(stack[i]) - 1))
      BY <3>2, WholeWarned
    <3> QED
      BY <3>1, <3>3
  <2> QED
    BY <1>7, <1>8, <2>1 DEF CallersHave
<1>16. TopHas'
  <2>1. IF truncated
        THEN CutOff(warnings', maxBlocks, g.out,
                    Preorder(children)[Levels(m)][g.block])
        ELSE Whole(children, warnings', g.out,
                   Part(children, Levels(m), g.block, Taken(g)))
    BY <1>6, <1>10 DEF f
  <2> QED
    BY <1>7, <1>8, <1>12, <2>1 DEF TopHas
<1>17. AnswerHas'
  BY <1>1 DEF AnswerHas
<1>18. Counted'
  <2> SUFFICES ASSUME warnings' = {}
               PROVE  \E before : Counts(before, Len(stack))'
    BY <1>1 DEF Counted
  <2>1. warnings = {} /\ stack # <<>> /\ out = top.out
    BY DEF Running
  <2>2. PICK before : Counts(before, n)
    BY <2>1 DEF Inv, Counted, n
  <2>3. /\ before \in [1..n -> Nat] /\ before[1] = 0
        /\ \A i \in 1..(n - 1) :
              before[i + 1] = before[i] + Len(stack[i].out) + 1
        /\ seen = before[n] + Len(top.out)
    BY <1>1, <2>2 DEF Counts
  <2> DEFINE after == [i \in 1..m |-> before[i]]
  <2>4. /\ after \in [1..m -> Nat] /\ after[1] = 0
        /\ \A i \in 1..m : after[i] = before[i]
    BY <1>2, <2>3
  <2> HIDE DEF after
  <2>5. ASSUME NEW i \in 1..(m - 1)
        PROVE  after[i + 1] = after[i] + Len(stack'[i].out) + 1
    <3>1. i \in 1..(n - 1) /\ i \in 1..m /\ i + 1 \in 1..m
      BY <1>2
    <3> QED
      BY <1>7, <2>3, <2>4, <3>1
  <2>6. seen = after[m] + Len(o)
    <3>1. before[m] \in Nat /\ after[m] = before[m]
      BY <1>2, <2>3, <2>4
    <3>2. before[n] = before[m] + Len(f.out) + 1
      BY <1>2, <2>3 DEF f
    <3>3. Len(f.out) \in Nat /\ Len(top.out) \in Nat
      BY <1>3, <1>4, LenProperties
    <3>4. seen = before[m] + Len(f.out) + 1 + Len(top.out)
      BY <2>3, <3>1, <3>2, <3>3
    <3>5. o = Joined(f.out, top.block, top.out)
      BY <2>1 DEF f
    <3>6. seen = before[m] + Len(Joined(f.out, top.block, top.out))
      <4>1. Len(Joined(f.out, top.block, top.out)) =
                  Len(f.out) + 1 + Len(top.out)
        BY <1>3, <1>4, JoinedLen
      <4>2. before[m] + Len(f.out) + 1 + Len(top.out) =
               before[m] + (Len(f.out) + 1 + Len(top.out))
        BY <3>1, <3>3, SumOfThree
      <4> QED
        BY <3>4, <4>1, <4>2, Zenon
    <3> QED
      BY <3>1, <3>5, <3>6
  <2> QED
    BY <1>6, <1>7, <2>4, <2>5, <2>6 DEF Counts
<1> QED
  BY <1>11, <1>13, <1>14, <1>15, <1>16, <1>17, <1>18 DEF Inv

\* How the lists of the two innermost frames fit together.
LEMMA CallFacts ==
    ASSUME Inv, Running, NEW m \in Nat, Len(stack) = m + 1, m >= 1
    PROVE  LET all == Preorder(children)[Levels(m)][stack[m].block]
               part == Part(children, Levels(m), stack[m].block,
                            Taken(stack[m]))
           IN  /\ stack[m].out \in Seq(Blocks) /\ top.out \in Seq(Blocks)
               /\ top.block \in Blocks
               /\ all \in Seq(Blocks) /\ part \in Seq(Blocks)
               /\ IsPrefix(part, all)
               /\ \E u \in Seq(Blocks), v \in Seq(Blocks) :
                     /\ v = Preorder(children)[Levels(m + 1)][top.block]
                     /\ part = Joined(u, top.block, v)
                     /\ Whole(children, warnings, stack[m].out, u)
<1> DEFINE n == Len(stack)
           f == stack[m]
           b == f.block
           l == Levels(m)
           k == Taken(f)
           u == Part(children, l, b, k - 1)
           v == Preorder(children)[l - 1][top.block]
<1>1. /\ children \in Trees /\ top = stack[n] /\ l \in 1..MaxLevels
      /\ f \in Frames /\ top \in Frames /\ top.block \in Blocks
      /\ FrameOK(children, truncated, seen, f)
  <2>1. /\ children \in Trees /\ top = stack[n]
        /\ \A i \in 1..n : /\ stack[i] \in Frames /\ Levels(i) \in 1..MaxLevels
                           /\ FrameOK(children, truncated, seen, stack[i])
        /\ \A i \in 2..n : stack[i].block \in Blocks
    BY ReadFacts
  <2>2. m \in 1..n /\ n \in 1..n /\ n \in 2..n
    OBVIOUS
  <2> QED
    BY <2>1, <2>2
<1>2. b \in Nodes /\ f.out \in Seq(Blocks) /\ top.out \in Seq(Blocks)
  BY <1>1, FrameFields
<1>3. k >= 1 /\ top.block = children[b][k]
  <2>1. m \in 1..(Len(stack) - 1)
    OBVIOUS
  <2>2. Calls(children, stack[m], stack[m + 1])
    BY <2>1 DEF Inv, Shape
  <2> QED
    BY <1>1, <2>2 DEF Calls
<1>4. k \in 1..Len(children[b]) /\ k \in 0..Len(children[b])
  <2>1. k \in 0..Len(children[b]) /\ Len(children[b]) \in Nat
    BY <1>1, FrameTaken
  <2> HIDE DEF k
  <2> QED
    BY <1>3, <2>1
<1>5. Whole(children, warnings, f.out, u)
  <2>1. m \in 1..(Len(stack) - 1)
    OBVIOUS
  <2> QED
    BY <2>1 DEF Inv, CallersHave
<1>6. v = Preorder(children)[Levels(m + 1)][top.block]
  <2>1. maxDepth \in Nat
    BY LimitsAssumption DEF Inv, TypeOK
  <2>2. l - 1 = Levels(m + 1)
    BY <2>1 DEF Levels
  <2> HIDE DEF l
  <2> QED
    BY <2>2
<1> HIDE DEF l, k, b
<1>7. /\ Preorder(children)[l][b] \in Seq(Blocks)
      /\ Part(children, l, b, k) \in Seq(Blocks)
      /\ IsPrefix(Part(children, l, b, k), Preorder(children)[l][b])
  BY <1>1, <1>2, <1>4, PartIsPrefix, PartEquations
<1>8. /\ u \in Seq(Blocks) /\ v \in Seq(Blocks)
      /\ Part(children, l, b, k) = Joined(u, top.block, v)
  <2>1. /\ Part(children, l, b, k - 1) \in Seq(Blocks)
        /\ Preorder(children)[l - 1][children[b][k]] \in Seq(Blocks)
        /\ Part(children, l, b, k) =
              Joined(Part(children, l, b, k - 1), children[b][k],
                     Preorder(children)[l - 1][children[b][k]])
    BY <1>1, <1>2, <1>4, PartNext
  <2> QED
    BY <1>3, <2>1
<1> HIDE DEF u, v
<1> QED
  BY <1>1, <1>2, <1>5, <1>6, <1>7, <1>8 DEF l, k, b

\* What the innermost list is when it ends.
LEMMA ListEnds ==
    ASSUME Inv, Running, top.page = <<>>, ~top.more
    PROVE  LET want == Preorder(children)[Levels(Len(stack))][top.block]
           IN  /\ top.out \in Seq(Blocks) /\ want \in Seq(Blocks)
               /\ IF truncated
                  THEN CutOff(warnings, maxBlocks, top.out, want)
                  ELSE Whole(children, warnings, top.out, want)
<1> DEFINE n == Len(stack)
           l == Levels(n)
           b == top.block
           want == Preorder(children)[l][b]
<1>1. /\ children \in Trees /\ l \in 1..MaxLevels /\ top \in Frames
      /\ FrameOK(children, truncated, seen, top)
  BY TopFacts
<1>2. b \in Nodes /\ top.out \in Seq(Blocks) /\ top.from \in Nat
  BY <1>1, FrameFields
<1>3. want \in Seq(Blocks)
  BY <1>1, <1>2, PartEquations
<1>4. CASE truncated
  BY <1>2, <1>3, <1>4 DEF Inv, TopHas, Running
<1>5. CASE ~truncated
  <2>1. Taken(top) = top.from - 1 /\ Len(children[b]) \in Nat
    BY <1>1, FrameTaken
  <2>2. top.from = Len(children[b]) + 1
    BY <1>1, <1>5 DEF FrameOK
  <2>3. Taken(top) = Len(children[b])
    BY <2>1, <2>2
  <2>4. Part(children, l, b, Taken(top)) = want
    <3>1. Part(children, l, b, Len(children[b])) = want
      <4> HIDE DEF l, b
      <4> QED
        BY <1>1, <1>2, PartEquations
    <3> QED
      BY <2>3, <3>1
  <2>5. Whole(children, warnings, top.out, Part(children, l, b, Taken(top)))
    BY <1>5 DEF Inv, TopHas, Running
  <2> QED
    BY <1>2, <1>3, <1>5, <2>4, <2>5
<1> QED
  BY <1>4, <1>5

LEMMA HasCaller ==
    ASSUME Inv, Running, depth # 0
    PROVE  \E m \in Nat : Len(stack) = m + 1 /\ m >= 1
<1> PICK n \in Nat : n = Len(stack) /\ n >= 1
  BY ReadFacts
<1>1. n # 1
  BY DEF depth
<1>2. n - 1 \in Nat /\ n = (n - 1) + 1 /\ n - 1 >= 1
  BY <1>1
<1> QED
  BY <1>2

\* The list of a call is complete, or ends at the limit.
LEMMA ReturnKeeps ==
    ASSUME Inv, ReturnList, depth # 0
    PROVE  Inv'
<1>1. /\ Running /\ top.page = <<>> /\ ~top.more
      /\ PopWith(top.out)
      /\ UNCHANGED <<limits, seen, truncated, warnings, result, answer>>
      /\ warnings \subseteq Blocks
  BY DEF ReturnList, Inv, TypeOK
<1> PICK m \in Nat : Len(stack) = m + 1 /\ m >= 1
  BY <1>1, HasCaller
<1> DEFINE all == Preorder(children)[Levels(m)][stack[m].block]
           part == Part(children, Levels(m), stack[m].block, Taken(stack[m]))
           s == stack[m].out
           t == top.out
           b == top.block
           o == Joined(s, b, t)
<1>2. /\ s \in Seq(Blocks) /\ t \in Seq(Blocks) /\ b \in Blocks
      /\ all \in Seq(Blocks) /\ part \in Seq(Blocks) /\ IsPrefix(part, all)
      /\ \E u \in Seq(Blocks), v \in Seq(Blocks) :
            /\ v = Preorder(children)[Levels(m + 1)][b]
            /\ part = Joined(u, b, v)
            /\ Whole(children, warnings, s, u)
  BY <1>1, CallFacts
<1>3. PICK u \in Seq(Blocks), v \in Seq(Blocks) :
            /\ v = Preorder(children)[Levels(m + 1)][b]
            /\ part = Joined(u, b, v)
            /\ Whole(children, warnings, s, u)
  BY <1>2
<1>4. IF truncated THEN CutOff(warnings, maxBlocks, t, v)
      ELSE Whole(children, warnings, t, v)
  BY <1>1, <1>3, ListEnds
<1> HIDE DEF all, part, s, t, b
<1>5. o \in Seq(Blocks)
  BY <1>2, JoinedLen
<1>6. IF truncated THEN CutOff(warnings, maxBlocks, o, all)
      ELSE Whole(children, warnings, o, part)
  <2>1. CASE truncated
    <3>1. CutOff(warnings, maxBlocks, t, v)
      BY <1>4, <2>1
    <3>2. CutOff(warnings, maxBlocks, o, Joined(u, b, v))
      BY <1>2, <1>3, <3>1, CutJoin
    <3>3. CutOff(warnings, maxBlocks, o, part)
      BY <1>3, <3>2
    <3> HIDE DEF o
    <3>4. CutOff(warnings, maxBlocks, o, all)
      BY <1>2, <1>5, <3>3, CutLonger
    <3> QED
      BY <2>1, <3>4
  <2>2. CASE ~truncated
    <3>1. Whole(children, warnings, t, v)
      BY <1>4, <2>2
    <3>2. Whole(children, warnings, o, Joined(u, b, v))
      BY <1>2, <1>3, <3>1, WholeJoin
    <3> QED
      BY <1>3, <2>2, <3>2
  <2> QED
    BY <2>1, <2>2
<1>7. o = Joined(stack[m].out, top.block, top.out)
  BY DEF s, t, b
<1> HIDE DEF o
<1>8. IF truncated
      THEN CutOff(warnings', maxBlocks, o,
                  Preorder(children)[Levels(m)][stack[m].block])
      ELSE Whole(children, warnings', o,
                 Part(children, Levels(m), stack[m].block, Taken(stack[m])))
  BY <1>1, <1>6 DEF all, part
<1>9. /\ warnings \subseteq warnings' /\ warnings' \subseteq Blocks
      /\ top.out \in Seq(Blocks)
  BY <1>1, <1>2 DEF t
<1> QED
  BY <1>1, <1>7, <1>8, <1>9, PopKeeps

\* The list of a call is given up, with a warning.
LEMMA FailKeeps ==
    ASSUME Inv, PageFails, depth # 0
    PROVE  Inv'
<1> DEFINE e == <<>>
<1>1. /\ Running /\ ~Full /\ PopWith(e)
      /\ warnings' = warnings \cup {top.block}
      /\ UNCHANGED <<limits, seen, truncated, result, answer>>
      /\ warnings \subseteq Blocks
  BY DEF PageFails, Inv, TypeOK
<1>2. e \in Seq(Blocks)
  BY EmptySeq
<1>3. ~truncated
  <2>1. seen \in Nat /\ maxBlocks \in Nat
    BY LimitsAssumption DEF Inv, TypeOK
  <2> QED
    BY <1>1, <2>1 DEF Inv, Phases, Full
<1> PICK m \in Nat : Len(stack) = m + 1 /\ m >= 1
  BY <1>1, HasCaller
<1> DEFINE part == Part(children, Levels(m), stack[m].block, Taken(stack[m]))
           s == stack[m].out
           b == top.block
           o == Joined(s, b, e)
<1>4. /\ s \in Seq(Blocks) /\ b \in Blocks
      /\ \E u \in Seq(Blocks), v \in Seq(Blocks) :
            /\ v = Preorder(children)[Levels(m + 1)][b]
            /\ part = Joined(u, b, v)
            /\ Whole(children, warnings, s, u)
  BY <1>1, CallFacts
<1>5. PICK u \in Seq(Blocks), v \in Seq(Blocks) :
            /\ v = Preorder(children)[Levels(m + 1)][b]
            /\ part = Joined(u, b, v)
            /\ Whole(children, warnings, s, u)
  BY <1>4
<1>6. ToSet(v) \subseteq Under(children, b)
  <2>1. /\ children \in Trees
        /\ \A i \in 1..Len(stack) : Levels(i) \in 1..MaxLevels
    <3>1. Running
      BY <1>1
    <3> QED
      BY <3>1, ReadFacts
  <2>2. m + 1 \in 1..Len(stack)
    OBVIOUS
  <2>3. Levels(m + 1) \in 0..MaxLevels
    BY <2>1, <2>2
  <2>4. b \in Nodes
    BY <1>4 DEF Nodes
  <2> HIDE DEF b
  <2>5. ToSet(Preorder(children)[Levels(m + 1)][b]) \subseteq Under(children, b)
    BY <2>1, <2>3, <2>4, ListedIsUnder
  <2> QED
    BY <1>5, <2>5
<1> HIDE DEF part, s, b
<1>7. Whole(children, warnings \cup {b}, o, part)
  <2>1. Whole(children, warnings \cup {b}, o, Joined(u, b, v))
    BY <1>4, <1>5, <1>6, WholeFails
  <2> QED
    BY <1>5, <2>1
<1>8. o = Joined(stack[m].out, top.block, e)
  BY DEF s, b
<1> HIDE DEF o, e
<1>9. IF truncated
      THEN CutOff(warnings', maxBlocks, o,
                  Preorder(children)[Levels(m)][stack[m].block])
      ELSE Whole(children, warnings', o,
                 Part(children, Levels(m), stack[m].block, Taken(stack[m])))
  BY <1>1, <1>3, <1>7 DEF part, b
<1>10. /\ warnings \subseteq warnings' /\ warnings' \subseteq Blocks
       /\ warnings' # {}
  BY <1>1, <1>4 DEF b
<1> QED
  BY <1>1, <1>2, <1>8, <1>9, <1>10, PopKeeps

-----------------------------------------------------------------------------
\* The first and the last steps of a read.
LEMMA NoFrames ==
    ASSUME NEW s, s = <<>>
    PROVE  /\ s \in Seq(Frames) /\ Len(s) = 0
           /\ 1..Len(s) = {} /\ 1..(Len(s) - 1) = {}
<1>1. s \in Seq(Frames) /\ Len(s) = 0
  BY EmptySeq
<1>2. 1..0 = {} /\ 1..(0 - 1) = {}
  OBVIOUS
<1> QED
  BY <1>1, <1>2

\* Init keeps the configured limits: zero and less stand for them.
LEMMA ClampType ==
    ASSUME NEW asked \in Int, NEW limit \in Nat
    PROVE  Clamp(asked, limit) \in 0..limit
BY DEF Clamp

LEMMA InitHas ==
    ASSUME Init
    PROVE  Inv
<1>1. /\ children \in Trees /\ stack = <<>> /\ seen = 0 /\ truncated = FALSE
      /\ warnings = {} /\ result = <<>> /\ answer = "none"
  BY DEF Init
<1>2. /\ stack \in Seq(Frames) /\ Len(stack) = 0
      /\ 1..Len(stack) = {} /\ 1..(Len(stack) - 1) = {}
  BY <1>1, NoFrames
<1>3. maxBlocks \in 0..DocMaxBlocks
  <2>1. PICK asked \in AskedBlocks : maxBlocks = Clamp(asked, DocMaxBlocks)
    BY DEF Init
  <2> QED
    BY <2>1, ClampType, LimitsAssumption
<1>4. maxDepth \in 0..DocMaxDepth
  <2>1. PICK asked \in AskedDepths : maxDepth = Clamp(asked, DocMaxDepth)
    BY DEF Init
  <2> QED
    BY <2>1, ClampType, LimitsAssumption
<1>5. TypeOK
  <2>1. result \in Seq(Blocks)
    BY <1>1, EmptySeq
  <2>2. Len(stack) <= maxDepth + 1 /\ seen \in 0..maxBlocks
    BY <1>1, <1>2, <1>3, <1>4, LimitsAssumption
  <2> QED
    BY <1>1, <1>2, <1>3, <1>4, <2>1, <2>2 DEF TypeOK
<1>6. Shape /\ CallersHave
  BY <1>1, <1>2 DEF Shape, CallersHave
<1>7. Phases /\ TopHas /\ AnswerHas /\ Counted
  BY <1>1 DEF Phases, TopHas, AnswerHas, Counted
<1> QED
  BY <1>5, <1>6, <1>7 DEF Inv

LEMMA BeginStarts ==
    ASSUME Inv, answer = "none", stack = <<>>, stack' = <<Frame(Root)>>,
           UNCHANGED <<limits, seen, truncated, warnings, result, answer>>
    PROVE  Inv'
<1> DEFINE f == Frame(Root)
<1>1. seen = 0 /\ ~truncated /\ warnings = {}
  BY DEF Inv, Phases
<1>2. children \in Trees /\ maxDepth \in Nat /\ Root \in Nodes
  BY LimitsAssumption DEF Inv, TypeOK, Nodes
<1>3. /\ f \in Frames /\ f.block = Root /\ f.out = <<>> /\ Taken(f) = 0
      /\ FrameOK(children, truncated, seen, f)
  BY <1>1, <1>2, FrameStarts
<1> HIDE DEF f
<1>4. stack' \in Seq(Frames) /\ Len(stack') = 1 /\ stack'[1] = f
  <2>1. stack' = <<f>>
    BY DEF f
  <2> QED
    BY <1>3, <2>1
<1>5. /\ UNCHANGED <<children, maxBlocks, maxDepth>>
      /\ \A i : Levels(i)' = Levels(i)
  BY DEF limits, Levels
<1>6. top' = f /\ stack' # <<>>
  <2>1. Len(<<>>) = 0
    BY EmptySeq
  <2> QED
    BY <1>4, <2>1 DEF top, Last
<1>7. TypeOK'
  <2>1. Len(stack') <= maxDepth + 1
    BY <1>2, <1>4
  <2> QED
    BY <1>4, <1>5, <2>1 DEF Inv, TypeOK
<1>8. \A i \in 1..1 : i = 1
  OBVIOUS
<1>9. 1..(1 - 1) = {}
  OBVIOUS
<1>10. Shape' /\ CallersHave'
  BY <1>3, <1>4, <1>5, <1>8, <1>9 DEF Shape, CallersHave
<1>11. Phases' /\ AnswerHas'
  BY <1>1, <1>5, <1>6 DEF Phases, AnswerHas
<1>12. TopHas'
  <2>1. Levels(1) \in 1..MaxLevels
    BY <1>2, LimitsAssumption DEF Levels, MaxLevels, Inv, TypeOK
  <2>2. Part(children, Levels(1), Root, 0) = <<>>
    BY <1>2, <2>1, PartEquations
  <2>3. Whole(children, warnings, f.out,
              Part(children, Levels(1), f.block, Taken(f)))
    BY <1>3, <2>2, WholeNone
  <2> QED
    BY <1>1, <1>4, <1>5, <1>6, <2>3 DEF TopHas
<1>13. Counted'
  <2> DEFINE before == [i \in 1..1 |-> 0]
  <2>1. before \in [1..1 -> Nat] /\ before[1] = 0
    OBVIOUS
  <2> HIDE DEF before
  <2>2. Len(stack'[1].out) = 0
    BY <1>3, <1>4, EmptySeq
  <2>3. seen' = before[1] + Len(stack'[1].out)
    BY <1>1, <2>1, <2>2
  <2>4. \E b : Counts(b, Len(stack))'
    BY <1>4, <1>9, <2>1, <2>3 DEF Counts
  <2> QED
    BY <2>4 DEF Counted
<1> QED
  BY <1>7, <1>10, <1>11, <1>12, <1>13 DEF Inv

LEMMA EndKeeps ==
    ASSUME Inv, stack' = <<>>, UNCHANGED <<limits, seen, truncated, warnings>>,
           answer' \in {"ok", "error"}, result' \in Seq(Blocks), AnswerHas',
           warnings = {} /\ answer' = "ok" => Len(result') = seen
    PROVE  Inv'
<1>1. /\ stack' \in Seq(Frames) /\ Len(stack') = 0
      /\ 1..Len(stack') = {} /\ 1..(Len(stack') - 1) = {}
  BY NoFrames
<1>2. UNCHANGED <<children, maxBlocks, maxDepth>>
  BY DEF limits
<1>3. TypeOK'
  <2>1. Len(stack') <= maxDepth + 1
    BY <1>1, LimitsAssumption DEF Inv, TypeOK
  <2> QED
    BY <1>1, <1>2, <2>1 DEF Inv, TypeOK
<1>4. Shape' /\ CallersHave'
  BY <1>1 DEF Shape, CallersHave
<1>5. Phases' /\ TopHas' /\ Counted'
  BY <1>2 DEF Inv, Phases, TopHas, Counted
<1> QED
  BY <1>3, <1>4, <1>5 DEF Inv

LEMMA ReturnEnds ==
    ASSUME Inv, ReturnList, depth = 0
    PROVE  Inv'
<1>1. /\ Running /\ top.page = <<>> /\ ~top.more
      /\ stack' = <<>> /\ result' = top.out /\ answer' = "ok"
      /\ UNCHANGED <<limits, seen, truncated, warnings>>
  BY DEF ReturnList
<1>2. Len(stack) = 1 /\ top = stack[1]
  <2>1. Len(stack) \in Nat /\ top = stack[Len(stack)]
    <3>1. Running
      BY <1>1
    <3> QED
      BY <3>1, ReadFacts
  <2>2. Len(stack) = 1
    BY <2>1 DEF depth
  <2> QED
    BY <2>1, <2>2
<1>3. top.block = Root
  BY <1>1, <1>2 DEF Inv, Shape, Running
<1>4. DocumentOrder = Preorder(children)[Levels(1)][Root]
  <2>1. Levels(1) = maxDepth + 1
    BY LimitsAssumption DEF Inv, TypeOK, Levels
  <2> QED
    BY <2>1 DEF DocumentOrder
<1>5. UNCHANGED <<children, maxBlocks, maxDepth>>
  BY <1>1 DEF limits
<1>6. DocumentOrder' = DocumentOrder
  BY <1>5 DEF DocumentOrder
<1>7. /\ top.out \in Seq(Blocks)
      /\ IF truncated
         THEN CutOff(warnings, maxBlocks, top.out, DocumentOrder)
         ELSE Whole(children, warnings, top.out, DocumentOrder)
  BY <1>1, <1>2, <1>3, <1>4, ListEnds
<1>8. AnswerHas'
  BY <1>1, <1>5, <1>6, <1>7 DEF AnswerHas
<1>9. ASSUME warnings = {} PROVE Len(result') = seen
  <2>1. PICK before : Counts(before, 1)
    BY <1>1, <1>2, <1>9 DEF Inv, Counted, Running
  <2>2. before[1] = 0 /\ seen = before[1] + Len(top.out)
    BY <1>2, <2>1 DEF Counts
  <2>3. Len(top.out) \in Nat
    BY <1>7, LenProperties
  <2> QED
    BY <1>1, <2>2, <2>3
<1> QED
  BY <1>1, <1>7, <1>8, <1>9, EndKeeps

LEMMA StutterKeeps ==
    ASSUME Inv, UNCHANGED vars
    PROVE  Inv'
<1>1. /\ UNCHANGED <<children, maxBlocks, maxDepth, stack, seen>>
      /\ UNCHANGED <<truncated, warnings, result, answer>>
  BY DEF vars, limits
<1>2. TypeOK' /\ Shape' /\ Phases'
  BY <1>1 DEF Inv, TypeOK, Shape, Phases
<1>3. top' = top /\ DocumentOrder' = DocumentOrder
      /\ \A i : Levels(i)' = Levels(i)
  BY <1>1 DEF top, DocumentOrder, Levels
<1>4. CallersHave' /\ TopHas' /\ AnswerHas'
  BY <1>1, <1>3 DEF Inv, CallersHave, TopHas, AnswerHas
<1>5. Counted'
  BY <1>1 DEF Inv, Counted, Counts
<1> QED
  BY <1>2, <1>4, <1>5 DEF Inv

LEMMA StepKeeps ==
    ASSUME Inv, [Next]_vars
    PROVE  Inv'
<1>1. result \in Seq(Blocks)
  BY DEF Inv, TypeOK
<1>2. CASE Begin
  <2>1. CASE stack' = <<Frame(Root)>> /\ UNCHANGED answer
    BY <1>2, <2>1, BeginStarts DEF Begin
  <2>2. CASE answer' = "error" /\ UNCHANGED stack
    <3>1. AnswerHas'
      BY <2>2 DEF AnswerHas
    <3> QED
      BY <1>1, <1>2, <2>2, <3>1, EndKeeps DEF Begin
  <2> QED
    BY <1>2, <2>1, <2>2 DEF Begin
<1>3. CASE Truncate
  BY <1>3, TruncateKeeps
<1>4. CASE TakeBlock
  BY <1>4, TakeBlockKeeps
<1>5. CASE Descend
  BY <1>5, DescendKeeps
<1>6. CASE ReturnList
  BY <1>6, ReturnEnds, ReturnKeeps
<1>7. CASE PageFails
  <2>1. CASE depth = 0
    <3>1. /\ stack' = <<>> /\ answer' = "error"
          /\ UNCHANGED <<limits, seen, truncated, warnings, result>>
      BY <1>7, <2>1 DEF PageFails
    <3>2. AnswerHas'
      BY <3>1 DEF AnswerHas
    <3> QED
      BY <1>1, <3>1, <3>2, EndKeeps
  <2>2. CASE depth # 0
    BY <1>7, <2>2, FailKeeps
  <2> QED
    BY <2>1, <2>2
<1>8. ASSUME NEW n \in 0..PageSize, Page(n) PROVE Inv'
  BY <1>8, PageKeeps
<1>9. CASE UNCHANGED vars
  BY <1>9, StutterKeeps
<1> QED
  BY <1>2, <1>3, <1>4, <1>5, <1>6, <1>7, <1>8, <1>9 DEF Next, Step, Ended

\* What the frames and the answer have is the part of the document that the
\* read has come to, at every step.
THEOREM InvHolds == Spec => []Inv
<1>1. Init => Inv
  BY InitHas
<1>2. Inv /\ [Next]_vars => Inv'
  BY StepKeeps
<1> QED
  BY <1>1, <1>2, PTL DEF Spec

\* The state of a read keeps its types, and the calls of readChildren are
\* never more than maxDepth deep (lines 256-305).
THEOREM TypeCorrect == Spec => []TypeOK
<1>1. Inv => TypeOK
  BY DEF Inv
<1> QED
  BY <1>1, InvHolds, PTL

-----------------------------------------------------------------------------
\* What the answer is.
LEMMA OrderType ==
    ASSUME Inv
    PROVE  DocumentOrder \in Seq(Blocks) /\ Len(DocumentOrder) \in Nat
<1>1. /\ children \in Trees /\ Root \in Nodes
      /\ maxDepth + 1 \in 0..MaxLevels
  BY LimitsAssumption DEF Inv, TypeOK, Nodes, MaxLevels
<1>2. Preorder(children)[maxDepth + 1] \in Lists
  BY <1>1, PreorderEquations
<1>3. Preorder(children)[maxDepth + 1][Root] \in Seq(Blocks)
  BY <1>1, <1>2 DEF Lists
<1>4. DocumentOrder \in Seq(Blocks)
  BY <1>3 DEF DocumentOrder
<1> QED
  BY <1>4, LenProperties

LEMMA MinOfTwo ==
    ASSUME NEW a \in Nat, NEW b \in Nat
    PROVE  /\ a <= b => Min({a, b}) = a
           /\ b <= a => Min({a, b}) = b
BY DEF Min

\* An answer without warnings is the document in order, cut exactly where the
\* block limit is, for every document, every paging, every limit.
THEOREM ReadCutsAtTheLimit == Spec => []CutAtTheLimit
<1>1. ASSUME Inv PROVE CutAtTheLimit
  <2> DEFINE want == DocumentOrder
  <2>1. /\ want \in Seq(Blocks) /\ Len(want) \in Nat
        /\ maxBlocks \in Nat /\ seen \in Nat /\ seen <= maxBlocks
    BY <1>1, OrderType, LimitsAssumption DEF Inv, TypeOK
  <2> HIDE DEF want
  <2> SUFFICES ASSUME answer = "ok", warnings = {}
               PROVE  /\ IsPrefix(result, want)
                      /\ Len(result) = Min({maxBlocks, Len(want)})
    BY DEF CutAtTheLimit, want
  <2>2. Len(result) = seen
    BY <1>1 DEF Inv, Counted
  <2>3. CASE truncated
    <3>1. CutOff(warnings, maxBlocks, result, want)
      BY <1>1, <2>3 DEF Inv, AnswerHas, want
    <3>2. IsPrefix(result, want) /\ Len(result) <= Len(want)
      BY <3>1 DEF CutOff
    <3>3. seen = maxBlocks
      BY <1>1, <2>3 DEF Inv, Phases
    <3> QED
      BY <2>1, <2>2, <3>2, <3>3, MinOfTwo
  <2>4. CASE ~truncated
    <3>1. Whole(children, warnings, result, want)
      BY <1>1, <2>4 DEF Inv, AnswerHas, want
    <3>2. result = want
      BY <3>1 DEF Whole
    <3>3. IsPrefix(result, want)
      BY <2>1, <3>2, PrefixElements
    <3> QED
      BY <2>1, <2>2, <3>2, <3>3, MinOfTwo
  <2> QED
    BY <2>3, <2>4
<1> QED
  BY <1>1, InvHolds, PTL

\* No block is missing from an answer without a reason in the answer: the
\* block limit, or a warning about a block above it.
THEOREM MissingHasAReason == Spec => []MissingIsExplained
<1>1. ASSUME Inv PROVE MissingIsExplained
  <2> SUFFICES ASSUME answer = "ok", ~truncated
               PROVE  \A b \in ToSet(DocumentOrder) \ ToSet(result) :
                         \E w \in warnings : b \in Under(children, w)
    BY DEF MissingIsExplained
  <2>1. Whole(children, warnings, result, DocumentOrder)
    BY <1>1 DEF Inv, AnswerHas
  <2> QED
    BY <2>1 DEF Whole
<1> QED
  BY <1>1, InvHolds, PTL

\* An answer says truncated only when the limit was used up and blocks are
\* missing, or when the configured limit is zero.
THEOREM TruncatedHasACause == Spec => []TruncatedIsTrue
<1>1. ASSUME Inv PROVE TruncatedIsTrue
  <2> SUFFICES ASSUME answer = "ok", truncated
               PROVE  /\ seen = maxBlocks
                      /\ Len(result) < Len(DocumentOrder) \/ maxBlocks = 0
    BY DEF TruncatedIsTrue
  <2>1. CutOff(warnings, maxBlocks, result, DocumentOrder)
    BY <1>1 DEF Inv, AnswerHas
  <2> QED
    BY <1>1, <2>1 DEF Inv, Phases, CutOff
<1> QED
  BY <1>1, InvHolds, PTL

-----------------------------------------------------------------------------
(***************************************************************************)
(* Every step of a read lowers StepsLeft.  A block that is met takes five  *)
(* off, which pays for the three of the list that may be opened for it     *)
(* and for the page its own list goes on with; a page that is asked for,   *)
(* a list that is cut and a list that ends are paid by the list.           *)
(***************************************************************************)
Advances == StepsLeft' \in 0..(StepsLeft - 1)

LEMMA PageLeftIs ==
    ASSUME NEW f PROVE PageLeft(f) \in 1..3
BY DEF PageLeft

\* What is left while the walk is on.
LEMMA LeftWhileRunning ==
    ASSUME Inv, Running
    PROVE  /\ StepsLeft = 5 * (maxBlocks - seen) + 3 * Len(stack) + PageLeft(top)
           /\ StepsLeft \in Nat \ {0}
           /\ Len(stack) \in Nat /\ Len(stack) >= 1
           /\ maxBlocks \in Nat /\ seen \in Nat /\ seen <= maxBlocks
<1>1. Len(stack) \in Nat /\ Len(stack) >= 1
  BY TopFacts
<1>2. maxBlocks \in Nat /\ seen \in Nat /\ seen <= maxBlocks
  BY LimitsAssumption DEF Inv, TypeOK
<1>3. StepsLeft = 5 * (maxBlocks - seen) + 3 * Len(stack) + PageLeft(top)
  BY DEF StepsLeft, Running
<1> QED
  BY <1>1, <1>2, <1>3, PageLeftIs

LEMMA EndAdvances ==
    ASSUME Inv, Running, answer' # "none" PROVE Advances
<1>1. StepsLeft \in Nat \ {0}
  BY LeftWhileRunning
<1>2. StepsLeft' = 0
  BY DEF StepsLeft
<1> QED
  BY <1>1, <1>2 DEF Advances

\* The sum that StepsLeft is while the walk is on.
Left(b, s, m, p) == 5 * (b - s) + 3 * m + p

LEMMA LeftLowers ==
    ASSUME NEW b \in Nat, NEW s \in Nat, NEW t \in Nat, s <= b, t <= b,
           NEW m \in Nat, NEW n \in Nat, NEW p \in 1..3, NEW q \in 1..3,
           5 * s + 3 * n + q < 5 * t + 3 * m + p
    PROVE  Left(b, t, n, q) \in 0..(Left(b, s, m, p) - 1)
BY DEF Left

LEMMA WalkAdvances ==
    ASSUME Inv, Inv', Running, Running', UNCHANGED limits,
           NEW s \in Nat, s = seen, NEW t \in Nat, t = seen',
           NEW m \in Nat, m = Len(stack), NEW n \in Nat, n = Len(stack'),
           NEW p \in 1..3, p = PageLeft(top),
           NEW q \in 1..3, q = PageLeft(top)',
           5 * s + 3 * n + q < 5 * t + 3 * m + p
    PROVE  Advances
<1>1. /\ StepsLeft = 5 * (maxBlocks - seen) + 3 * Len(stack) + PageLeft(top)
      /\ maxBlocks \in Nat /\ seen <= maxBlocks
  BY LeftWhileRunning
<1>2. (Inv /\ Running =>
        /\ StepsLeft = 5 * (maxBlocks - seen) + 3 * Len(stack) + PageLeft(top)
        /\ seen <= maxBlocks)'
  BY LeftWhileRunning, PTL
<1>3. maxBlocks' = maxBlocks
  BY DEF limits
<1> PICK b \in Nat : b = maxBlocks
  BY <1>1
<1>4. StepsLeft = Left(b, s, m, p) /\ s <= b
  BY <1>1 DEF Left
<1>5. StepsLeft' = Left(b, t, n, q) /\ t <= b
  BY <1>2, <1>3 DEF Left
<1>6. Left(b, t, n, q) \in 0..(Left(b, s, m, p) - 1)
  BY <1>4, <1>5, LeftLowers
<1> QED
  BY <1>4, <1>5, <1>6 DEF Advances

LEMMA LenOfDomain ==
    ASSUME NEW S, NEW s \in Seq(S), NEW n \in Nat, DOMAIN s = 1..n
    PROVE  Len(s) = n
<1>1. DOMAIN s = 1..Len(s) /\ Len(s) \in Nat
  BY LenProperties
<1> QED
  BY <1>1

\* The innermost frame is replaced by another one.
LEMMA BecomeTop ==
    ASSUME Inv, Inv', Running, NEW f, Become(f), UNCHANGED answer
    PROVE  Running' /\ Len(stack') = Len(stack) /\ top' = f
<1> DEFINE n == Len(stack)
<1>1. /\ stack \in Seq(Frames) /\ n \in Nat /\ n >= 1
  BY TopFacts
<1>2. stack' \in Seq(Frames)
  BY DEF Inv, TypeOK
<1>3. DOMAIN stack = 1..n
  BY <1>1, LenProperties
<1>4. stack' = [stack EXCEPT ![n] = f]
  BY DEF Become
<1> HIDE DEF n
<1>5. DOMAIN stack' = 1..n /\ stack'[n] = f
  BY <1>1, <1>3, <1>4
<1>6. Len(stack') = n
  BY <1>1, <1>2, <1>5, LenOfDomain
<1>7. top' = f
  BY <1>5, <1>6 DEF top, Last
<1>8. stack' # <<>>
  BY <1>1, <1>6, EmptySeq
<1> QED
  BY <1>6, <1>7, <1>8 DEF Running, n

\* A list ended, and another one is open around it.
LEMMA PopAdvances ==
    ASSUME Inv, Inv', Running, depth # 0, NEW out, PopWith(out),
           UNCHANGED <<limits, seen, answer>>,
           PageLeft(top) = 1 \/ PageLeft(top) = 3
    PROVE  Advances
<1> DEFINE rest == Front(stack)
<1>1. PICK m \in Nat : Len(stack) = m + 1 /\ m >= 1
  BY HasCaller
<1>2. stack \in Seq(Frames) /\ stack' \in Seq(Frames)
  BY DEF Inv, TypeOK
<1>3. rest \in Seq(Frames) /\ Len(rest) = m
  <2>1. Len(stack) >= 1 /\ Len(stack) - 1 = m
    BY <1>1
  <2> QED
    BY <1>2, <2>1, FrontFacts
<1>4. DOMAIN rest = 1..m
  <2> HIDE DEF rest
  <2> QED
    BY <1>3, LenProperties
<1>5. DOMAIN stack' = DOMAIN rest
  BY DEF PopWith
<1> HIDE DEF rest
<1>6. Len(stack') = m
  BY <1>2, <1>4, <1>5, LenOfDomain
<1>7. Running'
  <2>1. stack' # <<>>
    BY <1>1, <1>6, EmptySeq
  <2> QED
    BY <2>1 DEF Running
<1> PICK s \in Nat : s = seen
  BY LeftWhileRunning
<1> PICK p \in {1, 3} : p = PageLeft(top)
  OBVIOUS
<1> PICK q \in 1..3 : q = PageLeft(top)'
  BY PageLeftIs
<1>8. 5 * s + 3 * m + q < 5 * s + 3 * (m + 1) + p
  BY <1>1
<1>9. m + 1 \in Nat /\ p \in 1..3 /\ s = seen' /\ Len(stack) = m + 1
  BY <1>1
<1> QED
  BY <1>6, <1>7, <1>8, <1>9, WalkAdvances

\* The innermost list goes on, and a block may have been met.
LEMMA ListAdvances ==
    ASSUME Inv, Inv', Running, NEW f, Become(f), UNCHANGED <<limits, answer>>,
           \/ seen' = seen + 1 /\ PageLeft(top) = 2
           \/ seen' = seen /\ PageLeft(f) < PageLeft(top)
    PROVE  Advances
<1>1. Running' /\ Len(stack') = Len(stack) /\ top' = f
  BY BecomeTop
<1> PICK s \in Nat : s = seen
  BY LeftWhileRunning
<1> PICK m \in Nat : m = Len(stack)
  BY LeftWhileRunning
<1> PICK p \in 1..3 : p = PageLeft(top)
  BY PageLeftIs
<1> PICK q \in 1..3 : q = PageLeft(f)
  BY PageLeftIs
<1>2. m = Len(stack') /\ q = PageLeft(top)' /\ UNCHANGED limits
  BY <1>1 DEF PageLeft
<1>3. CASE seen' = s + 1 /\ p = 2
  <2>1. s + 1 \in Nat /\ 5 * s + 3 * m + q < 5 * (s + 1) + 3 * m + p
    BY <1>3
  <2> QED
    BY <1>1, <1>2, <1>3, <2>1, WalkAdvances
<1>4. CASE seen' = s /\ q < p
  <2>1. 5 * s + 3 * m + q < 5 * s + 3 * m + p
    BY <1>4
  <2> QED
    BY <1>1, <1>2, <1>4, <2>1, WalkAdvances
<1> QED
  BY <1>3, <1>4

LEMMA PageAdvances ==
    ASSUME Inv, Inv', NEW count \in 0..PageSize, Page(count) PROVE Advances
<1> DEFINE all == children[top.block]
           to == top.from + count - 1
           f == [top EXCEPT !.from = to + 1,
                            !.page = SubSeq(all, top.from, to),
                            !.more = to < Len(all)]
<1>1. /\ Running /\ top.page = <<>> /\ top.more
      /\ to <= Len(all) /\ (count = 0 => all = <<>>) /\ Become(f)
      /\ UNCHANGED <<limits, seen, answer>>
  BY DEF Page
<1>2. /\ children \in Trees /\ top \in Frames
      /\ FrameOK(children, truncated, seen, top)
  <2>1. Running
    BY <1>1
  <2> QED
    BY <2>1, TopFacts
<1>3. PageLeft(top) = 3
  BY <1>1 DEF PageLeft
<1>4. f.page # <<>> \/ ~f.more
  <2>1. f.page = SubSeq(all, top.from, to) /\ f.more = (to < Len(all))
    BY <1>2 DEF Frames
  <2>2. PICK a \in Nat : a = top.from
    BY <1>2, FrameFields
  <2>3. PICK n \in Nat : n = Len(all)
    BY <1>2, FrameTaken
  <2>4. CASE count = 0
    <3>1. n = 0
      BY <1>1, <2>3, <2>4, EmptySeq
    <3>2. a >= 1
      BY <1>2, <2>2, FrameFields DEF FrameOK
    <3>3. to = a - 1
      BY <2>2, <2>4
    <3>4. ~(to < n)
      BY <3>1, <3>2, <3>3
    <3> HIDE DEF f, to, all
    <3> QED
      BY <2>1, <2>3, <3>4
  <2>5. CASE count # 0
    <3>1. all \in Seq(Blocks)
      <4>1. top.block \in Nodes
        BY <1>2, FrameFields
      <4> QED
        BY <1>2, <4>1, TreeProperties
    <3>2. a >= 1 /\ a <= to /\ to <= n
      BY <1>1, <1>2, <2>2, <2>3, <2>5, FrameFields, LimitsAssumption DEF FrameOK
    <3>3. Len(SubSeq(all, a, to)) # 0
      <4>1. /\ \A i \in a..to : all[i] \in Blocks
            /\ a \in Int /\ to \in Int /\ to - a + 1 = count
        <5>1. \A i \in 1..n : all[i] \in Blocks
          BY <2>3, <3>1, ElementOfSeq
        <5>2. a..to \subseteq 1..n /\ to - a + 1 = count
          BY <2>2, <3>2
        <5> QED
          BY <2>2, <5>1, <5>2
      <4> HIDE DEF to, all
      <4>2. Len(SubSeq(all, a, to)) = IF a <= to THEN to - a + 1 ELSE 0
        BY <4>1, SubSeqProperties
      <4> QED
        BY <2>5, <3>2, <4>1, <4>2
    <3> QED
      BY <2>1, <2>2, <3>3, EmptySeq
  <2> QED
    BY <2>4, <2>5
<1>5. PageLeft(f) < PageLeft(top)
  <2> HIDE DEF f
  <2> QED
    BY <1>3, <1>4 DEF PageLeft
<1> HIDE DEF f
<1> QED
  BY <1>1, <1>5, ListAdvances

LEMMA TruncateAdvances ==
    ASSUME Inv, Inv', Truncate PROVE Advances
<1> DEFINE f == [top EXCEPT !.page = <<>>, !.more = FALSE]
<1>1. /\ Running /\ (top.more \/ top.page # <<>>) /\ Become(f)
      /\ UNCHANGED <<limits, seen, answer>>
  BY DEF Truncate
<1>2. top \in Frames
  <2>1. Running
    BY <1>1
  <2> QED
    BY <2>1, TopFacts
<1>3. f.page = <<>> /\ f.more = FALSE
  BY <1>2 DEF Frames
<1> HIDE DEF f
<1>4. PageLeft(f) = 1 /\ PageLeft(top) \in {2, 3}
  BY <1>1, <1>3 DEF PageLeft
<1> QED
  BY <1>1, <1>4, ListAdvances

LEMMA TakeBlockAdvances ==
    ASSUME Inv, Inv', TakeBlock PROVE Advances
<1> DEFINE f == [top EXCEPT !.page = Tail(@), !.out = Append(@, Head(top.page))]
<1>1. /\ Running /\ top.page # <<>> /\ Become(f) /\ seen' = seen + 1
      /\ UNCHANGED <<limits, answer>>
  BY DEF TakeBlock
<1> HIDE DEF f
<1>2. PageLeft(top) = 2
  BY <1>1 DEF PageLeft
<1> QED
  BY <1>1, <1>2, ListAdvances

\* The list that is opened costs less than the block it is opened for.
LEMMA DescendAdvances ==
    ASSUME Inv, Inv', Descend PROVE Advances
<1>1. /\ Running /\ top.page # <<>> /\ seen' = seen + 1
      /\ UNCHANGED <<limits, answer>>
  BY DEF Descend
<1>2. Len(stack') = Len(stack) + 1
  <2> DEFINE n == Len(stack)
             c == Head(top.page)
             g == [top EXCEPT !.page = Tail(@)]
             mid == [stack EXCEPT ![n] = g]
             h == Frame(c)
  <2>1. /\ stack \in Seq(Frames) /\ n \in Nat /\ n >= 1 /\ top = stack[n]
        /\ top \in Frames /\ children \in Trees
        /\ FrameOK(children, truncated, seen, top)
    BY <1>1, TopFacts
  <2>2. c \in Blocks /\ Tail(top.page) \in Seq(Blocks)
    BY <1>1, <2>1, FrameTaken
  <2>3. g \in Frames
    <3> DEFINE p == Tail(top.page)
    <3>1. g = [top EXCEPT !.page = p] /\ p \in Seq(Blocks)
      BY <2>2
    <3> HIDE DEF p, g
    <3> QED
      BY <2>1, <3>1 DEF Frames
  <2>4. h \in Frames
    <3>1. <<>> \in Seq(Blocks)
      BY EmptySeq
    <3> HIDE DEF c
    <3> QED
      BY <2>2, <3>1 DEF Frame, Frames
  <2>5. stack' = Append(mid, h)
    BY <2>1 DEF Descend
  <2>6. mid \in Seq(Frames) /\ Len(mid) = n
    <3>1. n \in 1..n
      BY <2>1
    <3> HIDE DEF g
    <3> QED
      BY <2>1, <2>3, <3>1, ExceptSeq
  <2> HIDE DEF mid, g, h
  <2>7. Len(Append(mid, h)) = Len(mid) + 1
    BY <2>4, <2>6, AppendProperties
  <2> QED
    BY <2>5, <2>6, <2>7
<1>3. Running'
  <2>1. Len(stack') # 0
    BY <1>1, <1>2, LeftWhileRunning
  <2>2. stack' # <<>>
    BY <2>1, EmptySeq
  <2> QED
    BY <1>1, <2>2 DEF Running
<1> PICK s \in Nat : s = seen
  BY <1>1, LeftWhileRunning
<1> PICK m \in Nat : m = Len(stack)
  BY <1>1, LeftWhileRunning
<1> PICK q \in 1..3 : q = PageLeft(top)'
  BY PageLeftIs
<1>4. PageLeft(top) = 2
  BY <1>1 DEF PageLeft
<1>5. /\ 5 * s + 3 * (m + 1) + q < 5 * (s + 1) + 3 * m + 2
      /\ s + 1 \in Nat /\ m + 1 \in Nat /\ 2 \in 1..3
  OBVIOUS
<1>6. s + 1 = seen' /\ m + 1 = Len(stack')
  BY <1>1, <1>2
<1> QED
  BY <1>1, <1>3, <1>4, <1>5, <1>6, WalkAdvances

\* The first step, and the last ones.
LEMMA BeginAdvances ==
    ASSUME Inv, Inv', Begin PROVE Advances
<1>1. /\ answer = "none" /\ stack = <<>> /\ maxBlocks \in Nat /\ seen = 0
      /\ maxBlocks' = maxBlocks /\ seen' = seen
  BY LimitsAssumption DEF Begin, Inv, TypeOK, Phases, limits
<1>2. StepsLeft = 5 * maxBlocks + 7
  BY <1>1 DEF StepsLeft
<1>3. CASE answer' = "error"
  <2>1. StepsLeft' = 0
    BY <1>3 DEF StepsLeft
  <2> QED
    BY <1>1, <1>2, <2>1 DEF Advances
<1>4. CASE stack' = <<Frame(Root)>> /\ UNCHANGED answer
  <2>1. /\ answer' = "none" /\ stack' # <<>> /\ Len(stack') = 1
    BY <1>1, <1>4
  <2>2. StepsLeft' = 5 * (maxBlocks - 0) + 3 * 1 + PageLeft(top)'
    BY <1>1, <2>1 DEF StepsLeft
  <2> PICK q \in 1..3 : q = PageLeft(top)'
    BY PageLeftIs
  <2> PICK b \in Nat : b = maxBlocks
    BY <1>1
  <2>3. StepsLeft = 5 * b + 7 /\ StepsLeft' = 5 * (b - 0) + 3 * 1 + q
    BY <1>2, <2>2
  <2> QED
    BY <2>3 DEF Advances
<1> QED
  BY <1>3, <1>4 DEF Begin

LEMMA ReturnAdvances ==
    ASSUME Inv, Inv', ReturnList PROVE Advances
<1>1. Running /\ top.page = <<>> /\ ~top.more
  BY DEF ReturnList
<1>2. CASE depth = 0
  BY <1>1, <1>2, EndAdvances DEF ReturnList
<1>3. CASE depth # 0
  <2>1. PopWith(top.out) /\ UNCHANGED <<limits, seen, answer>>
    BY <1>3 DEF ReturnList
  <2>2. PageLeft(top) = 1
    BY <1>1 DEF PageLeft
  <2> QED
    BY <1>1, <1>3, <2>1, <2>2, PopAdvances
<1> QED
  BY <1>2, <1>3

LEMMA FailAdvances ==
    ASSUME Inv, Inv', PageFails PROVE Advances
<1>1. Running /\ top.page = <<>> /\ top.more
  BY DEF PageFails
<1>2. CASE depth = 0
  BY <1>1, <1>2, EndAdvances DEF PageFails
<1>3. CASE depth # 0
  <2>1. PopWith(<<>>) /\ UNCHANGED <<limits, seen, answer>>
    BY <1>3 DEF PageFails
  <2>2. PageLeft(top) = 3
    BY <1>1 DEF PageLeft
  <2> QED
    BY <1>1, <1>3, <2>1, <2>2, PopAdvances
<1> QED
  BY <1>2, <1>3

\* A read is over after 5 * maxBlocks + 7 steps, whatever the document, its
\* paging and the failures: no cycle of pages, lists and limits goes on.
THEOREM ReadIsBounded == Spec => ReadAdvances
<1>1. ASSUME Inv, Inv', Step PROVE Advances
  BY <1>1, BeginAdvances, TruncateAdvances, TakeBlockAdvances,
     DescendAdvances, ReturnAdvances, FailAdvances, PageAdvances DEF Step
<1>2. Inv /\ Inv' /\ [Next]_vars => [StepsLeft' \in 0..(StepsLeft - 1)]_vars
  BY <1>1 DEF Next, Ended, Advances
<1> QED
  BY <1>2, InvHolds, PTL DEF Spec, ReadAdvances
=============================================================================
